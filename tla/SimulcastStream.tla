-------------------------- MODULE SimulcastStream --------------------------
(***************************************************************************)
(* A track published in several qualities: SimulcastStreamV1 of            *)
(* lm-stream/src/lib.rs.  Each layer is a MediaStream; a subscriber is     *)
(* attached to the layer its policy selects, and update_dynacast switches  *)
(* layers on and off by the demand of the subscribers.                     *)
(*                                                                         *)
(* The publisher, each subscriber and the thread that announces layers     *)
(* call one method at a time.  The locks are those of parking_lot: a       *)
(* writer that waits keeps new readers out at once, also a reader that     *)
(* holds the lock already and asks for it again.  A step is what a thread  *)
(* does between two points where it can be made to wait; a lock that is    *)
(* held on the way to the next point is taken together with the one        *)
(* waited for where this only delays others.                               *)
(*                                                                         *)
(* Frames, and the sinks that a layer's stream serves, are followed in     *)
(* MediaStream: a sink is attached to one layer when it subscribes and     *)
(* stays there.  A key frame request is its read of the meta data;         *)
(* current_tier, which only decides whether to make one, is left out, and  *)
(* so are packets without a RID.                                           *)
(***************************************************************************)
EXTENDS Naturals, FiniteSets, FiniteSetsExt

CONSTANTS
    Sinks,       \* subscribers, each of which subscribes once
    Policies,    \* the policies subscribers ask for
    Bandwidths,  \* the estimates that are reported, 0 for "unknown"
    Published,   \* the layers the publisher announces, each once
    Cost,        \* target bit rate of each layer, 0 for "unknown"
    Publisher,   \* the thread that pushes packets
    Control      \* the thread that announces layers

Tiers == {"Low", "Mid", "High"}

(* Fixed(t) is written t.                                                  *)
Policy == Tiers \cup {"Adaptive", "Highest", "Lowest"}

ASSUME SimulcastAssumption ==
    /\ Policies \subseteq Policy
    /\ Bandwidths \subseteq Nat
    /\ Published \subseteq Tiers
    /\ Cost \in [Tiers -> Nat]
    /\ Publisher \notin Sinks /\ Control \notin Sinks /\ Control # Publisher

VARIABLES
    layers,      \* layers that have a MediaStream
    metas,       \* layers whose meta data is known
    subscribers, \* the sinks in the list of subscribers
    policy,      \* policy of a subscriber
    bandwidth,   \* last estimate for a subscriber
    enabled,     \* layer_enabled
    readers,     \* threads that hold the read lock of the layers
    pc,          \* per thread: progress of the call
    choice,      \* per thread: the layer the call is about
    plan,        \* per thread: what update_dynacast has decided on
    drift,       \* a bandwidth was reported, or a layer added late
    decided      \* update_dynacast has run

Threads == Sinks \cup {Publisher, Control}
Updaters == Threads \ {Control}   \* the threads that run update_dynacast

streamState == <<layers, metas, enabled>>
subState == <<subscribers, policy, bandwidth>>
vars == <<streamState, subState, readers, pc, choice, plan, drift, decided>>

Init ==
    /\ layers = {} /\ metas = {}
    /\ subscribers = {}
    /\ policy = [k \in Sinks |-> "Lowest"]
    /\ bandwidth = [k \in Sinks |-> 0]
    /\ enabled = [t \in Tiers |-> TRUE]
    /\ readers = {}
    /\ pc = [h \in Threads |-> IF h \in Sinks THEN "new" ELSE "idle"]
    /\ choice = [h \in Threads |-> "Low"]
    /\ plan = [h \in Threads |-> {}]
    /\ drift = FALSE
    /\ decided = FALSE

Goto(h, from, to) ==
    /\ pc[h] = from
    /\ pc' = [pc EXCEPT ![h] = to]

(* add_layer waits for a write lock, and readers wait behind it.           *)
LayersQueued == pc[Control] = "addLayer"
MetasQueued == pc[Control] = "addMeta"

(* update_dynacast holds the read locks of the subscribers and of the meta *)
(* data, and at the end the write lock of the enabled layers as well.      *)
Updating == {"select", "decide", "pli"}
SubscribersFree == \A h \in Threads : pc[h] \notin Updating
MetasFree == SubscribersFree
EnabledFree == \A h \in Threads : pc[h] # "pli"

----------------------------------------------------------------------------
Priority(t) == CASE t = "Low" -> 0 [] t = "Mid" -> 1 [] t = "High" -> 2

Top(S) ==
    IF S = {} THEN "Low"
    ELSE CHOOSE t \in S : \A u \in S : Priority(u) <= Priority(t)

(* select_layer_for_policy                                                 *)
SelectLayer(p, bw) ==
    CASE p \in Tiers -> p
      [] p = "Highest" -> Top(layers)
      [] p = "Lowest" -> "Low"
      [] p = "Adaptive" ->
           Top({t \in metas : bw = 0 \/ Cost[t] = 0 \/ bw >= Cost[t]})

(* What it reads: the layers for Highest, the meta data for Adaptive.      *)
CanSelect(P) ==
    /\ "Highest" \in P => ~LayersQueued
    /\ "Adaptive" \in P => ~MetasQueued

Users(t) == {k \in subscribers : SelectLayer(policy[k], bandwidth[k]) = t}

(* What the subscribers in S ask for together, bw giving their estimates.  *)
Demand(S, bw) == MapThenSumSet(LAMBDA k : bw[k], S)

Wanted(t) ==
    LET demand == Demand(Users(t), bandwidth)
        cost == IF t \in metas THEN Cost[t] ELSE 0
    IN  /\ Users(t) # {}
        /\ demand = 0 \/ cost = 0 \/ demand > cost \div 2

----------------------------------------------------------------------------
(* add_layer: the stream and its meta data are stored under two locks.     *)
(* Later layers change the choices of subscribers who are there already.   *)

Late == drift \/ decided \/ ~SubscribersFree

AddLayer(t) ==
    /\ Goto(Control, "idle", "addLayer")
    /\ t \in Published \ layers
    /\ choice' = [choice EXCEPT ![Control] = t]
    /\ UNCHANGED <<streamState, subState, readers, plan, drift, decided>>

InsertLayer ==
    /\ Goto(Control, "addLayer", "added")
    /\ readers = {}
    /\ layers' = layers \cup {choice[Control]}
    /\ drift' = Late
    /\ UNCHANGED <<metas, enabled, subState, readers, choice, plan, decided>>

AddMeta ==
    /\ Goto(Control, "added", "addMeta")
    /\ UNCHANGED <<streamState, subState, readers, choice, plan, drift, decided>>

InsertMeta ==
    /\ Goto(Control, "addMeta", "idle")
    /\ MetasFree
    /\ metas' = metas \cup {choice[Control]}
    /\ choice' = [choice EXCEPT ![Control] = "Low"]
    /\ drift' = Late
    /\ UNCHANGED <<layers, enabled, subState, readers, plan, decided>>

(* Slip: the frame is routed and the demand not looked at.                 *)
PushPacketOnly(t) ==
    /\ Goto(Publisher, "idle", "idle")
    /\ enabled[t] /\ t \in layers /\ EnabledFree /\ ~LayersQueued
    /\ UNCHANGED <<streamState, subState, readers, choice, plan, drift, decided>>

(* push_packet, for a packet that completes a frame; one for a layer that  *)
(* is disabled or unknown is dropped, and update_dynacast not reached.     *)
PushPacket(t) ==
    /\ Goto(Publisher, "idle", "dispatch")
    /\ enabled[t] /\ t \in layers /\ EnabledFree /\ ~LayersQueued
    /\ readers' = readers \cup {Publisher}
    /\ UNCHANGED <<streamState, subState, choice, plan, drift, decided>>

(* dispatch_to_subscribers reads the layers a second time.                 *)
Dispatch ==
    /\ Goto(Publisher, "dispatch", "demand")
    /\ ~LayersQueued
    /\ UNCHANGED <<streamState, subState, readers, choice, plan, drift, decided>>

----------------------------------------------------------------------------
(* add_subscriber                                                          *)

AddSubscriber(k, p) ==
    /\ Goto(k, "new", "attach")
    /\ CanSelect({p})
    /\ policy' = [policy EXCEPT ![k] = p]
    /\ choice' = [choice EXCEPT ![k] = SelectLayer(p, 0)]
    /\ UNCHANGED <<streamState, subscribers, bandwidth, readers, plan, drift,
                   decided>>

(* The sink is attached to the chosen layer's stream, if it exists.  The   *)
(* lock of the layers is kept until add_subscriber returns.                *)
Attach(k) ==
    /\ Goto(k, "attach", "subscribe")
    /\ ~LayersQueued
    /\ readers' = readers \cup {k}
    /\ choice' = [choice EXCEPT ![k] = "Low"]
    /\ UNCHANGED <<streamState, subState, plan, drift, decided>>

(* The key frame request after it reads the meta data, as does the first   *)
(* step of update_dynacast, which comes next.                              *)
Subscribe(k) ==
    /\ Goto(k, "subscribe", "demand")
    /\ SubscribersFree
    /\ subscribers' = subscribers \cup {k}
    /\ UNCHANGED <<streamState, policy, bandwidth, readers, choice, plan, drift,
                   decided>>

DropEntry(k) ==
    /\ subscribers' = subscribers \ {k}
    /\ policy' = [policy EXCEPT ![k] = "Lowest"]
    /\ bandwidth' = [bandwidth EXCEPT ![k] = 0]

(* Slip: the demand is left as it was.                                     *)
RemoveSubscriberOnly(k) ==
    /\ Goto(k, "in", "in")
    /\ k \in subscribers /\ SubscribersFree
    /\ DropEntry(k)
    /\ UNCHANGED <<streamState, readers, choice, plan, drift, decided>>

RemoveSubscriber(k) ==
    /\ Goto(k, "in", "demand")
    /\ k \in subscribers /\ SubscribersFree
    /\ DropEntry(k)
    /\ UNCHANGED <<streamState, readers, choice, plan, drift, decided>>

(* The key frame is requested with the list still locked.                  *)
SwitchLayer(k, t) ==
    /\ Goto(k, "in", "demand")
    /\ k \in subscribers /\ SubscribersFree /\ ~MetasQueued
    /\ policy' = [policy EXCEPT ![k] = t]
    /\ UNCHANGED <<streamState, subscribers, bandwidth, readers, choice, plan,
                   drift, decided>>

(* The estimate is stored, and update_dynacast is not called.              *)
UpdateSubscriberBandwidth(k, b) ==
    /\ pc[k] = "in" /\ k \in subscribers /\ bandwidth[k] # b
    /\ policy[k] = "Adaptive" => ~MetasQueued
    /\ bandwidth' = [bandwidth EXCEPT ![k] = b]
    /\ drift' = TRUE
    /\ UNCHANGED <<streamState, subscribers, policy, readers, pc, choice, plan,
                   decided>>

----------------------------------------------------------------------------
(* update_dynacast takes the locks of the subscribers and the meta data,   *)
(* selects a layer for each subscriber, and then takes the lock of the     *)
(* enabled layers; bandwidths may change and others decide in between.     *)

UpdateDynacast(h) ==
    /\ Goto(h, "demand", "select")
    /\ ~MetasQueued
    /\ UNCHANGED <<streamState, subState, readers, choice, plan, drift, decided>>

(* select_layer_for_policy takes read locks of its own.                    *)
ReadDemand(h) ==
    /\ Goto(h, "select", "decide")
    /\ CanSelect({policy[k] : k \in subscribers})
    /\ plan' = [plan EXCEPT ![h] = {t \in Tiers : Wanted(t)}]
    /\ UNCHANGED <<streamState, subState, readers, choice, drift, decided>>

(* Where the call that ran update_dynacast leaves its thread.              *)
Returned(h) == IF h = Publisher THEN "idle" ELSE "in"


Decide(h) ==
    LET wanted == [t \in Tiers |-> t \in plan[h]]
        pli == wanted # enabled /\ plan[h] # {}
    IN  /\ Goto(h, "decide", IF pli THEN "pli" ELSE Returned(h))
        /\ EnabledFree
        /\ enabled' = wanted
        /\ readers' = IF pli THEN readers ELSE readers \ {h}
        /\ plan' = [plan EXCEPT ![h] = {}]
        /\ decided' = TRUE
        /\ UNCHANGED <<layers, metas, subState, choice, drift>>

(* A change ends with key frame requests, which read the meta data again.  *)
SendPli(h) ==
    /\ Goto(h, "pli", Returned(h))
    /\ ~MetasQueued
    /\ readers' = readers \ {h}
    /\ UNCHANGED <<streamState, subState, choice, plan, drift, decided>>

Push == \E t \in Tiers : PushPacket(t)

Update(h) == UpdateDynacast(h) \/ ReadDemand(h) \/ Decide(h) \/ SendPli(h)

Next ==
    \/ \E t \in Published : AddLayer(t)
    \/ InsertLayer \/ AddMeta \/ InsertMeta
    \/ Push \/ Dispatch
    \/ \E k \in Sinks :
          \/ \E p \in Policies : AddSubscriber(k, p)
          \/ Attach(k) \/ Subscribe(k) \/ RemoveSubscriber(k)
          \/ \E t \in Published : SwitchLayer(k, t)
          \/ \E b \in Bandwidths : UpdateSubscriberBandwidth(k, b)
    \/ \E h \in Updaters : Update(h)

(* Calls that have begun go on, and the publisher keeps sending frames.    *)
(* parking_lot hands the list of subscribers to a writer that waits for    *)
(* it, although others take the lock again and again.                      *)
Fairness ==
    /\ WF_vars(InsertLayer) /\ WF_vars(AddMeta) /\ WF_vars(InsertMeta)
    /\ WF_vars(Push) /\ WF_vars(Dispatch)
    /\ \A k \in Sinks : WF_vars(Attach(k))
    /\ SF_vars(\E k \in Sinks : Subscribe(k))
    /\ \A h \in Updaters : WF_vars(Update(h))

Spec == Init /\ [][Next]_vars
FairSpec == Spec /\ Fairness

----------------------------------------------------------------------------
TypeOK ==
    /\ metas \subseteq layers /\ layers \subseteq Published
    /\ subscribers \subseteq Sinks
    /\ policy \in [Sinks -> Policy]
    /\ bandwidth \in [Sinks -> Bandwidths \cup {0}]
    /\ enabled \in [Tiers -> BOOLEAN]
    /\ readers \subseteq Updaters
    /\ pc \in [Threads -> {"idle", "addLayer", "added", "addMeta", "dispatch",
                           "new", "attach", "subscribe", "in", "demand",
                           "select", "decide", "pli"}]
    /\ choice \in [Threads -> Tiers]
    /\ plan \in [Threads -> SUBSET Tiers]
    /\ {drift, decided} \subseteq BOOLEAN

Quiet == \A h \in Threads : pc[h] \in {"idle", "new", "in"}

(* Without bandwidth reports and late layers, a layer is on between calls  *)
(* exactly if some subscriber's policy selects it, although concurrent     *)
(* calls decide on what they read earlier (lib.rs:869-930): a decision     *)
(* keeps the list of subscribers locked until it is made.                  *)
SubscriptionsDecide ==
    Quiet /\ decided /\ ~drift => \A t \in Tiers : enabled[t] = Wanted(t)

(* A layer that is demanded for good is switched on for good, and one that *)
(* nobody wants off, "at least one subscriber needs the layer and its      *)
(* demand covers half its cost" (lib.rs:866-867), as long as some layer    *)
(* stays on and every add_layer returns: the demand is looked at when a    *)
(* frame gets through.                                                     *)
Flowing == (\E t \in layers : enabled[t]) /\ pc[Control] = "idle"

DemandFollowed ==
    \A t \in Tiers :
        /\ <>[](Flowing /\ Wanted(t)) => <>[]enabled[t]
        /\ <>[](Flowing /\ ~Wanted(t)) => <>[](~enabled[t])

(* The circular waits that a waiting add_layer closes: a push or an        *)
(* add_subscriber asks for the layers it holds (lib.rs:722 under 704, 826  *)
(* under 704 and 741), an update for the meta data it holds (837 and 624   *)
(* under 871), or it waits for the layers while an add_subscriber that     *)
(* holds them waits for the list of subscribers (826, 741, 746).           *)
Asking(p) == \E k \in subscribers : policy[k] = p

Jammed ==
    \/ LayersQueued /\ \E h \in Updaters :
          \/ pc[h] = "dispatch"
          \/ /\ pc[h] = "select" /\ Asking("Highest")
             /\ h \in readers \/ \E k \in readers : pc[k] = "subscribe"
    \/ MetasQueued /\ \E h \in Updaters :
          pc[h] = "pli" \/ (pc[h] = "select" /\ Asking("Adaptive"))

============================================================================
