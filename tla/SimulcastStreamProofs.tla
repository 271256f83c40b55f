----------------------- MODULE SimulcastStreamProofs -----------------------
(***************************************************************************)
(* The layers of a simulcast stream are switched by what its subscribers   *)
(* select, for any subscribers, policies, layers and costs.                *)
(*                                                                         *)
(* SubscriptionsDecide speaks of the moments between calls.  It is not     *)
(* inductive: a call changes the subscribers first, decides on a plan      *)
(* next, and applies the plan last.  DecisionInv adds what holds on the    *)
(* way: a plan is what the subscribers want for as long as it waits to be  *)
(* applied, because its thread keeps their list locked; and whoever made   *)
(* the enabled layers stale has yet to decide.                             *)
(***************************************************************************)
EXTENDS SimulcastStream, TLAPS

(* Calls that change the demand and have yet to decide.                     *)
Pending == {"demand", "select", "decide"}

(* What the proof needs of the types.                                      *)
ThreadsTypeOK ==
    /\ subscribers \subseteq Sinks
    /\ policy \in [Sinks -> Policy]
    /\ enabled \in [Tiers -> BOOLEAN]
    /\ pc \in [Threads -> {"idle", "addLayer", "added", "addMeta", "dispatch",
                           "new", "attach", "subscribe", "in", "demand",
                           "select", "decide", "pli"}]
    /\ plan \in [Threads -> SUBSET Tiers]
    /\ {drift, decided} \subseteq BOOLEAN

(* add_subscriber enters the list with its third step.                     *)
NewcomersOutside ==
    \A k \in Sinks : pc[k] \in {"new", "attach", "subscribe"} => k \notin subscribers

(* A plan is up to date until it is applied.                               *)
PlansAreCurrent ==
    ~drift => \A h \in Threads :
        pc[h] = "decide" => plan[h] = {t \in Tiers : Wanted(t)}

(* Stale layers are some thread's business.                                *)
StaleIsPending ==
    decided /\ ~drift /\ (\A h \in Threads : pc[h] \notin Pending)
        => \A t \in Tiers : enabled[t] <=> Wanted(t)

DecisionInv ==
    ThreadsTypeOK /\ NewcomersOutside /\ PlansAreCurrent /\ StaleIsPending

----------------------------------------------------------------------------
(* What is wanted depends on the layers and on the entries of the          *)
(* subscribers, and not on the policies of those who are not in the list.  *)
LEMMA WantedDependsOn ==
    ASSUME UNCHANGED <<layers, metas, subscribers, bandwidth>>,
           \A k \in subscribers : policy'[k] = policy[k],
           NEW t \in Tiers
    PROVE  Wanted(t)' <=> Wanted(t)
  <1>1. \A p, b : SelectLayer(p, b)' = SelectLayer(p, b)
    BY DEF SelectLayer
  <1>2. Users(t)' = Users(t)
    BY <1>1 DEF Users
  <1>3. Demand(Users(t), bandwidth)' = Demand(Users(t), bandwidth)
    BY <1>2
  <1> QED  BY <1>2, <1>3 DEF Wanted

LEMMA WantedSame ==
    ASSUME UNCHANGED <<layers, metas, subscribers, bandwidth>>,
           \A k \in subscribers : policy'[k] = policy[k]
    PROVE  /\ {t \in Tiers : Wanted(t)}' = {t \in Tiers : Wanted(t)}
           /\ \A t \in Tiers : Wanted(t)' <=> Wanted(t)
  <1>1. \A t \in Tiers : Wanted(t)' <=> Wanted(t)
    BY WantedDependsOn
  <1> QED  BY <1>1

LEMMA DecisionInit == Init => DecisionInv
  BY SimulcastAssumption, ZenonT(30)
     DEF Init, DecisionInv, ThreadsTypeOK, NewcomersOutside, PlansAreCurrent,
         StaleIsPending, Pending, Policy, Threads

LEMMA DecisionNext == DecisionInv /\ [Next]_vars => DecisionInv'
  <1> SUFFICES ASSUME DecisionInv, [Next]_vars PROVE DecisionInv'
    OBVIOUS
  <1> USE SimulcastAssumption
      DEF DecisionInv, ThreadsTypeOK, Pending, Goto, Threads, Updaters
  <1>1. ASSUME InsertLayer \/ InsertMeta PROVE DecisionInv'
    <2>1. /\ \E to \in {"added", "idle"} : pc' = [pc EXCEPT ![Control] = to]
          /\ pc[Control] \in {"addLayer", "addMeta"}
          /\ UNCHANGED <<enabled, subscribers, policy, plan, decided>>
          /\ ~drift' => ~drift /\ ~decided /\ SubscribersFree
          /\ drift' \in BOOLEAN
      BY <1>1 DEF InsertLayer, InsertMeta, Late, SubscribersFree, subState
    <2>2. ThreadsTypeOK' /\ NewcomersOutside'
      BY <2>1 DEF NewcomersOutside
    <2>3. ~drift' => \A h \in Threads : pc'[h] # "decide"
      BY <2>1 DEF SubscribersFree, Updating
    <2>4. PlansAreCurrent'
      BY <2>3 DEF PlansAreCurrent
    <2>5. StaleIsPending'
      BY <2>1 DEF StaleIsPending
    <2> QED  BY <2>2, <2>4, <2>5
  <1>2. ASSUME NEW h \in Threads,
               NEW to \in {"addLayer", "addMeta", "dispatch", "demand", "select"},
               pc[h] \in {"idle", "added", "dispatch", "demand"},
               pc' = [pc EXCEPT ![h] = to],
               pc[h] = "demand" => to = "select",
               UNCHANGED <<streamState, subState, plan, drift, decided>>
        PROVE DecisionInv'
    <2>1. UNCHANGED <<layers, metas, enabled, subscribers, policy, bandwidth>>
      BY <1>2 DEF streamState, subState
    <2>2. /\ {t \in Tiers : Wanted(t)}' = {t \in Tiers : Wanted(t)}
          /\ \A t \in Tiers : Wanted(t)' <=> Wanted(t)
      BY <2>1, WantedSame
    <2>3. ThreadsTypeOK' /\ NewcomersOutside'
      BY <1>2, <2>1 DEF NewcomersOutside
    <2>4. PlansAreCurrent'
      BY <1>2, <2>1, <2>2 DEF PlansAreCurrent
    <2>5. StaleIsPending'
      BY <1>2, <2>1, <2>2 DEF StaleIsPending
    <2> QED  BY <2>3, <2>4, <2>5
  <1>3. ASSUME (\E t \in Published : AddLayer(t)) \/ AddMeta \/ Push \/ Dispatch
                  \/ \E h \in Updaters : UpdateDynacast(h)
        PROVE DecisionInv'
    BY <1>2, <1>3 DEF AddLayer, AddMeta, Push, PushPacket, Dispatch, UpdateDynacast
  <1>4. ASSUME NEW k \in Sinks, NEW p \in Policies, AddSubscriber(k, p)
        PROVE DecisionInv'
    <2>1. /\ pc[k] = "new" /\ pc' = [pc EXCEPT ![k] = "attach"]
          /\ policy' = [policy EXCEPT ![k] = p]
          /\ UNCHANGED <<layers, metas, enabled, subscribers, bandwidth, plan,
                         drift, decided>>
      BY <1>4 DEF AddSubscriber, streamState
    <2>2. /\ {t \in Tiers : Wanted(t)}' = {t \in Tiers : Wanted(t)}
          /\ \A t \in Tiers : Wanted(t)' <=> Wanted(t)
      BY <2>1, WantedSame DEF NewcomersOutside
    <2>3. ThreadsTypeOK' /\ NewcomersOutside'
      BY <2>1 DEF NewcomersOutside
    <2>4. PlansAreCurrent'
      BY <2>1, <2>2 DEF PlansAreCurrent
    <2>5. StaleIsPending'
      BY <2>1, <2>2 DEF StaleIsPending
    <2> QED  BY <2>3, <2>4, <2>5
  <1>5. ASSUME NEW k \in Sinks, Attach(k) PROVE DecisionInv'
    <2>1. /\ pc[k] = "attach" /\ pc' = [pc EXCEPT ![k] = "subscribe"]
          /\ UNCHANGED <<layers, metas, enabled, subscribers, policy, bandwidth,
                         plan, drift, decided>>
      BY <1>5 DEF Attach, streamState, subState
    <2>2. /\ {t \in Tiers : Wanted(t)}' = {t \in Tiers : Wanted(t)}
          /\ \A t \in Tiers : Wanted(t)' <=> Wanted(t)
      BY <2>1, WantedSame
    <2>3. ThreadsTypeOK' /\ NewcomersOutside'
      BY <2>1 DEF NewcomersOutside
    <2>4. PlansAreCurrent'
      BY <2>1, <2>2 DEF PlansAreCurrent
    <2>5. StaleIsPending'
      BY <2>1, <2>2 DEF StaleIsPending
    <2> QED  BY <2>3, <2>4, <2>5
  <1>6. ASSUME NEW k \in Sinks,
               Subscribe(k) \/ RemoveSubscriber(k)
                  \/ \E t \in Published : SwitchLayer(k, t)
        PROVE DecisionInv'
    <2>1. /\ pc' = [pc EXCEPT ![k] = "demand"]
          /\ pc[k] \in {"subscribe", "in"}
          /\ \A h \in Threads : pc[h] # "decide"
          /\ subscribers' \in {subscribers \cup {k}, subscribers \ {k},
                               subscribers}
          /\ policy' \in [Sinks -> Policy]
          /\ UNCHANGED <<enabled, plan, drift, decided>>
      BY <1>6 DEF Subscribe, RemoveSubscriber, SwitchLayer, DropEntry,
         SubscribersFree, Updating, streamState, Policy
    <2>2. ThreadsTypeOK' /\ NewcomersOutside'
      BY <2>1 DEF NewcomersOutside
    <2>3. PlansAreCurrent' /\ StaleIsPending'
      BY <2>1 DEF PlansAreCurrent, StaleIsPending
    <2> QED  BY <2>2, <2>3
  <1>7. ASSUME NEW k \in Sinks, NEW b \in Bandwidths,
               UpdateSubscriberBandwidth(k, b)
        PROVE DecisionInv'
    BY <1>7 DEF UpdateSubscriberBandwidth, NewcomersOutside, PlansAreCurrent,
       StaleIsPending, streamState
  <1>8. ASSUME NEW h \in Updaters, ReadDemand(h) PROVE DecisionInv'
    <2>1. /\ pc' = [pc EXCEPT ![h] = "decide"]
          /\ pc[h] = "select"
          /\ plan' = [plan EXCEPT ![h] = {t \in Tiers : Wanted(t)}]
          /\ UNCHANGED <<layers, metas, enabled, subscribers, policy, bandwidth,
                         drift, decided>>
      BY <1>8 DEF ReadDemand, streamState, subState
    <2>2. {t \in Tiers : Wanted(t)}' = {t \in Tiers : Wanted(t)}
      BY <2>1, WantedSame
    <2>3. ThreadsTypeOK' /\ NewcomersOutside'
      BY <2>1 DEF NewcomersOutside
    <2>4. PlansAreCurrent'
      BY <2>1, <2>2 DEF PlansAreCurrent
    <2>5. StaleIsPending'
      BY <2>1 DEF StaleIsPending
    <2> QED  BY <2>3, <2>4, <2>5
  <1>9. ASSUME NEW h \in Updaters, Decide(h) PROVE DecisionInv'
    <2>1. /\ pc[h] = "decide"
          /\ \E to \in {"pli", "idle", "in"} : pc' = [pc EXCEPT ![h] = to]
          /\ enabled' = [t \in Tiers |-> t \in plan[h]]
          /\ plan' = [plan EXCEPT ![h] = {}]
          /\ decided' = TRUE
          /\ UNCHANGED <<layers, metas, subscribers, policy, bandwidth, drift>>
      BY <1>9 DEF Decide, Returned, subState
    <2>2. /\ {t \in Tiers : Wanted(t)}' = {t \in Tiers : Wanted(t)}
          /\ \A t \in Tiers : Wanted(t)' <=> Wanted(t)
      BY <2>1, WantedSame
    <2>3. ThreadsTypeOK' /\ NewcomersOutside'
      BY <2>1 DEF NewcomersOutside
    <2>4. PlansAreCurrent'
      BY <2>1, <2>2 DEF PlansAreCurrent
    <2>5. ~drift => \A t \in Tiers : enabled'[t] <=> Wanted(t)
      BY <2>1 DEF PlansAreCurrent
    <2>6. StaleIsPending'
      BY <2>1, <2>2, <2>5 DEF StaleIsPending
    <2> QED  BY <2>3, <2>4, <2>6
  <1>10. CASE UNCHANGED vars
    <2>1. UNCHANGED <<layers, metas, enabled, subscribers, policy, bandwidth,
                      pc, plan, drift, decided>>
      BY <1>10 DEF vars, streamState, subState
    <2>2. /\ {t \in Tiers : Wanted(t)}' = {t \in Tiers : Wanted(t)}
          /\ \A t \in Tiers : Wanted(t)' <=> Wanted(t)
      BY <2>1, WantedSame
    <2> QED  BY <2>1, <2>2 DEF NewcomersOutside, PlansAreCurrent, StaleIsPending
  <1>11. ASSUME NEW h \in Updaters, SendPli(h) PROVE DecisionInv'
    <2>1. /\ pc[h] = "pli"
          /\ \E to \in {"idle", "in"} : pc' = [pc EXCEPT ![h] = to]
          /\ UNCHANGED <<layers, metas, enabled, subscribers, policy, bandwidth,
                         plan, drift, decided>>
      BY <1>11 DEF SendPli, Returned, streamState, subState
    <2>2. /\ {t \in Tiers : Wanted(t)}' = {t \in Tiers : Wanted(t)}
          /\ \A t \in Tiers : Wanted(t)' <=> Wanted(t)
      BY <2>1, WantedSame
    <2>3. ThreadsTypeOK' /\ NewcomersOutside'
      BY <2>1 DEF NewcomersOutside
    <2>4. PlansAreCurrent' /\ StaleIsPending'
      BY <2>1, <2>2 DEF PlansAreCurrent, StaleIsPending
    <2> QED  BY <2>3, <2>4
  <1> QED
    BY <1>1, <1>3, <1>4, <1>5, <1>6, <1>7, <1>8, <1>9, <1>10, <1>11
       DEF Next, Update

(* Without bandwidth reports and late layers, a layer is on between calls  *)
(* exactly if the subscribers want it, for any number of threads in        *)
(* add_subscriber, remove_subscriber, switch_layer and push_packet, and    *)
(* any costs of the layers (lib.rs:869-930).                               *)
THEOREM SubscriptionsDecideCorrect == Spec => []SubscriptionsDecide
  <1>1. DecisionInv => SubscriptionsDecide
    BY DEF DecisionInv, ThreadsTypeOK, Wanted, StaleIsPending, SubscriptionsDecide, Quiet, Pending
  <1> QED  BY <1>1, DecisionInit, DecisionNext, PTL DEF Spec

----------------------------------------------------------------------------
(* Types.  Which layer a policy selects.                                   *)

LEMMA TopIsHighest ==
    ASSUME NEW S \in SUBSET Tiers, S # {}
    PROVE  Top(S) \in S /\ \A u \in S : Priority(u) <= Priority(Top(S))
  <1>1. Priority("Low") = 0 /\ Priority("Mid") = 1 /\ Priority("High") = 2
    BY DEF Priority
  <1>2. \A u \in S : u = "Low" \/ u = "Mid" \/ u = "High"
    BY DEF Tiers
  <1>3. \E t \in S : \A u \in S : Priority(u) <= Priority(t)
    <2>1. CASE "High" \in S
      BY <1>1, <1>2, <2>1
    <2>2. CASE "High" \notin S /\ "Mid" \in S
      BY <1>1, <1>2, <2>2
    <2>3. CASE "High" \notin S /\ "Mid" \notin S
      BY <1>1, <1>2, <2>3
    <2> QED  BY <2>1, <2>2, <2>3
  <1> QED  BY <1>3 DEF Top

LEMMA SelectLayerType ==
    ASSUME NEW p \in Policy, NEW b, layers \subseteq Tiers, metas \subseteq Tiers
    PROVE  SelectLayer(p, b) \in Tiers
  <1>1. ASSUME NEW S \in SUBSET Tiers PROVE Top(S) \in Tiers
    <2>1. CASE S = {}
      BY <2>1 DEF Top, Tiers
    <2>2. CASE S # {}
      BY <2>2, TopIsHighest
    <2> QED  BY <2>1, <2>2
  <1>2. CASE p \in Tiers
    <2>1. p # "Highest" /\ p # "Lowest" /\ p # "Adaptive"
      BY <1>2 DEF Tiers
    <2> QED  BY <1>2, <2>1 DEF SelectLayer
  <1>3. CASE p = "Highest"
    <2>1. p \notin Tiers /\ p # "Lowest" /\ p # "Adaptive"
      BY <1>3 DEF Tiers
    <2> QED  BY <1>1, <1>3, <2>1 DEF SelectLayer
  <1>4. CASE p = "Lowest"
    <2>1. p \notin Tiers /\ p # "Highest" /\ p # "Adaptive" /\ "Low" \in Tiers
      BY <1>4 DEF Tiers
    <2> QED  BY <1>4, <2>1 DEF SelectLayer
  <1>5. CASE p = "Adaptive"
    <2>1. p \notin Tiers /\ p # "Lowest" /\ p # "Highest"
      BY <1>5 DEF Tiers
    <2>2. {t \in metas : b = 0 \/ Cost[t] = 0 \/ b >= Cost[t]} \in SUBSET Tiers
      OBVIOUS
    <2>3. SelectLayer(p, b) =
              Top({t \in metas : b = 0 \/ Cost[t] = 0 \/ b >= Cost[t]})
      BY <1>5, <2>1 DEF SelectLayer
    <2> QED  BY <1>1, <2>2, <2>3
  <1> QED  BY <1>2, <1>3, <1>4, <1>5 DEF Policy

(* add_layer stores the stream before the meta data.                       *)
LayerFirst ==
    /\ pc[Control] = "addLayer" => choice[Control] \in Published
    /\ pc[Control] \in {"added", "addMeta"} => choice[Control] \in layers

LEMMA StreamTypeInit == Init => TypeOK /\ LayerFirst
  <1> SUFFICES ASSUME Init PROVE TypeOK /\ LayerFirst
    OBVIOUS
  <1>1. LayerFirst
    BY DEF Init, LayerFirst, Threads
  <1>2. TypeOK
    BY SimulcastAssumption DEF Init, TypeOK, Policy, Tiers, Threads
  <1> QED  BY <1>1, <1>2

LEMMA StreamTypeNext == TypeOK /\ LayerFirst /\ [Next]_vars => TypeOK' /\ LayerFirst'
  <1> SUFFICES ASSUME TypeOK, LayerFirst, [Next]_vars PROVE TypeOK' /\ LayerFirst'
    OBVIOUS
  <1>0. Published \subseteq Tiers /\ layers \subseteq Tiers /\ metas \subseteq Tiers
        /\ Tiers \subseteq Policy /\ "Low" \in Tiers /\ "Lowest" \in Policy
        /\ Publisher \in Updaters /\ Sinks \subseteq Updaters
        /\ Updaters \subseteq Threads /\ Control \in Threads \ Updaters
        /\ Publisher \notin Sinks /\ Control \notin Sinks /\ Control # Publisher
    BY SimulcastAssumption DEF TypeOK, Policy, Tiers, Threads, Updaters
  <1> USE DEF TypeOK, LayerFirst, Goto
  <1>1. ASSUME NEW t \in Published, AddLayer(t) PROVE TypeOK' /\ LayerFirst'
    BY <1>0, <1>1 DEF AddLayer, streamState, subState
  <1>2. CASE InsertLayer \/ AddMeta \/ InsertMeta
    <2>1. CASE InsertLayer
      <3>1. drift' \in BOOLEAN
        BY <2>1 DEF InsertLayer, Late, SubscribersFree
      <3> QED  BY <1>0, <2>1, <3>1 DEF InsertLayer, subState
    <2>2. CASE AddMeta
      BY <1>0, <2>2 DEF AddMeta, streamState, subState
    <2>3. CASE InsertMeta
      <3>1. drift' \in BOOLEAN
        BY <2>3 DEF InsertMeta, Late, SubscribersFree
      <3> QED  BY <1>0, <2>3, <3>1 DEF InsertMeta, subState
    <2> QED  BY <1>2, <2>1, <2>2, <2>3
  <1>3. CASE Push \/ Dispatch
    BY <1>0, <1>3 DEF Push, PushPacket, Dispatch, streamState, subState
  <1>4. ASSUME NEW k \in Sinks, NEW p \in Policies, AddSubscriber(k, p)
        PROVE  TypeOK' /\ LayerFirst'
    <2>1. p \in Policy /\ SelectLayer(p, 0) \in Tiers
      BY <1>0, SelectLayerType, SimulcastAssumption
    <2> QED  BY <1>0, <1>4, <2>1 DEF AddSubscriber, streamState
  <1>5. ASSUME NEW k \in Sinks, Attach(k) PROVE TypeOK' /\ LayerFirst'
    BY <1>0, <1>5 DEF Attach, streamState, subState
  <1>6. ASSUME NEW k \in Sinks,
               Subscribe(k) \/ RemoveSubscriber(k)
                  \/ \E t \in Published : SwitchLayer(k, t)
        PROVE TypeOK' /\ LayerFirst'
    <2>1. CASE Subscribe(k)
      BY <1>0, <2>1 DEF Subscribe, streamState
    <2>2. CASE RemoveSubscriber(k)
      BY <1>0, <2>2 DEF RemoveSubscriber, DropEntry, streamState
    <2>3. CASE \E t \in Published : SwitchLayer(k, t)
      BY <1>0, <2>3 DEF SwitchLayer, streamState
    <2> QED  BY <1>6, <2>1, <2>2, <2>3
  <1>7. ASSUME NEW k \in Sinks, NEW b \in Bandwidths,
               UpdateSubscriberBandwidth(k, b)
        PROVE TypeOK' /\ LayerFirst'
    BY <1>0, <1>7 DEF UpdateSubscriberBandwidth, streamState
  <1>8. ASSUME NEW h \in Updaters, UpdateDynacast(h) \/ ReadDemand(h)
        PROVE  TypeOK' /\ LayerFirst'
    <2>1. {t \in Tiers : Wanted(t)} \in SUBSET Tiers
      OBVIOUS
    <2> QED
      BY <1>0, <1>8, <2>1 DEF UpdateDynacast, ReadDemand, streamState, subState
  <1>9. ASSUME NEW h \in Updaters, Decide(h) \/ SendPli(h)
        PROVE  TypeOK' /\ LayerFirst'
    <2>1. CASE Decide(h)
      <3>1. enabled' \in [Tiers -> BOOLEAN]
        BY <2>1 DEF Decide
      <3>2. readers' \subseteq Updaters
        BY <2>1 DEF Decide
      <3> QED  BY <1>0, <2>1, <3>1, <3>2 DEF Decide, Returned, subState
    <2>2. CASE SendPli(h)
      BY <1>0, <2>2 DEF SendPli, Returned, streamState, subState
    <2> QED  BY <1>9, <2>1, <2>2
  <1>10. CASE UNCHANGED vars
    BY <1>10 DEF vars, streamState, subState
  <1> QED  BY <1>1, <1>2, <1>3, <1>4, <1>5, <1>6, <1>7, <1>8, <1>9, <1>10
       DEF Next, Update

(* A layer's meta data never come before its stream, and every policy      *)
(* selects a tier, whichever layers have meta data when it is asked        *)
(* (lib.rs:643-672, 809-854).                                              *)
THEOREM TypeCorrect == Spec => []TypeOK
  BY StreamTypeInit, StreamTypeNext, PTL DEF Spec
============================================================================
