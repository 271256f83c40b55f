--------------------------- MODULE ClusterManager ---------------------------
(***************************************************************************)
(* The peers of a cluster.Manager (pkg/protocol/cluster/cluster.go): the    *)
(* heartbeat loop contacts them one after the other and then judges them by *)
(* the time of their last answer, while relays, AddPeer and RemovePeer      *)
(* touch the same NodeInfo objects.                                         *)
(*                                                                         *)
(* Time advances in units; LastHeartbeat is kept as the time since then, up *)
(* to Timeout + 1.  Every call takes time: a peer that is up answers within *)
(* the deadline, one that is down refuses, breaks off or lets the deadline  *)
(* pass.  The deadline fires after its instant and a goroutine runs some    *)
(* time after it could: Slack bounds how long a call and what follows it    *)
(* exceed the deadline.  The map holds pointers: a goroutine whose NodeInfo *)
(* was replaced or removed meanwhile (old) goes on with an object nobody    *)
(* else sees.                                                               *)
(***************************************************************************)
EXTENDS Integers, FiniteSets

CONSTANTS
  Peers,        \* peer ids, all of them seeds
  Faulty,       \* the peers that may go down
  Relays,       \* goroutines that call RelayToNode
  Interval,     \* Config.HeartbeatInterval
  Timeout,      \* Config.HeartbeatTimeout
  RpcTimeout,   \* the deadline of a heartbeat
  Slack,        \* what a call and the steps up to the next exceed it by, at most
  GivenStatuses, GivenAges,  \* the Status, and the age of the LastHeartbeat, of
                             \* the NodeInfos that are passed to AddPeer
  MaxChanges    \* bound on the calls of AddPeer and RemovePeer

ASSUME ClusterAssumption ==
  /\ {Interval, Timeout, RpcTimeout, Slack} \subseteq Nat \ {0}
  /\ GivenStatuses \subseteq {"online", "degraded", "offline"}
  /\ GivenAges \subseteq 0 .. Timeout + 1
  /\ MaxChanges \in Nat
  /\ IsFiniteSet(Peers)
  /\ Faulty \subseteq Peers

VARIABLES
  up,         \* the peers that answer
  listed,     \* the keys of Manager.peers
  status,     \* NodeInfo.Status of the listed peers (online for the others)
  since,      \* now - NodeInfo.LastHeartbeat of the listed peers (0 for the others)
  ticker,     \* units until the ticker fires
  tick,       \* a tick waits in the ticker's channel
  loop,       \* heartbeatLoop: pc, the peers still to contact, the peer in
              \* hand, whether its object is old, the units it may still spend
              \* on this peer
  relay,      \* per relay: pc, the peer in hand, whether its object is old
  changes,    \* calls of AddPeer and RemovePeer so far
  stopped     \* Stop was called

vars == <<up, listed, status, since, ticker, tick, loop, relay, changes, stopped>>

Statuses == {"online", "degraded", "offline"}
Nobody == [peer |-> "nobody", old |-> FALSE]
Hand(p) == [peer |-> p, old |-> FALSE]
Waiting == [pc |-> "wait", todo |-> {}, hand |-> Nobody, left |-> 0]
IdleRelay == [pc |-> "idle", hand |-> Nobody]

-----------------------------------------------------------------------------
(* The environment                                                         *)

GoDown(p) ==
  /\ p \in up \cap Faulty
  /\ up' = up \ {p}
  /\ UNCHANGED <<listed, status, since, ticker, tick, loop, relay, changes, stopped>>

ComeBack(p) ==
  /\ p \in Peers \ up
  /\ up' = up \cup {p}
  /\ UNCHANGED <<listed, status, since, ticker, tick, loop, relay, changes, stopped>>

\* A unit of time passes, while the loop is there to see it: between rounds,
\* in a call, or in the steps after it.  The channel holds one tick; further
\* ones are lost.
PassTime ==
  /\ loop.pc = "wait" \/ (loop.pc \in {"beat", "rpc"} /\ loop.left > 0)
  /\ since' = [p \in Peers |-> IF p \in listed /\ since[p] <= Timeout THEN since[p] + 1 ELSE since[p]]
  /\ ticker' = IF ticker = 1 THEN Interval ELSE ticker - 1
  /\ tick' = (tick \/ ticker = 1)
  /\ loop' = IF loop.pc = "wait" THEN loop ELSE [loop EXCEPT !.left = @ - 1]
  /\ UNCHANGED <<up, listed, status, relay, changes, stopped>>

-----------------------------------------------------------------------------
(* Membership                                                              *)

\* Whoever holds the object of p holds an old one from now on.
Detach(p) ==
  /\ loop' = IF loop.hand.peer = p THEN [loop EXCEPT !.hand.old = TRUE] ELSE loop
  /\ relay' = [r \in Relays |-> IF relay[r].hand.peer = p
                                THEN [relay[r] EXCEPT !.hand.old = TRUE] ELSE relay[r]]

\* AddPeer stores the caller's object as it is, whether or not there is one.
AddPeer(p) ==
  /\ changes < MaxChanges
  /\ changes' = changes + 1
  /\ listed' = listed \cup {p}
  /\ \E s \in GivenStatuses : status' = [status EXCEPT ![p] = s]
  /\ \E d \in GivenAges : since' = [since EXCEPT ![p] = d]
  /\ Detach(p)
  /\ UNCHANGED <<up, ticker, tick, stopped>>

RemovePeer(p) ==
  /\ p \in listed
  /\ changes < MaxChanges
  /\ changes' = changes + 1
  /\ listed' = listed \ {p}
  /\ status' = [status EXCEPT ![p] = "online"]
  /\ since' = [since EXCEPT ![p] = 0]
  /\ Detach(p)
  /\ UNCHANGED <<up, ticker, tick, stopped>>

Stop ==
  /\ ~stopped
  /\ stopped' = TRUE
  /\ UNCHANGED <<up, listed, status, since, ticker, tick, loop, relay, changes>>

-----------------------------------------------------------------------------
(* heartbeatLoop                                                           *)

SetStatus(h, s) ==
  status' = IF h.old THEN status ELSE [status EXCEPT ![h.peer] = s]

\* The select: the stop channel, or the tick, which starts a round.
LoopStops ==
  /\ loop.pc = "wait" /\ stopped
  /\ loop' = [loop EXCEPT !.pc = "ended"]
  /\ UNCHANGED <<up, listed, status, since, ticker, tick, relay, changes, stopped>>

LoopTicks ==
  /\ loop.pc = "wait" /\ tick
  /\ tick' = FALSE
  /\ loop' = [loop EXCEPT !.pc = "beat", !.todo = listed]
  /\ UNCHANGED <<up, listed, status, since, ticker, relay, changes, stopped>>

\* sendHeartbeats: the Range comes to a peer.  One that is offline, or gone,
\* is passed over, any other is called.
Heartbeat(p) ==
  /\ loop.pc = "beat" /\ p \in loop.todo
  /\ loop' = IF p \in listed /\ status[p] # "offline"
             THEN [pc |-> "rpc", todo |-> loop.todo \ {p}, hand |-> Hand(p), left |-> RpcTimeout + Slack]
             ELSE [loop EXCEPT !.todo = @ \ {p}]
  /\ UNCHANGED <<up, listed, status, since, ticker, tick, relay, changes, stopped>>

\* The call is over; what is left of the slack goes to the next steps.
Returned == [loop EXCEPT !.pc = "beat", !.hand = Nobody, !.left = IF @ > Slack THEN Slack ELSE @]

\* sendHeartbeats: the peer answers.  The time is noted, the status is not.
HeartbeatOk ==
  /\ loop.pc = "rpc" /\ loop.hand.peer \in up
  /\ since' = IF loop.hand.old THEN since ELSE [since EXCEPT ![loop.hand.peer] = 0]
  /\ loop' = Returned
  /\ UNCHANGED <<up, listed, status, ticker, tick, relay, changes, stopped>>

\* Slip: a failure ends the round (the Range function returns false)
HeartbeatFailsRound ==
  /\ loop.pc = "rpc" /\ loop.hand.peer \notin up
  /\ SetStatus(loop.hand, "degraded")
  /\ loop' = [Returned EXCEPT !.todo = {}]
  /\ UNCHANGED <<up, listed, since, ticker, tick, relay, changes, stopped>>

\* sendHeartbeats: the call fails, at once, later or at its deadline.
HeartbeatFails ==
  /\ loop.pc = "rpc" /\ loop.hand.peer \notin up
  /\ SetStatus(loop.hand, "degraded")
  /\ loop' = Returned
  /\ UNCHANGED <<up, listed, since, ticker, tick, relay, changes, stopped>>

\* Slip: the first threshold is compared with the peers that are not degraded yet
JudgedOnce(p) ==
  IF since[p] > Timeout /\ status[p] # "degraded" THEN "offline"
  ELSE IF 2 * since[p] > Timeout THEN "degraded"
  ELSE status[p]

\* What checkPeerHealth makes of a peer.
Judged(p) ==
  IF since[p] > Timeout THEN "offline"
  ELSE IF 2 * since[p] > Timeout THEN "degraded"
  ELSE status[p]

\* checkPeerHealth, when the round is over.
CheckPeerHealth ==
  /\ loop.pc = "beat" /\ loop.todo = {}
  /\ status' = [p \in Peers |-> IF p \in listed THEN Judged(p) ELSE status[p]]
  /\ loop' = Waiting
  /\ UNCHANGED <<up, listed, since, ticker, tick, relay, changes, stopped>>

-----------------------------------------------------------------------------
(* RelayToNode                                                             *)

\* A peer that is unknown or offline is an error.
RelayStart(r, p) ==
  /\ relay[r].pc = "idle"
  /\ p \in listed /\ status[p] # "offline"
  /\ relay' = [relay EXCEPT ![r] = [pc |-> "rpc", hand |-> Hand(p)]]
  /\ UNCHANGED <<up, listed, status, since, ticker, tick, loop, changes, stopped>>

\* The call succeeds, or fails at a peer that is up, which rejected it.
RelayReturns(r) ==
  /\ relay[r].pc = "rpc" /\ relay[r].hand.peer \in up
  /\ relay' = [relay EXCEPT ![r] = IdleRelay]
  /\ UNCHANGED <<up, listed, status, since, ticker, tick, loop, changes, stopped>>

\* The call fails; markPeerDegraded reads the status ...
RelayFails(r) ==
  LET h == relay[r].hand IN
  /\ relay[r].pc = "rpc"
  /\ relay' = [relay EXCEPT ![r] = IF ~h.old /\ status[h.peer] = "online"
                                   THEN [pc |-> "mark", hand |-> h] ELSE IdleRelay]
  /\ UNCHANGED <<up, listed, status, since, ticker, tick, loop, changes, stopped>>

\* ... and writes it, without a lock.
RelayMarks(r) ==
  /\ relay[r].pc = "mark"
  /\ SetStatus(relay[r].hand, "degraded")
  /\ relay' = [relay EXCEPT ![r] = IdleRelay]
  /\ UNCHANGED <<up, listed, since, ticker, tick, loop, changes, stopped>>

-----------------------------------------------------------------------------
\* Start has registered the seeds.
Init ==
  /\ up = Peers /\ listed = Peers
  /\ status = [p \in Peers |-> "online"]
  /\ since = [p \in Peers |-> 0]
  /\ ticker = Interval /\ tick = FALSE
  /\ loop = Waiting
  /\ relay = [r \in Relays |-> IdleRelay]
  /\ changes = 0
  /\ stopped = FALSE

LoopStep ==
  \/ LoopStops \/ LoopTicks \/ HeartbeatOk \/ HeartbeatFails \/ CheckPeerHealth
  \/ \E p \in Peers : Heartbeat(p)

RelayStep(r) == RelayReturns(r) \/ RelayFails(r) \/ RelayMarks(r)

Next ==
  \/ \E p \in Peers : GoDown(p) \/ ComeBack(p) \/ AddPeer(p) \/ RemovePeer(p)
  \/ Stop \/ PassTime \/ LoopStep
  \/ \E r \in Relays : (\E p \in Peers : RelayStart(r, p)) \/ RelayStep(r)

\* Time passes, the loop runs and relays return.
Fairness ==
  /\ WF_vars(PassTime) /\ WF_vars(LoopStep)
  /\ \A r \in Relays : WF_vars(RelayStep(r))

Spec == Init /\ [][Next]_vars /\ Fairness

-----------------------------------------------------------------------------
(* Properties                                                              *)

\* The time of a round, at most.
RoundTime == Cardinality(Peers) * (RpcTimeout + Slack)

\* A peer that answers every heartbeat within its deadline is never taken for
\* offline, as long as the deadlines of all peers, overrun included, fit into
\* the timeout, and AddPeer is not told that it is nearly gone already.  Down
\* or slow peers cost the others their time, as the calls are made one after
\* the other: with the defaults (5 s and 15 s) two peers fit and three do not.
\* (Offline is final: an offline peer is not called again.)
AnsweringPeersStay ==
  "offline" \notin GivenStatuses /\ (\A d \in GivenAges \cup {0} : d + RoundTime <= Timeout)
  => \A p \in listed \ Faulty : status[p] # "offline"

\* A peer that stays down is offline in the end, and stays so, although
\* relays that were under way may write its status after the loop did.
SilentPeersGoOffline ==
  \A p \in Faulty :
    <>[](p \notin up /\ p \in listed /\ ~stopped) => <>[](status[p] = "offline")
=============================================================================
