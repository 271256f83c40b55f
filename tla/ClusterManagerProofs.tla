------------------------ MODULE ClusterManagerProofs ------------------------
(***************************************************************************)
(* Peers that answer are never taken for offline, for any cluster, any     *)
(* timings and any number of relays and changes of the membership.         *)
(*                                                                         *)
(* AnsweringPeersStay is about the verdicts of checkPeerHealth.  It is not *)
(* inductive: a verdict is right because of when the peer was called in    *)
(* the round, and of how long the calls after it could take.  HealthInv    *)
(* keeps that account: the time since the last answer of a peer that was   *)
(* called already, and the time the rest of the round may still take, fit  *)
(* together into the timeout.                                              *)
(***************************************************************************)
EXTENDS ClusterManager, FiniteSetTheorems, TLAPS

\* The time that the calls of the peers of S may take.
CallTime == RpcTimeout + Slack
Budget(S) == Cardinality(S) * CallTime

InRound == loop.pc \in {"beat", "rpc"}

\* The time the rest of the round may take.
StillToWait == Budget(loop.todo) + loop.left

ToBeCalled(p) == p \in loop.todo \/ (loop.pc = "rpc" /\ loop.hand = Hand(p))

HandType == [peer : Peers \cup {"nobody"}, old : BOOLEAN]

HealthTypeOK ==
  /\ up \subseteq Peers
  /\ listed \subseteq Peers
  /\ status \in [Peers -> Statuses]
  /\ since \in [Peers -> Nat]
  /\ loop \in [pc : {"wait", "beat", "rpc", "ended"}, todo : SUBSET Peers,
               hand : HandType, left : 0 .. CallTime]
  /\ relay \in [Relays -> [pc : {"idle", "rpc", "mark"}, hand : HandType]]

\* The peer in hand, or of the last call, has been taken off the list.
HandIsTaken ==
  /\ loop.pc = "rpc" => loop.hand.peer \in Peers \ loop.todo
  /\ loop.left > 0 => Peers \ loop.todo # {}
  /\ loop.pc = "wait" => loop.left = 0

\* Only faulty peers go down.
AnsweringAreUp == Peers \ Faulty \subseteq up

TimesFit ==
  /\ "offline" \notin GivenStatuses
  /\ \A d \in GivenAges \cup {0} : d + Budget(Peers) <= Timeout

\* The account of the round.
CalledInTime ==
  TimesFit /\ InRound =>
    \A p \in listed \ Faulty :
      ToBeCalled(p) \/ since[p] + StillToWait <= Timeout

NoneOffline == TimesFit => \A p \in listed \ Faulty : status[p] # "offline"

HealthInv ==
  HealthTypeOK /\ HandIsTaken /\ AnsweringAreUp /\ CalledInTime /\ NoneOffline

-----------------------------------------------------------------------------
\* The budget of a set of peers is that of its members.
LEMMA BudgetType ==
  ASSUME NEW S \in SUBSET Peers PROVE Budget(S) \in Nat /\ CallTime \in Nat
  BY ClusterAssumption, FS_Subset, FS_CardinalityType DEF Budget, CallTime

LEMMA BudgetRemove ==
  ASSUME NEW S \in SUBSET Peers, NEW q \in S
  PROVE  Budget(S) = Budget(S \ {q}) + CallTime
  <1>1. IsFiniteSet(S)
    BY ClusterAssumption, FS_Subset
  <1>2. /\ Cardinality(S) \in Nat
        /\ Cardinality(S \ {q}) = Cardinality(S) - 1
    BY <1>1, FS_RemoveElement, FS_CardinalityType
  <1>3. \A n, r \in Nat : n * r = (n - 1) * r + r
    OBVIOUS
  <1> QED  BY <1>2, <1>3, BudgetType DEF Budget

LEMMA BudgetMonotone ==
  ASSUME NEW T \in SUBSET Peers, NEW S \in SUBSET T
  PROVE  Budget(S) <= Budget(T)
  <1>1. IsFiniteSet(T) /\ IsFiniteSet(S)
    BY ClusterAssumption, FS_Subset
  <1>2. Cardinality(S) \in Nat /\ Cardinality(T) \in Nat
        /\ Cardinality(S) <= Cardinality(T)
    BY <1>1, FS_Subset, FS_CardinalityType
  <1>3. \A m, n, r \in Nat : m <= n => m * r <= n * r
    OBVIOUS
  <1> QED  BY <1>2, <1>3, BudgetType DEF Budget

\* What is left of a round fits into the time of a round.
LEMMA WaitFits ==
  ASSUME HealthTypeOK, HandIsTaken
  PROVE  StillToWait \in Nat /\ StillToWait <= Budget(Peers)
  <1> USE ClusterAssumption
  <1>1. /\ Budget(loop.todo) \in Nat
        /\ Budget(loop.todo) <= Budget(Peers)
        /\ Budget(Peers) \in Nat
        /\ CallTime \in Nat
    BY BudgetType, BudgetMonotone DEF HealthTypeOK
  <1>2. loop.left \in 0 .. CallTime
    BY DEF HealthTypeOK
  <1>3. CASE loop.left > 0
    <2>1. PICK q \in Peers : q \notin loop.todo
      BY <1>3 DEF HandIsTaken
    <2>2. Budget(Peers) = Budget(Peers \ {q}) + CallTime
      BY BudgetRemove
    <2>3. loop.todo \subseteq Peers \ {q}
      BY <2>1 DEF HealthTypeOK
    <2>4. Budget(loop.todo) <= Budget(Peers \ {q})
      BY <2>3, BudgetMonotone
    <2>5. Budget(Peers \ {q}) \in Nat
      BY BudgetType
    <2> QED  BY <1>1, <1>2, <2>2, <2>4, <2>5 DEF StillToWait
  <1>4. CASE loop.left = 0
    BY <1>1, <1>4 DEF StillToWait
  <1> QED  BY <1>1, <1>2, <1>3, <1>4

\* A peer heard of just now, or added with an age that fits, is in time.
LEMMA FreshInTime ==
  ASSUME HealthTypeOK, HandIsTaken, TimesFit, NEW d \in GivenAges \cup {0}
  PROVE  d + StillToWait <= Timeout
  <1>1. /\ StillToWait \in Nat /\ StillToWait <= Budget(Peers)
        /\ Budget(Peers) \in Nat /\ d \in Nat
    BY WaitFits, BudgetType, ClusterAssumption
  <1>2. d + Budget(Peers) <= Timeout
    BY DEF TimesFit
  <1> QED  BY <1>1, <1>2, ClusterAssumption

LEMMA HealthInit == Init => HealthInv
  <1>1. 0 \in 0 .. CallTime
    BY BudgetType
  <1> QED  BY <1>1, ClusterAssumption
     DEF Init, HealthInv, HealthTypeOK, HandIsTaken, AnsweringAreUp,
         CalledInTime, NoneOffline, InRound, Waiting, Nobody, IdleRelay,
         HandType, Statuses

-----------------------------------------------------------------------------
\* Steps that leave the round and the times alone.
LEMMA HealthIdle ==
  ASSUME HealthInv, UNCHANGED <<listed, since, loop>>,
         up' \subseteq Peers, Peers \ Faulty \subseteq up',
         status' \in [Peers -> Statuses],
         \A p \in listed \ Faulty : status'[p] = "offline" => status[p] = "offline",
         relay' \in [Relays -> [pc : {"idle", "rpc", "mark"}, hand : HandType]]
  PROVE  HealthInv'
  BY DEF HealthInv, HealthTypeOK, HandIsTaken, AnsweringAreUp, CalledInTime,
     NoneOffline, InRound, StillToWait, ToBeCalled

\* GoDown and ComeBack, Stop, and the steps of a relay.
LEMMA HealthOthers ==
  ASSUME HealthInv,
         \/ \E p \in Peers : GoDown(p) \/ ComeBack(p)
         \/ Stop
         \/ \E r \in Relays : (\E p \in Peers : RelayStart(r, p)) \/ RelayStep(r)
         \/ UNCHANGED vars
  PROVE  HealthInv'
  <1> USE DEF HealthInv, HealthTypeOK
  <1>1. UNCHANGED <<listed, since, loop>>
    BY DEF GoDown, ComeBack, Stop, RelayStart, RelayStep, RelayReturns,
       RelayFails, RelayMarks, vars
  <1>2. up' \subseteq Peers /\ Peers \ Faulty \subseteq up'
    BY DEF GoDown, ComeBack, Stop, RelayStart, RelayStep, RelayReturns,
       RelayFails, RelayMarks, vars, AnsweringAreUp
  <1>3. /\ status' \in [Peers -> Statuses]
        /\ \A p \in listed \ Faulty :
              status'[p] = "offline" => status[p] = "offline"
    BY DEF GoDown, ComeBack, Stop, RelayStart, RelayStep, RelayReturns,
       RelayFails, RelayMarks, vars, SetStatus, Statuses
  <1>4. relay' \in [Relays -> [pc : {"idle", "rpc", "mark"}, hand : HandType]]
    <2> DEFINE RelayType == [pc : {"idle", "rpc", "mark"}, hand : HandType]
    <2>0. IdleRelay \in RelayType
      BY DEF IdleRelay, Nobody, HandType
    <2>1. CASE UNCHANGED relay
      BY <2>1
    <2>2. ASSUME NEW r \in Relays, NEW p \in Peers, RelayStart(r, p)
          PROVE  relay' \in [Relays -> RelayType]
      BY <2>2 DEF RelayStart, Hand, HandType
    <2>3. ASSUME NEW r \in Relays, RelayReturns(r) \/ RelayMarks(r)
          PROVE  relay' \in [Relays -> RelayType]
      BY <2>0, <2>3 DEF RelayReturns, RelayMarks
    <2>4. ASSUME NEW r \in Relays, RelayFails(r)
          PROVE  relay' \in [Relays -> RelayType]
      <3>1. [pc |-> "mark", hand |-> relay[r].hand] \in RelayType
        OBVIOUS
      <3> QED  BY <2>0, <2>4, <3>1 DEF RelayFails
    <2> QED  BY <2>1, <2>2, <2>3, <2>4
             DEF GoDown, ComeBack, Stop, RelayStep, vars
  <1> QED  BY <1>1, <1>2, <1>3, <1>4, HealthIdle

\* AddPeer gives the peer the caller's age, RemovePeer takes it off the list.
LEMMA HealthMembership ==
  ASSUME HealthInv, NEW q \in Peers, AddPeer(q) \/ RemovePeer(q)
  PROVE  HealthInv'
  <1> USE ClusterAssumption DEF HealthInv
  <1>1. PICK d \in GivenAges \cup {0}, s \in GivenStatuses \cup {"online"} :
           /\ UNCHANGED up
           /\ listed' \in {listed \cup {q}, listed \ {q}}
           /\ status' = [status EXCEPT ![q] = s]
           /\ since' = [since EXCEPT ![q] = d]
           /\ Detach(q)
    <2>1. CASE AddPeer(q)
      BY <2>1 DEF AddPeer
    <2>2. CASE RemovePeer(q)
      BY <2>2 DEF RemovePeer
    <2> QED  BY <2>1, <2>2
  <1>2. /\ loop' \in [pc : {"wait", "beat", "rpc", "ended"}, todo : SUBSET Peers,
                      hand : HandType, left : 0 .. CallTime]
        /\ loop'.pc = loop.pc /\ loop'.todo = loop.todo /\ loop'.left = loop.left
        /\ loop'.hand.peer = loop.hand.peer
        /\ loop.hand.peer # q => loop'.hand = loop.hand
    BY <1>1 DEF Detach, HealthTypeOK, HandType
  <1>3. relay' \in [Relays -> [pc : {"idle", "rpc", "mark"}, hand : HandType]]
    <2> SUFFICES ASSUME NEW r \in Relays
                 PROVE  relay'[r] \in [pc : {"idle", "rpc", "mark"}, hand : HandType]
      BY <1>1 DEF Detach
    <2>1. relay[r] \in [pc : {"idle", "rpc", "mark"}, hand : HandType]
      BY DEF HealthTypeOK
    <2>2. relay'[r] \in {relay[r], [relay[r] EXCEPT !.hand.old = TRUE]}
      BY <1>1 DEF Detach
    <2>3. [relay[r] EXCEPT !.hand.old = TRUE]
              \in [pc : {"idle", "rpc", "mark"}, hand : HandType]
      BY <2>1 DEF HandType
    <2> QED  BY <2>1, <2>2, <2>3
  <1>4. HealthTypeOK'
    <2>1. d \in Nat /\ s \in Statuses
      BY DEF Statuses
    <2> QED  BY <1>1, <1>2, <1>3, <2>1 DEF HealthTypeOK
  <1>5. HandIsTaken' /\ AnsweringAreUp'
    BY <1>1, <1>2 DEF HandIsTaken, AnsweringAreUp
  <1>6. StillToWait' = StillToWait
    BY <1>2 DEF StillToWait
  <1>7. CalledInTime'
    <2> SUFFICES ASSUME TimesFit, InRound', NEW p \in listed' \ Faulty
                 PROVE  ToBeCalled(p)' \/ since'[p] + StillToWait' <= Timeout
      BY DEF CalledInTime, TimesFit
    <2>1. CASE p = q
      <3>1. since'[p] = d
        BY <1>1, <2>1 DEF HealthTypeOK
      <3> QED  BY <1>6, <3>1, FreshInTime
    <2>2. CASE p # q
      BY <1>1, <1>2, <1>6, <2>2 DEF CalledInTime, InRound, ToBeCalled, Hand,
         HealthTypeOK
    <2> QED  BY <2>1, <2>2
  <1>8. NoneOffline'
    BY <1>1 DEF NoneOffline, HealthTypeOK, TimesFit
  <1> QED  BY <1>4, <1>5, <1>7, <1>8

\* Time that passes in a round is taken from what the round may still take.
LEMMA HealthPassTime ==
  ASSUME HealthInv, PassTime
  PROVE  HealthInv'
  <1> USE ClusterAssumption DEF HealthInv
  <1>1. /\ UNCHANGED <<up, listed, status, relay>>
        /\ since' \in [Peers -> Nat]
        /\ \A p \in Peers : since'[p] <= since[p] + 1
    BY DEF PassTime, HealthTypeOK
  <1>2. CASE loop.pc \in {"beat", "rpc"}
    <2>1. loop.left \in 1 .. CallTime
      BY <1>2 DEF PassTime, HealthTypeOK
    <2>2. /\ loop' = [loop EXCEPT !.left = @ - 1]
          /\ loop'.pc = loop.pc /\ loop'.todo = loop.todo
          /\ loop'.hand = loop.hand /\ loop'.left = loop.left - 1
      BY <1>2 DEF PassTime, HealthTypeOK
    <2>3. StillToWait' = StillToWait - 1 /\ StillToWait \in Nat
      <3>1. Budget(loop.todo) \in Nat
        BY BudgetType DEF HealthTypeOK
      <3> QED  BY <3>1, <2>1, <2>2, WaitFits DEF StillToWait
    <2>4. HealthTypeOK'
      <3>1. loop.left - 1 \in 0 .. CallTime
        BY <2>1, BudgetType
      <3> QED  BY <1>1, <2>2, <3>1 DEF HealthTypeOK
    <2>5. HandIsTaken'
      BY <1>2, <2>1, <2>2 DEF HandIsTaken
    <2>6. AnsweringAreUp' /\ NoneOffline'
      BY <1>1 DEF AnsweringAreUp, NoneOffline, TimesFit
    <2>7. CalledInTime'
      BY <1>1, <1>2, <2>2, <2>3 DEF CalledInTime, InRound, ToBeCalled,
         HealthTypeOK, TimesFit
    <2> QED  BY <2>4, <2>5, <2>6, <2>7
  <1>3. CASE loop.pc \notin {"beat", "rpc"}
    <2>1. loop' = loop /\ loop.pc = "wait"
      BY <1>3 DEF PassTime
    <2> QED  BY <1>1, <2>1 DEF HealthTypeOK, HandIsTaken, AnsweringAreUp,
                NoneOffline, CalledInTime, InRound, TimesFit
  <1> QED  BY <1>2, <1>3

\* The Range comes to a peer: its share moves from the budget of the list to
\* the call in hand.
LEMMA HealthHeartbeat ==
  ASSUME HealthInv, NEW q \in Peers, Heartbeat(q)
  PROVE  HealthInv'
  <1> USE ClusterAssumption DEF HealthInv
  <1>1. /\ loop.pc = "beat" /\ q \in loop.todo
        /\ UNCHANGED <<up, listed, status, since, relay>>
    BY DEF Heartbeat
  <1>2. /\ loop'.todo = loop.todo \ {q}
        /\ \/ loop'.pc = "rpc" /\ loop'.hand = Hand(q) /\ loop'.left = CallTime
           \/ /\ loop'.pc = "beat" /\ loop'.left = loop.left
              /\ q \notin listed \/ status[q] = "offline"
    BY <1>1 DEF Heartbeat, CallTime, HealthTypeOK
  <1>3. HealthTypeOK'
    <2>1. loop' \in [pc : {"wait", "beat", "rpc", "ended"}, todo : SUBSET Peers,
                     hand : HandType, left : 0 .. CallTime]
      <3>1. Hand(q) \in HandType /\ CallTime \in 0 .. CallTime
        BY BudgetType DEF Hand, HandType
      <3> QED  BY <3>1 DEF Heartbeat, CallTime, HealthTypeOK
    <2> QED  BY <1>1, <2>1 DEF HealthTypeOK
  <1>4. HandIsTaken'
    BY <1>1, <1>2 DEF HandIsTaken, Hand, HealthTypeOK
  <1>5. AnsweringAreUp' /\ NoneOffline'
    BY <1>1 DEF AnsweringAreUp, NoneOffline, TimesFit
  <1>6. StillToWait' <= StillToWait /\ StillToWait' \in Nat /\ StillToWait \in Nat
    <2>1. Budget(loop.todo) = Budget(loop.todo \ {q}) + CallTime
      BY <1>1, BudgetRemove DEF HealthTypeOK
    <2>2. /\ Budget(loop.todo \ {q}) \in Nat /\ CallTime \in Nat
          /\ loop.left \in Nat
      BY BudgetType DEF HealthTypeOK
    <2> QED  BY <1>2, <2>1, <2>2 DEF StillToWait
  <1>7. CalledInTime'
    <2> SUFFICES ASSUME TimesFit, InRound', NEW p \in listed \ Faulty,
                        ~ToBeCalled(p)'
                 PROVE  since[p] + StillToWait' <= Timeout
      BY <1>1 DEF CalledInTime, TimesFit
    <2>1. p # q
      BY <1>1, <1>2 DEF ToBeCalled, NoneOffline
    <2>2. p \notin loop.todo
      BY <1>2, <2>1 DEF ToBeCalled
    <2>3. since[p] + StillToWait <= Timeout
      BY <1>1, <2>2 DEF CalledInTime, InRound, ToBeCalled
    <2>4. since[p] \in Nat
      BY DEF HealthTypeOK
    <2> QED  BY <1>6, <2>3, <2>4
  <1> QED  BY <1>3, <1>4, <1>5, <1>7

\* The call returns: an answer starts the peer's time anew, a failure costs
\* no more than its share.
LEMMA HealthReturn ==
  ASSUME HealthInv, HeartbeatOk \/ HeartbeatFails
  PROVE  HealthInv'
  <1> USE ClusterAssumption DEF HealthInv
  <1>1. /\ loop.pc = "rpc" /\ loop.hand.peer \in Peers
        /\ UNCHANGED <<up, listed, relay>>
        /\ loop' = Returned
    BY DEF HeartbeatOk, HeartbeatFails, HandIsTaken
  <1>2. /\ loop'.pc = "beat" /\ loop'.todo = loop.todo /\ loop'.hand = Nobody
        /\ loop'.left \in 0 .. CallTime /\ loop'.left <= loop.left
        /\ loop' \in [pc : {"wait", "beat", "rpc", "ended"}, todo : SUBSET Peers,
                      hand : HandType, left : 0 .. CallTime]
    <2>1. /\ loop \in [pc : {"wait", "beat", "rpc", "ended"}, todo : SUBSET Peers,
                       hand : HandType, left : 0 .. CallTime]
          /\ Nobody \in HandType
      BY DEF HealthTypeOK, Nobody, HandType
    <2>2. PICK l : /\ loop' = [loop EXCEPT !.pc = "beat", !.hand = Nobody, !.left = l]
                   /\ l = IF loop.left > Slack THEN Slack ELSE loop.left
      BY <1>1 DEF Returned
    <2>3. l \in 0 .. CallTime /\ l <= loop.left
      BY <2>1, <2>2 DEF CallTime
    <2> QED  BY <2>1, <2>2, <2>3
  <1>3. /\ status' \in [Peers -> Statuses]
        /\ \A p \in listed \ Faulty :
              status'[p] = "offline" => status[p] = "offline"
    BY <1>1 DEF HeartbeatOk, HeartbeatFails, SetStatus, HealthTypeOK, Statuses
  <1>4. /\ since' \in [Peers -> Nat]
        /\ \A p \in listed \ Faulty : \/ since'[p] = since[p] /\ loop.hand # Hand(p)
                                      \/ since'[p] = 0
    BY <1>1 DEF HeartbeatOk, HeartbeatFails, HealthTypeOK, HandType, Hand,
       AnsweringAreUp
  <1>5. HealthTypeOK'
    BY <1>1, <1>2, <1>3, <1>4 DEF HealthTypeOK
  <1>6. HandIsTaken'
    BY <1>1, <1>2 DEF HandIsTaken, HealthTypeOK
  <1>7. AnsweringAreUp' /\ NoneOffline'
    BY <1>1, <1>3 DEF AnsweringAreUp, NoneOffline, TimesFit
  <1>8. StillToWait' <= StillToWait /\ StillToWait' \in Nat /\ StillToWait \in Nat
    <2>1. Budget(loop.todo) \in Nat
      BY BudgetType DEF HealthTypeOK
    <2> QED  BY <1>2, <2>1, WaitFits DEF StillToWait, HealthTypeOK
  <1>9. CalledInTime'
    <2> SUFFICES ASSUME TimesFit, NEW p \in listed \ Faulty, ~ToBeCalled(p)'
                 PROVE  since'[p] + StillToWait' <= Timeout
      BY <1>1 DEF CalledInTime, TimesFit
    <2>1. since[p] \in Nat /\ since'[p] \in Nat
      BY <1>4 DEF HealthTypeOK
    <2>2. CASE since'[p] = 0
      <3>1. 0 + StillToWait <= Timeout
        BY FreshInTime
      <3> QED  BY <1>8, <2>2, <3>1
    <2>3. CASE since'[p] = since[p] /\ loop.hand # Hand(p)
      <3>1. since[p] + StillToWait <= Timeout
        BY <1>1, <1>2, <2>3 DEF CalledInTime, InRound, ToBeCalled
      <3> QED  BY <1>8, <2>1, <2>3, <3>1
    <2> QED  BY <1>4, <2>2, <2>3
  <1> QED  BY <1>5, <1>6, <1>7, <1>9

\* At the end of the round every answering peer has answered in time.
LEMMA HealthCheck ==
  ASSUME HealthInv, CheckPeerHealth
  PROVE  HealthInv'
  <1> USE ClusterAssumption DEF HealthInv
  <1>1. /\ loop.pc = "beat" /\ loop.todo = {} /\ loop' = Waiting
        /\ status' = [p \in Peers |-> IF p \in listed THEN Judged(p) ELSE status[p]]
        /\ UNCHANGED <<up, listed, since, relay>>
    BY DEF CheckPeerHealth
  <1>2. HealthTypeOK' /\ HandIsTaken' /\ AnsweringAreUp' /\ CalledInTime'
    <2>1. 0 \in 0 .. CallTime
      BY BudgetType
    <2> QED  BY <1>1, <2>1 DEF HealthTypeOK, HandIsTaken, AnsweringAreUp,
                CalledInTime, InRound, Waiting, Nobody, HandType, Judged, Statuses
  <1>3. NoneOffline'
    <2> SUFFICES ASSUME TimesFit, NEW p \in listed \ Faulty
                 PROVE  status'[p] # "offline"
      BY <1>1 DEF NoneOffline, TimesFit
    <2>1. since[p] + StillToWait <= Timeout
      BY <1>1 DEF CalledInTime, InRound, ToBeCalled
    <2>2. since[p] \in Nat /\ StillToWait \in Nat
      BY WaitFits DEF HealthTypeOK
    <2>3. since[p] <= Timeout
      BY <2>1, <2>2
    <2> QED  BY <1>1, <2>3 DEF Judged, NoneOffline, HealthTypeOK
  <1> QED  BY <1>2, <1>3

LEMMA HealthNext == HealthInv /\ [Next]_vars => HealthInv'
  <1> SUFFICES ASSUME HealthInv, [Next]_vars PROVE HealthInv'
    OBVIOUS
  <1>1. CASE LoopStops \/ LoopTicks
    <2> USE DEF HealthInv
    <2>1. /\ UNCHANGED <<up, listed, status, since, relay>>
          /\ loop.pc = "wait" /\ loop.left = 0 /\ loop'.left = 0
          /\ \/ loop'.pc = "ended"
             \/ loop'.pc = "beat" /\ loop'.todo = listed
      BY <1>1 DEF LoopStops, LoopTicks, HandIsTaken, HealthTypeOK
    <2>2. HealthTypeOK'
      BY <1>1, <2>1 DEF LoopStops, LoopTicks, HealthTypeOK
    <2>3. HandIsTaken' /\ AnsweringAreUp'
      BY <2>1 DEF HandIsTaken, AnsweringAreUp
    <2>4. CalledInTime' /\ NoneOffline'
      BY <2>1 DEF CalledInTime, NoneOffline, InRound, ToBeCalled, TimesFit
    <2> QED  BY <2>2, <2>3, <2>4
  <1>2. CASE LoopStep
    BY <1>1, <1>2, HealthReturn, HealthCheck, HealthHeartbeat DEF LoopStep
  <1> QED  BY <1>2, HealthOthers, HealthMembership, HealthPassTime DEF Next

\* A peer that answers within its deadline is never taken for offline: where
\* the deadlines of all peers, overrun included, fit into the timeout, no slow
\* or silent peer, no order of the Range, no relay and no AddPeer or RemovePeer
\* in the middle of a round makes checkPeerHealth condemn it (cluster.go,
\* sendHeartbeats and checkPeerHealth).
THEOREM AnsweringPeersStayCorrect == Spec => []AnsweringPeersStay
  <1>1. HealthInv => AnsweringPeersStay
    BY DEF HealthInv, NoneOffline, TimesFit, Budget, CallTime, RoundTime,
       AnsweringPeersStay
  <1> QED  BY <1>1, HealthInit, HealthNext, PTL DEF Spec
=============================================================================
