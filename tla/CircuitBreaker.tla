--------------------------- MODULE CircuitBreaker ---------------------------
(***************************************************************************)
(* pkg/common/circuitbreaker: the three states, the ring buffer of          *)
(* outcomes, the generation counter that makes results of an earlier state  *)
(* stale, and the two ways to use it: Execute, which brackets an operation, *)
(* and Allow with MarkSuccess or MarkFailed, which has no generation.       *)
(*                                                                         *)
(* Every method runs under cb.mu, so a step is a method.  The operation of  *)
(* an Execute takes place between two steps; if it panics, afterRequest is  *)
(* not called.                                                              *)
(***************************************************************************)
EXTENDS Integers, Sequences, FiniteSets

CONSTANTS
  Callers,
  WindowSize, MinRequests, MaxRequests,
  Num, Den,         \* FailureThreshold = Num / Den
  MaxGeneration     \* bound on the state changes

ASSUME BreakerAssumption ==
  /\ {WindowSize, MinRequests, MaxRequests, Num, Den} \subseteq Nat \ {0}
  /\ Num <= Den
  /\ MaxGeneration \in Nat

VARIABLES
  state,              \* CircuitBreaker.state
  generation,
  expired,            \* time.Now() has reached expiry
  window, windowPos, windowLen,
  halfOpenRequests, halfOpenSuccesses,
  call,               \* per caller: what it is in, and the generation it got
  leaked              \* history: trials of this half-open state whose operation panicked

ring == <<window, windowPos, windowLen>>
vars == <<state, generation, expired, ring, halfOpenRequests, halfOpenSuccesses,
          call, leaked>>

Idle == [pc |-> "idle", gen |-> 0]

TypeOK ==
  /\ state \in {"closed", "open", "half"}
  /\ generation \in 0..MaxGeneration
  /\ expired \in BOOLEAN
  /\ window \in [0..WindowSize - 1 -> BOOLEAN]
  /\ windowPos \in 0..WindowSize - 1 /\ windowLen \in 0..WindowSize
  /\ halfOpenRequests \in Int /\ halfOpenSuccesses \in 0..MaxRequests
  /\ call \in [Callers -> [pc : {"idle", "execute", "allowed"}, gen : 0..MaxGeneration]]
  /\ leaked \in Nat

Init ==
  /\ state = "closed" /\ generation = 0 /\ expired = FALSE
  /\ window = [i \in 0..WindowSize - 1 |-> FALSE]
  /\ windowPos = 0 /\ windowLen = 0
  /\ halfOpenRequests = 0 /\ halfOpenSuccesses = 0
  /\ call = [c \in Callers |-> Idle]
  /\ leaked = 0

\* Slip: the trials of the state that ends are still counted in the new one
NewCountersKept(to, trials) ==
  /\ state' = to
  /\ generation' = generation + 1
  /\ expired' = FALSE
  /\ halfOpenRequests' = halfOpenRequests + trials /\ halfOpenSuccesses' = 0
  /\ leaked' = 0

\* newState without the window; trials is 1 when the request that changes the
\* state is admitted by it.
NewCounters(to, trials) ==
  /\ state' = to
  /\ generation' = generation + 1
  /\ expired' = FALSE
  /\ halfOpenRequests' = trials /\ halfOpenSuccesses' = 0
  /\ leaked' = 0

\* newState: the window is cleared when the breaker closes.
NewState(to, trials) ==
  /\ NewCounters(to, trials)
  /\ IF to = "closed"
     THEN /\ window' = [i \in DOMAIN window |-> FALSE]
          /\ windowPos' = 0 /\ windowLen' = 0
     ELSE UNCHANGED ring

\* The state after checkRecovery.
Recovered == IF state = "open" /\ expired THEN "half" ELSE state

\* State and Metrics only look, but a passed timeout makes them change state.
CheckRecovery ==
  /\ Recovered # state
  /\ NewState("half", 0)
  /\ UNCHANGED call

\* beforeRequest, for Execute (pc "execute") and Allow (pc "allowed").  A
\* refused request changes nothing but the recovery.
BeforeRequest(c, pc) ==
  /\ call[c].pc = "idle"
  /\ \/ /\ Recovered = "closed"
        /\ call' = [call EXCEPT ![c] = [pc |-> pc, gen |-> generation]]
        /\ UNCHANGED <<state, generation, expired, ring, halfOpenRequests,
                       halfOpenSuccesses, leaked>>
     \/ /\ Recovered = "half" /\ state = "open"
        /\ NewState("half", 1)
        /\ call' = [call EXCEPT ![c] = [pc |-> pc, gen |-> generation + 1]]
     \/ /\ state = "half" /\ halfOpenRequests < MaxRequests
        /\ halfOpenRequests' = halfOpenRequests + 1
        /\ call' = [call EXCEPT ![c] = [pc |-> pc, gen |-> generation]]
        /\ UNCHANGED <<state, generation, expired, ring, halfOpenSuccesses, leaked>>

\* recordOutcome
RecordOutcome(ok) ==
  /\ window' = [window EXCEPT ![windowPos] = ok]
  /\ windowPos' = (windowPos + 1) % WindowSize
  /\ windowLen' = IF windowLen < WindowSize THEN windowLen + 1 ELSE windowLen

\* shouldTrip, on the ring recordOutcome left.
ShouldTrip ==
  /\ windowLen' >= MinRequests
  /\ Cardinality({i \in 0..windowLen' - 1 : ~window'[i]}) * Den >= Num * windowLen'

\* The part afterRequest and recordOutcomeAllow share.
Report(ok) ==
  \/ /\ state = "closed"
     /\ RecordOutcome(ok)
     /\ IF ~ok /\ ShouldTrip THEN NewCounters("open", 0)
        ELSE UNCHANGED <<state, generation, expired, halfOpenRequests,
                         halfOpenSuccesses, leaked>>
  \/ /\ state = "half" /\ ok
     /\ IF halfOpenSuccesses + 1 >= MaxRequests THEN NewState("closed", 0)
        ELSE /\ halfOpenSuccesses' = halfOpenSuccesses + 1
             /\ halfOpenRequests' = halfOpenRequests - 1
             /\ UNCHANGED <<state, generation, expired, ring, leaked>>
  \/ state = "half" /\ ~ok /\ NewState("open", 0)
  \/ /\ state = "open"
     /\ halfOpenRequests' = halfOpenRequests - 1
     /\ UNCHANGED <<state, generation, expired, ring, halfOpenSuccesses, leaked>>

\* Slip: afterRequest does not compare the generations
AfterRequestStale(c, ok) ==
  /\ call[c].pc = "execute"
  /\ call' = [call EXCEPT ![c] = Idle]
  /\ Report(ok)

\* afterRequest: a result of an earlier generation is ignored.
AfterRequest(c, ok) ==
  /\ call[c].pc = "execute"
  /\ call' = [call EXCEPT ![c] = Idle]
  /\ IF call[c].gen = generation THEN Report(ok)
     ELSE UNCHANGED <<state, generation, expired, ring, halfOpenRequests,
                      halfOpenSuccesses, leaked>>

\* The operation panics and Execute is left without afterRequest.
OpPanics(c) ==
  /\ call[c].pc = "execute"
  /\ call' = [call EXCEPT ![c] = Idle]
  /\ leaked' = IF state = "half" /\ call[c].gen = generation THEN leaked + 1 ELSE leaked
  /\ UNCHANGED <<state, generation, expired, ring, halfOpenRequests, halfOpenSuccesses>>

\* MarkSuccess and MarkFailed: recordOutcomeAllow, in whatever state it finds.
Mark(c, ok) ==
  /\ call[c].pc = "allowed"
  /\ call' = [call EXCEPT ![c] = Idle]
  /\ Report(ok)

Reset ==
  /\ NewState("closed", 0)
  /\ UNCHANGED call

\* RecoveryTimeout passes.
Elapse ==
  /\ state = "open" /\ ~expired
  /\ expired' = TRUE
  /\ UNCHANGED <<state, generation, ring, halfOpenRequests, halfOpenSuccesses,
                 call, leaked>>

CallReturns(c) ==
  \E ok \in BOOLEAN : AfterRequest(c, ok) \/ Mark(c, ok)

Next ==
  /\ generation < MaxGeneration
  /\ \/ \E c \in Callers :
          \/ \E pc \in {"execute", "allowed"} : BeforeRequest(c, pc)
          \/ CallReturns(c)
          \/ OpPanics(c)
     \/ CheckRecovery \/ Reset \/ Elapse

\* Requests keep coming, operations return and callers of Allow report.
Fairness ==
  \A c \in Callers :
    /\ WF_vars(generation < MaxGeneration /\ \E pc \in {"execute", "allowed"} : BeforeRequest(c, pc))
    /\ WF_vars(generation < MaxGeneration /\ CallReturns(c))

Spec == Init /\ [][Next]_vars /\ Fairness

-----------------------------------------------------------------------------
(* Properties                                                              *)

\* The outcomes in the ring, oldest first.
RingContents ==
  [i \in 1..windowLen |-> window[(windowPos + WindowSize - windowLen + i - 1) % WindowSize]]

\* The outcomes the present state has seen, the trial slots in use and the
\* calls it admitted.
Recent ==
  CASE state = "closed" -> RingContents
    [] state = "half" -> [i \in 1..halfOpenSuccesses |-> TRUE]
    [] state = "open" -> <<>>
InUse == IF state = "half" THEN halfOpenRequests ELSE 0
Admitted == {c \in Callers : call[c].pc # "idle" /\ call[c].gen = generation}

Promise == INSTANCE Breaker WITH
  phase <- state, recent <- Recent, inUse <- InUse, ready <- expired,
  admitted <- Admitted

\* A caller of Allow reports after the state that let it pass has ended.
LateReport ==
  \E c \in Callers, ok \in BOOLEAN : call[c].gen # generation /\ Mark(c, ok)

\* The breaker keeps the promise of module Breaker, except that Allow does not
\* date its calls and a late MarkSuccess or MarkFailed counts where it should
\* not (circuitbreaker.go:449-470): such a report can close a half-open
\* breaker that tried nothing.  In all other steps the ring buffer is the
\* last outcomes since it closed, the generation tells the calls of the
\* present state from the late ones, it opens exactly when the failures in
\* the window reach the threshold, and it closes only with the last of
\* MaxRequests successes, on the result of a trial it admitted.
KeepsPromise == Promise!Init /\ [][Promise!Next \/ LateReport]_(Promise!vars)

\* A half-open breaker comes to a decision while requests keep coming, unless
\* a panic took a trial slot with it.
HalfOpenDecides ==
  (state = "half") ~> (state # "half" \/ leaked > 0 \/ generation = MaxGeneration)
=============================================================================
