------------------------------ MODULE Breaker ------------------------------
(***************************************************************************)
(* What a circuit breaker promises, without ring buffer and generation      *)
(* counter.  Time is divided into phases, closed, open and half-open.  A    *)
(* phase remembers the outcomes reported in it (the last WindowSize of      *)
(* them when closed) and the calls it admitted, made with Execute or after  *)
(* Allow; the result of a call counts in the phase that admitted it and in  *)
(* no other, so a half-open phase is decided by its own trials alone        *)
(* (circuitbreaker.go:16-17, 66-68, 99-101).                                *)
(***************************************************************************)
EXTENDS Integers, Sequences, FiniteSets

CONSTANTS
  Callers,
  WindowSize,     \* Config.SlidingWindowSize
  MinRequests,    \* Config.MinRequests
  MaxRequests,    \* Config.MaxRequests
  Num, Den        \* Config.FailureThreshold is Num / Den

VARIABLES
  phase,     \* "closed", "open" or "half"
  recent,    \* the outcomes reported in this phase, TRUE for a success
  inUse,     \* trial slots taken in a half-open phase
  ready,     \* the recovery timeout of an open phase has passed
  admitted   \* the callers this phase admitted and whose result it awaits

vars == <<phase, recent, inUse, ready, admitted>>

\* A new phase begins with nothing.
Enter(p) ==
  /\ phase' = p /\ recent' = <<>> /\ inUse' = 0 /\ ready' = FALSE /\ admitted' = {}

Init ==
  /\ phase = "closed" /\ recent = <<>> /\ inUse = 0 /\ ready = FALSE
  /\ admitted = {}

LastN(s) == IF Len(s) > WindowSize THEN Tail(s) ELSE s

TooManyFailures(s) ==
  /\ Len(s) >= MinRequests
  /\ Cardinality({i \in DOMAIN s : ~s[i]}) * Den >= Num * Len(s)

\* A request is let through, by a new half-open phase if it is time.
Admit(c) ==
  \/ /\ phase = "closed"
     /\ admitted' = admitted \cup {c} /\ UNCHANGED <<phase, recent, inUse, ready>>
  \/ /\ phase = "half" /\ inUse < MaxRequests
     /\ admitted' = admitted \cup {c} /\ inUse' = inUse + 1
     /\ UNCHANGED <<phase, recent, ready>>
  \/ /\ phase = "open" /\ ready
     /\ phase' = "half" /\ recent' = <<>> /\ ready' = FALSE
     /\ admitted' = {c} /\ inUse' = 1

\* The result of a call of this phase is reported.
Finish(c, ok) ==
  /\ c \in admitted
  /\ \/ /\ phase = "closed"
        /\ LET s == LastN(Append(recent, ok)) IN
           IF ~ok /\ TooManyFailures(s) THEN Enter("open")
           ELSE /\ recent' = s /\ admitted' = admitted \ {c}
                /\ UNCHANGED <<phase, inUse, ready>>
     \/ /\ phase = "half"
        /\ IF ~ok THEN Enter("open")
           ELSE IF Len(recent) + 1 >= MaxRequests THEN Enter("closed")
           ELSE /\ recent' = Append(recent, ok) /\ inUse' = inUse - 1
                /\ admitted' = admitted \ {c} /\ UNCHANGED <<phase, ready>>

\* The operation panics: its result never comes and its slot is not returned.
Abandon(c) ==
  /\ c \in admitted
  /\ admitted' = admitted \ {c} /\ UNCHANGED <<phase, recent, inUse, ready>>

Elapse ==
  /\ phase = "open"
  /\ ready' = TRUE /\ UNCHANGED <<phase, recent, inUse, admitted>>

Recover == phase = "open" /\ ready /\ Enter("half")

Reset == Enter("closed")

Next ==
  \/ \E c \in Callers : Admit(c) \/ Abandon(c)
  \/ \E c \in Callers, ok \in BOOLEAN : Finish(c, ok)
  \/ Elapse \/ Recover \/ Reset

Spec == Init /\ [][Next]_vars
=============================================================================
