------------------------- MODULE AgentSessionProofs -------------------------
(***************************************************************************)
(* A voice session, for any number of restarts and frames, any queue and   *)
(* any thresholds of the turn manager.                                     *)
(*                                                                         *)
(* Any number of callers, however their calls overlap: the goroutines stay *)
(* under the control of Stop (Reachable), a busy session has a goroutine   *)
(* in a turn (BusyMeansTurnCorrect), and no frame is recognised twice      *)
(* (HeardOnceCorrect).  Channels, counters and playbacks stay within their *)
(* limits (TypeCorrect).                                                   *)
(*                                                                         *)
(* One caller, whose calls follow each other: Stop and Destroy leave       *)
(* nothing running (StopStopsCorrect, DestroyReleasesCorrect), the client  *)
(* is told the state (ClientInformedCorrect), the barge-in is never raised *)
(* (BargeInNeverRaisedCorrect), and the frames are recognised in order     *)
(* (PipelineInOrderCorrect).  The theorems say so with the hypothesis      *)
(* SingleCaller; with two callers TLC refutes the first of them.           *)
(*                                                                         *)
(* The turn manager alone, observed from outside: its events stand at      *)
(* endpoints of the detector's stream (EventsCorrect).                     *)
(*                                                                         *)
(* LiveLoopIsReachable speaks of running goroutines and of the stored      *)
(* cancel function only.  It is not inductive: a goroutine is launched by  *)
(* StartLoop two steps after StartContext stored its cancel function, and  *)
(* in between another caller may stop, and start, the session.  ReachInv   *)
(* adds what holds in between: the context of a Start in progress is       *)
(* either cancelled or the stored one.                                     *)
(***************************************************************************)
EXTENDS AgentSession, TurnEndpoints, FiniteSetTheorems, TLAPS

Starting(c) == pc[c] \in {"started", "launch"}

ControlTypeOK ==
    /\ starts \in 0 .. MaxStarts
    /\ cancel \in 0 .. starts
    /\ pc \in [Callers -> CallerLabel]
    /\ own \in [Callers -> 0 .. starts]
    /\ lpc \in [Contexts -> LoopLabel]

StartIsReachable ==
    \A c \in Callers :
        Starting(c) => own[c] # NoCtx /\ (~Done(own[c]) => cancel = own[c])

ReachInv == ControlTypeOK /\ StartIsReachable /\ LiveLoopIsReachable

LEMMA ReachInit == Init => ReachInv
  BY BoundsAssumption DEF Init, CallerLabel, LoopLabel, ReachInv, ControlTypeOK, StartIsReachable,
     LiveLoopIsReachable, Starting, Running, NoCtx, Contexts, Done

controlVars == <<cancel, ctxDone, pc, own, starts>>

(* A step of goroutine l that is not its exit keeps it running and leaves  *)
(* the other goroutines where they are.                                    *)
LoopMoves(l) ==
    \E next \in LoopLabel : /\ lpc[l] \notin {"none", "exited"}
                         /\ lpc' = [lpc EXCEPT ![l] = next]

LEMMA LoopStepMoves ==
    ASSUME NEW l \in Contexts, LoopStep(l)
    PROVE  LoopMoves(l) /\ UNCHANGED controlVars
  <1> USE DEF LoopMoves, controlVars, LoopAt, LoopLabel
  <1>1. CASE LoopExit(l)
    BY <1>1 DEF LoopExit, callVars, envVars
  <1>2. CASE RecvFrame(l) \/ RecvSpeechEnd(l) \/ RecvBargeIn(l)
    BY <1>2 DEF RecvFrame, RecvSpeechEnd, RecvBargeIn, sessVars, callVars, envVars
  <1>3. CASE HandleFrame(l)
    BY <1>3 DEF HandleFrame, VadError, FrameWhileSpeaking, FrameWhileListening,
       AppendAudio, ProcessFrame, OnTurnEvent, sessVars, callVars, envVars
  <1>4. CASE HandleTurn(l)
    BY <1>4 DEF HandleTurn, DrainAudio, Think, AsrFails, AsrDone, LlmDone,
       PluginDone, LlmOrTtsFails, TtsDone, Listen, sessVars, callVars, envVars
  <1>5. CASE Speak(l)
    BY <1>5 DEF Speak, SpeakBegin, SendFrame, FrameTimer, SpeakReturns,
       PaceInterrupted, Spoken, sessVars, callVars, envVars
  <1> QED  BY <1>1, <1>2, <1>3, <1>4, <1>5 DEF LoopStep

LEMMA ReachLoopStep ==
    ASSUME ReachInv, NEW l \in Contexts, LoopStep(l)
    PROVE  ReachInv'
  <1>1. LoopMoves(l) /\ UNCHANGED controlVars
    BY LoopStepMoves
  <1> QED  BY <1>1 DEF LoopMoves, controlVars, ReachInv, ControlTypeOK,
              StartIsReachable, LiveLoopIsReachable, Starting, Running, Done

LEMMA ReachCallerStep ==
    ASSUME ReachInv, NEW c \in Callers, CallerStep(c)
    PROVE  ReachInv'
  <1> USE BoundsAssumption DEF ReachInv, ControlTypeOK, StartIsReachable,
      LiveLoopIsReachable, Starting, Running, NoCtx, Contexts, Done, CallerAt,
      CallerLabel, LoopLabel
  <1>1. CASE StartContext(c)
    <2>1. /\ pc[c] = "idle" /\ pc' = [pc EXCEPT ![c] = "started"]
          /\ cancel = 0 /\ starts < MaxStarts
          /\ starts' = starts + 1 /\ cancel' = starts + 1
          /\ own' = [own EXCEPT ![c] = starts + 1]
          /\ UNCHANGED <<lpc, ctxDone>>
      BY <1>1 DEF StartContext, loopVars
    <2>2. ControlTypeOK'
      BY <2>1
    <2>3. StartIsReachable'
      BY <2>1
    <2>4. LiveLoopIsReachable'
      BY <2>1
    <2> QED  BY <2>2, <2>3, <2>4
  <1>2. CASE StartListening(c)
    BY <1>2 DEF StartListening, loopVars, envVars
  <1>3. CASE StartLoop(c)
    <2>1. /\ pc[c] = "launch" /\ pc' = [pc EXCEPT ![c] = "idle"]
          /\ lpc' = [lpc EXCEPT ![own[c]] = "select"]
          /\ own' = [own EXCEPT ![c] = 0]
          /\ UNCHANGED <<starts, cancel, ctxDone>>
      BY <1>3 DEF StartLoop, envVars
    <2>2. ControlTypeOK' /\ StartIsReachable'
      BY <2>1
    <2>3. LiveLoopIsReachable'
      BY <2>1
    <2> QED  BY <2>2, <2>3
  <1>4. ASSUME NEW o \in {"Stop", "Destroy"}, StopCancel(c, o)
        PROVE  ReachInv'
    <2>1. /\ pc[c] = "idle" /\ pc' = [pc EXCEPT ![c] = "wait"]
          /\ ctxDone' = ctxDone \cup ({cancel} \ {0})
          /\ cancel' = 0
          /\ UNCHANGED <<starts, own, lpc>>
      BY <1>4 DEF StopCancel, loopVars, envVars
    <2>2. ControlTypeOK'
      BY <2>1
    <2>3. StartIsReachable'
      BY <2>1
    <2>4. LiveLoopIsReachable'
      BY <2>1
    <2> QED  BY <2>2, <2>3, <2>4
  <1>5. CASE StopWait(c)
    BY <1>5 DEF StopWait, sessVars, loopVars, envVars
  <1>6. CASE StopIdle(c)
    BY <1>6 DEF StopIdle, loopVars, envVars
  <1>7. CASE DestroyClose(c)
    BY <1>7 DEF DestroyClose, loopVars, envVars
  <1> QED  BY <1>1, <1>2, <1>3, <1>4, <1>5, <1>6, <1>7 DEF CallerStep

LEMMA ReachNext == ReachInv /\ [Next]_vars => ReachInv'
  <1> SUFFICES ASSUME ReachInv, [Next]_vars
               PROVE  ReachInv'
    OBVIOUS
  <1>1. CASE UNCHANGED <<controlVars, lpc>>
    BY <1>1 DEF controlVars, ReachInv, ControlTypeOK, StartIsReachable,
       LiveLoopIsReachable, Starting, Running, Done
  <1>2. ASSUME NEW t \in Threads, SendState(t)
        PROVE  ReachInv'
    BY <1>1, <1>2 DEF SendState, controlVars, sessVars, callVars, loopVars, envVars
  <1>3. CASE FeedAudio \/ TimePasses
    BY <1>1, <1>3 DEF FeedAudio, TimePasses, controlVars, sessVars, callVars,
       loopVars, envVars
  <1>4. CASE UNCHANGED vars
    BY <1>1, <1>4 DEF vars, controlVars, sessVars, callVars, loopVars, envVars
  <1> QED  BY <1>2, <1>3, <1>4, ReachCallerStep, ReachLoopStep DEF Next

(* A goroutine whose context is live is the one the next Stop cancels, so  *)
(* there is at most one, for every set of callers and every bound          *)
(* (session.go:206-213 and 238-241).                                       *)
THEOREM Reachable == Spec => []LiveLoopIsReachable
  <1>1. ReachInv => LiveLoopIsReachable
    BY DEF ReachInv
  <1> QED  BY <1>1, ReachInit, ReachNext, PTL DEF Spec

----------------------------------------------------------------------------
(* The wait group.  StartLoop raises the counter and makes a goroutine     *)
(* run, LoopExit undoes both.  That StartLoop adds a new member to the set *)
(* of running goroutines rests on CountInv: contexts are handed out once,  *)
(* and the one a Start in progress holds has no goroutine yet.             *)

RunningLoops == {l \in Contexts : Running(l)}

FreshContexts ==
    /\ \A l \in Contexts : lpc[l] # "none" => l <= starts
    /\ \A c \in Callers : Starting(c) => lpc[own[c]] = "none"
    /\ \A c, d \in Callers :
           Starting(c) /\ Starting(d) /\ own[c] = own[d] => c = d

(* The wait group counts the goroutines that have not returned.            *)
WaitGroupCountsLoops == wg = Cardinality({l \in Contexts : Running(l)})

CountInv == FreshContexts /\ WaitGroupCountsLoops

LEMMA RunningIsFinite ==
    IsFiniteSet(RunningLoops) /\ IsFiniteSet(RunningLoops')
  <1>1. IsFiniteSet(Contexts)
    BY FS_Interval, BoundsAssumption DEF Contexts
  <1> QED  BY <1>1, FS_Subset DEF RunningLoops

LEMMA CountInit == Init => CountInv
  <1> SUFFICES ASSUME Init PROVE CountInv
    OBVIOUS
  <1>1. RunningLoops = {}
    BY DEF Init, RunningLoops, Running
  <1>2. WaitGroupCountsLoops
    BY <1>1, FS_EmptySet DEF Init, WaitGroupCountsLoops, RunningLoops
  <1> QED  BY <1>2 DEF Init, CountInv, FreshContexts, Starting

(* A step that leaves the counter and the set of running goroutines alone. *)
LEMMA CountKept ==
    ASSUME WaitGroupCountsLoops, wg' = wg, RunningLoops' = RunningLoops
    PROVE  WaitGroupCountsLoops'
  BY DEF WaitGroupCountsLoops, RunningLoops

LEMMA CountCallerStep ==
    ASSUME ReachInv, CountInv, NEW c \in Callers, CallerStep(c)
    PROVE  CountInv'
  <1> USE BoundsAssumption DEF ReachInv, ControlTypeOK, CountInv, FreshContexts,
      Starting, NoCtx, Contexts, CallerAt, CallerLabel, LoopLabel
  <1>1. CASE StartContext(c)
    <2>1. /\ pc[c] = "idle" /\ pc' = [pc EXCEPT ![c] = "started"]
          /\ starts < MaxStarts /\ starts' = starts + 1
          /\ own' = [own EXCEPT ![c] = starts + 1]
          /\ UNCHANGED <<lpc, wg>>
      BY <1>1 DEF StartContext, loopVars
    <2>2. FreshContexts'
      <3>1. \A d \in Callers \ {c} : own'[d] = own[d] /\ own[d] <= starts
        BY <2>1
      <3>2. own'[c] = starts + 1 /\ lpc[starts + 1] = "none"
        BY <2>1
      <3> QED  BY <2>1, <3>1, <3>2
    <2>3. WaitGroupCountsLoops'
      BY <2>1, CountKept DEF RunningLoops, Running
    <2> QED  BY <2>2, <2>3
  <1>2. CASE StartListening(c)
    <2>1. /\ pc[c] = "started" /\ pc' = [pc EXCEPT ![c] = "launch"]
          /\ UNCHANGED <<own, starts, lpc, wg>>
      BY <1>2 DEF StartListening, loopVars, envVars
    <2> QED  BY <2>1, CountKept DEF RunningLoops, Running
  <1>3. CASE StartLoop(c)
    <2>1. /\ pc[c] = "launch" /\ pc' = [pc EXCEPT ![c] = "idle"]
          /\ wg' = wg + 1
          /\ lpc' = [lpc EXCEPT ![own[c]] = "select"]
          /\ own' = [own EXCEPT ![c] = 0]
          /\ UNCHANGED starts
      BY <1>3 DEF StartLoop, envVars
    <2>2. own[c] \in Contexts /\ own[c] <= starts /\ lpc[own[c]] = "none"
      BY <2>1 DEF StartIsReachable
    <2>3. FreshContexts'
      BY <2>1, <2>2
    <2>4. own[c] \notin RunningLoops /\ RunningLoops' = RunningLoops \cup {own[c]}
      BY <2>1, <2>2 DEF RunningLoops, Running
    <2>5. WaitGroupCountsLoops'
      BY <2>1, <2>4, RunningIsFinite, FS_AddElement, FS_CardinalityType
         DEF WaitGroupCountsLoops, RunningLoops
    <2> QED  BY <2>3, <2>5
  <1>4. CASE \/ \E o \in {"Stop", "Destroy"} : StopCancel(c, o)
             \/ StopWait(c) \/ StopIdle(c) \/ DestroyClose(c)
    <2>1. /\ ~Starting(c)' /\ \A d \in Callers \ {c} : pc'[d] = pc[d]
          /\ UNCHANGED <<own, starts, lpc, wg>>
      BY <1>4 DEF StopCancel, StopWait, StopIdle, DestroyClose, sessVars,
         loopVars, envVars
    <2> QED  BY <2>1, CountKept DEF RunningLoops, Running
  <1> QED  BY <1>1, <1>2, <1>3, <1>4 DEF CallerStep

(* Only its exit takes a goroutine out of the running ones.                *)
LEMMA LoopStaysRunning ==
    ASSUME NEW l \in Contexts, LoopStep(l), ~LoopExit(l)
    PROVE  /\ wg' = wg
           /\ \E next \in LoopLabel \ {"none", "exited"} :
                  lpc' = [lpc EXCEPT ![l] = next]
  <1> USE DEF LoopAt, LoopLabel
  <1>1. CASE RecvFrame(l) \/ RecvSpeechEnd(l) \/ RecvBargeIn(l)
    BY <1>1 DEF RecvFrame, RecvSpeechEnd, RecvBargeIn, sessVars
  <1>2. CASE HandleFrame(l)
    BY <1>2 DEF HandleFrame, VadError, FrameWhileSpeaking, FrameWhileListening,
       AppendAudio, ProcessFrame, OnTurnEvent, sessVars
  <1>3. CASE HandleTurn(l)
    BY <1>3 DEF HandleTurn, DrainAudio, Think, AsrFails, AsrDone, LlmDone,
       PluginDone, LlmOrTtsFails, TtsDone, Listen, sessVars
  <1>4. CASE Speak(l)
    BY <1>4 DEF Speak, SpeakBegin, SendFrame, FrameTimer, SpeakReturns,
       PaceInterrupted, Spoken, sessVars
  <1> QED  BY <1>1, <1>2, <1>3, <1>4 DEF LoopStep

LEMMA CountLoopStep ==
    ASSUME ReachInv, CountInv, NEW l \in Contexts, LoopStep(l)
    PROVE  CountInv'
  <1> USE DEF ReachInv, ControlTypeOK, CountInv
  <1>1. LoopMoves(l) /\ UNCHANGED controlVars
    BY LoopStepMoves
  <1>2. FreshContexts'
    BY <1>1 DEF LoopMoves, controlVars, FreshContexts, Starting
  <1>3. WaitGroupCountsLoops'
    <2>1. CASE LoopExit(l)
      <3>1. l \in RunningLoops /\ RunningLoops' = RunningLoops \ {l}
        BY <2>1 DEF LoopExit, LoopAt, RunningLoops, Running
      <3>2. Cardinality(RunningLoops \ {l}) = Cardinality(RunningLoops) - 1
        BY <3>1, RunningIsFinite, FS_RemoveElement
      <3>3. wg' = wg - 1
        BY <2>1 DEF LoopExit
      <3> QED  BY <3>1, <3>2, <3>3 DEF WaitGroupCountsLoops, RunningLoops
    <2>2. CASE ~LoopExit(l)
      <3>1. RunningLoops' = RunningLoops
        BY <1>1, <2>2, LoopStaysRunning DEF LoopMoves, RunningLoops, Running
      <3> QED  BY <2>2, <3>1, LoopStaysRunning, CountKept
    <2> QED  BY <2>1, <2>2
  <1> QED  BY <1>2, <1>3

LEMMA CountNext == ReachInv /\ CountInv /\ [Next]_vars => CountInv'
  <1> SUFFICES ASSUME ReachInv, CountInv, [Next]_vars
               PROVE  CountInv'
    OBVIOUS
  <1>1. CASE UNCHANGED <<wg, pc, own, starts, lpc>>
    BY <1>1, CountKept DEF CountInv, FreshContexts, Starting, RunningLoops, Running
  <1>2. ASSUME NEW t \in Threads, SendState(t)
        PROVE  CountInv'
    BY <1>1, <1>2 DEF SendState, sessVars, callVars, loopVars, envVars
  <1>3. CASE FeedAudio \/ TimePasses
    BY <1>1, <1>3 DEF FeedAudio, TimePasses, sessVars, callVars, loopVars, envVars
  <1>4. CASE UNCHANGED vars
    BY <1>1, <1>4 DEF vars, sessVars, callVars, loopVars, envVars
  <1> QED  BY <1>2, <1>3, <1>4, CountCallerStep, CountLoopStep DEF Next

(* Who sets Thinking or Speaking is in a turn from then on, and leaves it  *)
(* through Listen.  A goroutine that is in a turn is not overwritten by    *)
(* StartLoop: the context of a Start has none yet (FreshContexts).         *)
LEMMA TurnLoopMoves ==
    ASSUME NEW l \in Contexts, LoopStep(l), lpc \in [Contexts -> LoopLabel]
    PROVE  /\ \A k \in Contexts \ {l} : lpc'[k] = lpc[k]
           /\ \/ InTurn(l)'
              \/ state' = "Listening"
              \/ ~InTurn(l) /\ state' = state
  <1> USE DEF LoopAt, InTurn, sessVars
  <1>1. CASE LoopExit(l) \/ RecvFrame(l) \/ RecvSpeechEnd(l) \/ RecvBargeIn(l)
    BY <1>1 DEF LoopExit, RecvFrame, RecvSpeechEnd, RecvBargeIn
  <1>2. CASE HandleFrame(l)
    BY <1>2 DEF HandleFrame, VadError, FrameWhileSpeaking, FrameWhileListening,
       AppendAudio, ProcessFrame, OnTurnEvent
  <1>3. CASE Think(l) \/ (\E n \in 0 .. MaxReply : TtsDone(l, n)) \/ Listen(l)
    <2>1. \/ \E next \in {"asr", "speak"} : lpc' = [lpc EXCEPT ![l] = next]
          \/ state' = "Listening" /\ lpc' = [lpc EXCEPT ![l] = "select"]
      BY <1>3 DEF Think, TtsDone, Listen, SetState
    <2> QED  BY <2>1
  <1>4. CASE \/ DrainAudio(l) \/ AsrFails(l) \/ AsrDone(l) \/ LlmDone(l)
             \/ LlmOrTtsFails(l)
    BY <1>4 DEF DrainAudio, AsrFails, AsrDone, LlmDone, PluginDone,
       LlmOrTtsFails
  <1>5. CASE Speak(l)
    BY <1>5 DEF Speak, SpeakBegin, SendFrame, FrameTimer, SpeakReturns,
       PaceInterrupted, Spoken
  <1> QED  BY <1>1, <1>2, <1>3, <1>4, <1>5 DEF LoopStep, HandleTurn

LEMMA BusyLoopStep ==
    ASSUME ReachInv, BusyMeansTurn, NEW l \in Contexts, LoopStep(l)
    PROVE  BusyMeansTurn'
  <1>1. lpc \in [Contexts -> LoopLabel]
    BY DEF ReachInv, ControlTypeOK
  <1>2. CASE InTurn(l)' \/ state' = "Listening"
    BY <1>2 DEF BusyMeansTurn
  <1>3. CASE ~InTurn(l) /\ state' = state
    BY <1>1, <1>3, TurnLoopMoves DEF BusyMeansTurn, InTurn
  <1> QED  BY <1>1, <1>2, <1>3, TurnLoopMoves

LEMMA BusyCallerStep ==
    ASSUME ReachInv, CountInv, BusyMeansTurn, NEW c \in Callers, CallerStep(c)
    PROVE  BusyMeansTurn'
  <1> USE DEF BusyMeansTurn, InTurn, CallerAt, loopVars
  <1>1. CASE StartListening(c) \/ StopIdle(c)
    <2>1. state' \in {"Listening", "Idle"}
      BY <1>1 DEF StartListening, StopIdle, SetState
    <2> QED  BY <2>1
  <1>2. CASE StartLoop(c)
    <2>1. /\ pc[c] = "launch" /\ state' = state
          /\ lpc' = [lpc EXCEPT ![own[c]] = "select"]
      BY <1>2 DEF StartLoop
    <2>2. lpc[own[c]] = "none" /\ lpc \in [Contexts -> LoopLabel]
      BY <2>1 DEF ReachInv, ControlTypeOK, CountInv, FreshContexts, Starting
    <2> QED  BY <2>1, <2>2
  <1>3. CASE \/ StartContext(c) \/ StopWait(c) \/ DestroyClose(c)
             \/ \E o \in {"Stop", "Destroy"} : StopCancel(c, o)
    BY <1>3 DEF StartContext, StopWait, DestroyClose, StopCancel, sessVars
  <1> QED  BY <1>1, <1>2, <1>3 DEF CallerStep

LEMMA BusyNext == ReachInv /\ CountInv /\ BusyMeansTurn /\ [Next]_vars
                      => BusyMeansTurn'
  <1> SUFFICES ASSUME ReachInv, CountInv, BusyMeansTurn, [Next]_vars
               PROVE  BusyMeansTurn'
    OBVIOUS
  <1>1. CASE UNCHANGED <<state, lpc>>
    BY <1>1 DEF BusyMeansTurn, InTurn
  <1>2. ASSUME NEW t \in Threads, SendState(t)
        PROVE  BusyMeansTurn'
    BY <1>1, <1>2 DEF SendState, sessVars, loopVars
  <1>3. CASE FeedAudio \/ TimePasses
    BY <1>1, <1>3 DEF FeedAudio, TimePasses, sessVars, loopVars
  <1>4. CASE UNCHANGED vars
    BY <1>1, <1>4 DEF vars, sessVars, loopVars
  <1> QED  BY <1>2, <1>3, <1>4, BusyCallerStep, BusyLoopStep DEF Next

(* However many callers start, stop and destroy the session, and however   *)
(* many loops are winding down, a session that says it is thinking or      *)
(* speaking has a goroutine in a turn that will end that state             *)
(* (orchestrate.go:136-215, session.go:180-197).                           *)
THEOREM BusyMeansTurnCorrect == Spec => []BusyMeansTurn
  <1>1. Init => BusyMeansTurn
    BY DEF Init, BusyMeansTurn
  <1> QED  BY <1>1, ReachInit, ReachNext, CountInit, CountNext, BusyNext, PTL
              DEF Spec

----------------------------------------------------------------------------
(* One caller.  Calls of Start, Stop and Destroy that do not overlap keep  *)
(* the session to one active thread: Stop has waited for the goroutine     *)
(* before the same caller can start the next one, so a caller between its  *)
(* first and its last step of Start, or past the Wait of Stop, runs alone. *)

SingleCaller == \E c \in Callers : Callers = {c}

NoLoopRuns == \A l \in Contexts : ~Running(l)

OneLoopRuns == \A l, k \in Contexts : Running(l) /\ Running(k) => l = k

CallerRunsAlone ==
    \A c \in Callers :
        /\ Starting(c) => cancel = own[c] /\ NoLoopRuns
        /\ pc[c] \in {"wait", "stopped", "close"} => cancel = NoCtx
        /\ pc[c] \in {"stopped", "close"} => NoLoopRuns
        /\ pc[c] = "idle" /\ cancel = NoCtx => NoLoopRuns

IdleWhenStopped ==
    \A c \in Callers :
        pc[c] = "close" \/ (pc[c] = "idle" /\ cancel = NoCtx) => state = "Idle"

ClosedIsStopped ==
    closed => cancel = NoCtx /\ \A c \in Callers : ~Starting(c)

SerialInv ==
    OneLoopRuns /\ CallerRunsAlone /\ IdleWhenStopped /\ ClosedIsStopped

LEMMA SerialInit == Init => SerialInv
  BY DEF Init, SerialInv, OneLoopRuns, CallerRunsAlone, IdleWhenStopped,
     ClosedIsStopped, NoLoopRuns, Running, Starting

LEMMA LoopStepKeepsClosed ==
    ASSUME NEW l \in Contexts, LoopStep(l)
    PROVE  closed' = closed
  BY DEF LoopStep, LoopExit, RecvFrame, RecvSpeechEnd, RecvBargeIn, HandleFrame,
     VadError, FrameWhileSpeaking, FrameWhileListening, AppendAudio,
     ProcessFrame, OnTurnEvent, HandleTurn, DrainAudio, Think, AsrFails,
     AsrDone, LlmDone, PluginDone, LlmOrTtsFails, TtsDone, Listen, Speak,
     SpeakBegin, SendFrame, FrameTimer, SpeakReturns, PaceInterrupted, Spoken,
     sessVars

(* The goroutine that moves is the one that runs: the session is not       *)
(* stopped, whatever the goroutine does to its state.                      *)
LEMMA SerialLoopStep ==
    ASSUME ReachInv, SerialInv, NEW l \in Contexts, LoopStep(l)
    PROVE  SerialInv'
  <1>1. LoopMoves(l) /\ UNCHANGED controlVars
    BY LoopStepMoves
  <1>2. Running(l)
    BY <1>1 DEF LoopMoves, Running
  <1>3. \A k \in Contexts : Running(k)' => Running(k)
    BY <1>1 DEF LoopMoves, Running, ReachInv, ControlTypeOK
  <1>4. closed' = closed
    BY LoopStepKeepsClosed
  <1>5. OneLoopRuns' /\ CallerRunsAlone'
    BY <1>1, <1>3 DEF SerialInv, OneLoopRuns, CallerRunsAlone, NoLoopRuns,
       controlVars, Starting
  <1>6. IdleWhenStopped'
    BY <1>1, <1>2 DEF SerialInv, IdleWhenStopped, CallerRunsAlone, NoLoopRuns,
       controlVars
  <1>7. ClosedIsStopped'
    BY <1>1, <1>4 DEF SerialInv, ClosedIsStopped, controlVars, Starting
  <1> QED  BY <1>5, <1>6, <1>7 DEF SerialInv

LEMMA SerialCallerStep ==
    ASSUME SingleCaller, ReachInv, CountInv, SerialInv,
           NEW c \in Callers, CallerStep(c)
    PROVE  SerialInv'
  <1> USE DEF SerialInv, OneLoopRuns, CallerRunsAlone, IdleWhenStopped,
      ClosedIsStopped, NoLoopRuns, Running, Starting, NoCtx, CallerAt
  <1>0. /\ Callers = {c} /\ pc \in [Callers -> CallerLabel]
        /\ starts \in Nat /\ own \in [Callers -> 0 .. starts]
        /\ lpc \in [Contexts -> LoopLabel]
    BY BoundsAssumption DEF SingleCaller, ReachInv, ControlTypeOK
  <1>1. CASE StartContext(c)
    <2>1. /\ pc[c] = "idle" /\ pc' = [pc EXCEPT ![c] = "started"]
          /\ ~closed /\ cancel = 0 /\ cancel' = starts + 1
          /\ own' = [own EXCEPT ![c] = starts + 1]
          /\ UNCHANGED <<lpc, closed>>
      BY <1>1 DEF StartContext, loopVars
    <2> QED  BY <1>0, <2>1
  <1>2. CASE StartListening(c)
    <2>1. /\ pc[c] = "started" /\ pc' = [pc EXCEPT ![c] = "launch"]
          /\ UNCHANGED <<lpc, closed, own, cancel>>
      BY <1>2 DEF StartListening, loopVars
    <2> QED  BY <1>0, <2>1
  <1>3. CASE StartLoop(c)
    <2>1. /\ pc[c] = "launch" /\ pc' = [pc EXCEPT ![c] = "idle"]
          /\ lpc' = [lpc EXCEPT ![own[c]] = "select"]
          /\ UNCHANGED <<closed, cancel>>
      BY <1>3 DEF StartLoop
    <2>2. cancel # 0
      BY <1>0, <2>1 DEF ReachInv, StartIsReachable
    <2>3. \A k \in Contexts : Running(k)' => k = own[c]
      BY <1>0, <2>1
    <2> QED  BY <1>0, <2>1, <2>2, <2>3
  <1>4. ASSUME NEW o \in {"Stop", "Destroy"}, StopCancel(c, o)
        PROVE  SerialInv'
    <2>1. /\ pc[c] = "idle" /\ pc' = [pc EXCEPT ![c] = "wait"]
          /\ cancel' = 0
          /\ UNCHANGED <<lpc, closed>>
      BY <1>4 DEF StopCancel, loopVars
    <2> QED  BY <1>0, <2>1
  <1>5. CASE StopWait(c)
    <2>1. /\ pc[c] = "wait" /\ pc' = [pc EXCEPT ![c] = "stopped"]
          /\ wg = 0 /\ UNCHANGED <<lpc, closed, cancel>>
      BY <1>5 DEF StopWait, sessVars, loopVars
    <2>2. RunningLoops = {}
      BY <2>1, RunningIsFinite, FS_EmptySet
         DEF CountInv, WaitGroupCountsLoops, RunningLoops
    <2>3. NoLoopRuns
      BY <2>2 DEF RunningLoops
    <2> QED  BY <1>0, <2>1, <2>3
  <1>6. CASE StopIdle(c)
    <2>1. /\ pc[c] = "stopped" /\ state' = "Idle"
          /\ \E next \in {"close", "idle"} : pc' = [pc EXCEPT ![c] = next]
          /\ UNCHANGED <<lpc, closed, cancel>>
      BY <1>6 DEF StopIdle, SetState, loopVars
    <2> QED  BY <1>0, <2>1
  <1>7. CASE DestroyClose(c)
    <2>1. /\ pc[c] = "close" /\ pc' = [pc EXCEPT ![c] = "idle"]
          /\ UNCHANGED <<lpc, state, cancel>>
      BY <1>7 DEF DestroyClose, loopVars
    <2> QED  BY <1>0, <2>1
  <1> QED  BY <1>1, <1>2, <1>3, <1>4, <1>5, <1>6, <1>7 DEF CallerStep

LEMMA SerialNext ==
    ASSUME SingleCaller
    PROVE  ReachInv /\ CountInv /\ SerialInv /\ [Next]_vars => SerialInv'
  <1> SUFFICES ASSUME ReachInv, CountInv, SerialInv, [Next]_vars
               PROVE  SerialInv'
    OBVIOUS
  <1>1. CASE UNCHANGED <<state, closed, cancel, pc, own, lpc>>
    BY <1>1 DEF SerialInv, OneLoopRuns, CallerRunsAlone, IdleWhenStopped,
       ClosedIsStopped, NoLoopRuns, Running, Starting
  <1>2. ASSUME NEW t \in Threads, SendState(t)
        PROVE  SerialInv'
    BY <1>1, <1>2 DEF SendState, sessVars, callVars, loopVars
  <1>3. CASE FeedAudio \/ TimePasses
    BY <1>1, <1>3 DEF FeedAudio, TimePasses, sessVars, callVars, loopVars
  <1>4. CASE UNCHANGED vars
    BY <1>1, <1>4 DEF vars, sessVars, callVars, loopVars
  <1> QED  BY <1>2, <1>3, <1>4, SerialCallerStep, SerialLoopStep DEF Next

(* With one caller, a Stop that has returned left no goroutine and an idle *)
(* session, for any number of restarts and whatever the goroutine was      *)
(* doing when it was cancelled (session.go:235-247).                       *)
THEOREM StopStopsCorrect ==
    ASSUME SingleCaller PROVE Spec => []StopStops
  <1>1. SerialInv => StopStops
    BY DEF SingleCaller, SerialInv, CallerRunsAlone, IdleWhenStopped,
       NoLoopRuns, StopStops, Quiescent
  <1> QED  BY <1>1, ReachInit, ReachNext, CountInit, CountNext, SerialInit,
              SerialNext, PTL DEF Spec

(* With one caller, a destroyed session runs no goroutine and starts none  *)
(* (session.go:249-256, 200-205).                                          *)
THEOREM DestroyReleasesCorrect ==
    ASSUME SingleCaller PROVE Spec => []DestroyReleases
  <1>1. SerialInv => DestroyReleases
    BY DEF SingleCaller, SerialInv, CallerRunsAlone, ClosedIsStopped,
       NoLoopRuns, DestroyReleases, Quiescent
  <1> QED  BY <1>1, ReachInit, ReachNext, CountInit, CountNext, SerialInit,
              SerialNext, PTL DEF Spec

----------------------------------------------------------------------------
(* The client's view.  A thread that has set the state sends the event     *)
(* before it does anything else; with one caller it is the only thread     *)
(* that could set the state again, so the event it owes names the state    *)
(* the session is in.                                                      *)

LoopsOweWhileRunning ==
    \A l \in Contexts : notify[l] # Silent => Running(l)

CallersOweAlone ==
    \A c \in Callers : notify[c] # Silent => NoLoopRuns

OwedIsCurrent ==
    \A t \in Threads : notify[t] # Silent => notify[t] = state

NotifyInv ==
    /\ notify \in [Threads -> SessionState \cup {Silent}]
    /\ LoopsOweWhileRunning /\ CallersOweAlone /\ OwedIsCurrent
    /\ ClientInformed

LEMMA NotifyInit == Init => NotifyInv
  BY DEF Init, NotifyInv, LoopsOweWhileRunning, CallersOweAlone, OwedIsCurrent,
     ClientInformed, Threads

LEMMA SilentIsNoState == Silent \notin SessionState
  BY DEF Silent, SessionState

(* A step of goroutine l sets the state through setState or not at all.    *)
LEMMA LoopStepSetsState ==
    ASSUME NEW l \in Contexts, LoopStep(l)
    PROVE  /\ notify[l] = Silent /\ clientState' = clientState
           /\ \/ UNCHANGED <<state, notify>>
              \/ ~LoopExit(l) /\ \E s \in SessionState : SetState(l, s)
  <1> USE DEF LoopAt, sessVars, obsVars
  <1>1. CASE LoopExit(l) \/ RecvFrame(l) \/ RecvSpeechEnd(l) \/ RecvBargeIn(l)
    BY <1>1 DEF LoopExit, RecvFrame, RecvSpeechEnd, RecvBargeIn
  <1>2. CASE HandleFrame(l)
    BY <1>2 DEF HandleFrame, VadError, FrameWhileSpeaking, FrameWhileListening,
       AppendAudio, ProcessFrame, OnTurnEvent
  <1>3. CASE Think(l) \/ (\E n \in 0 .. MaxReply : TtsDone(l, n)) \/ Listen(l)
    <2>1. lpc[l] # "select" /\ notify[l] = Silent /\ clientState' = clientState
      BY <1>3 DEF Think, TtsDone, Listen
    <2>2. ~LoopExit(l)
      BY <2>1 DEF LoopExit
    <2>3. \E s \in SessionState : SetState(l, s)
      BY <1>3 DEF Think, TtsDone, Listen, SessionState
    <2> QED  BY <2>1, <2>2, <2>3
  <1>4. CASE \/ DrainAudio(l) \/ AsrFails(l) \/ AsrDone(l) \/ LlmDone(l)
             \/ LlmOrTtsFails(l)
    BY <1>4 DEF DrainAudio, AsrFails, AsrDone, LlmDone, PluginDone,
       LlmOrTtsFails
  <1>5. CASE Speak(l)
    BY <1>5 DEF Speak, SpeakBegin, SendFrame, FrameTimer, SpeakReturns,
       PaceInterrupted, Spoken
  <1> QED  BY <1>1, <1>2, <1>3, <1>4, <1>5 DEF LoopStep, HandleTurn

(* A thread that owes nothing and is the only one that may owe an event    *)
(* sets the state.                                                         *)
LEMMA SetStateAlone ==
    ASSUME NEW t \in Threads, NEW s \in SessionState, SetState(t, s),
           notify \in [Threads -> SessionState \cup {Silent}],
           \A u \in Threads : notify[u] = Silent,
           ClientInformed, clientState' = clientState
    PROVE  /\ notify' \in [Threads -> SessionState \cup {Silent}]
           /\ \A u \in Threads \ {t} : notify'[u] = Silent
           /\ OwedIsCurrent' /\ ClientInformed'
  BY SilentIsNoState DEF SetState, OwedIsCurrent, ClientInformed

LEMMA NotifyLoopStep ==
    ASSUME ReachInv, SerialInv, NotifyInv, NEW l \in Contexts, LoopStep(l)
    PROVE  NotifyInv'
  <1>1. LoopMoves(l)
    BY LoopStepMoves
  <1>2. Running(l) /\ lpc \in [Contexts -> LoopLabel]
    BY <1>1 DEF LoopMoves, Running, ReachInv, ControlTypeOK
  <1>3. \A k \in Contexts \ {l} : ~Running(k) /\ ~Running(k)'
    BY <1>1, <1>2 DEF LoopMoves, Running, SerialInv, OneLoopRuns
  <1>4. \A t \in Threads : notify[t] = Silent
    BY <1>2, <1>3, LoopStepSetsState DEF NotifyInv, LoopsOweWhileRunning,
       CallersOweAlone, NoLoopRuns, Threads
  <1>5. CASE UNCHANGED <<state, notify>>
    BY <1>4, <1>5, LoopStepSetsState DEF NotifyInv, LoopsOweWhileRunning,
       CallersOweAlone, OwedIsCurrent, ClientInformed, Threads
  <1>6. CASE ~LoopExit(l) /\ \E s \in SessionState : SetState(l, s)
    <2>1. l \in Threads /\ l \notin Callers
      BY BoundsAssumption DEF Threads, Contexts
    <2>2. Running(l)'
      BY <1>2, <1>6, LoopStaysRunning DEF Running
    <2>3. /\ notify' \in [Threads -> SessionState \cup {Silent}]
          /\ \A u \in Threads \ {l} : notify'[u] = Silent
          /\ OwedIsCurrent' /\ ClientInformed'
      BY <1>4, <1>6, <2>1, LoopStepSetsState, SetStateAlone DEF NotifyInv
    <2> QED  BY <2>1, <2>2, <2>3 DEF NotifyInv, LoopsOweWhileRunning,
                CallersOweAlone, Threads
  <1> QED  BY <1>5, <1>6, LoopStepSetsState

LEMMA NotifyCallerStep ==
    ASSUME SingleCaller, ReachInv, SerialInv, NotifyInv,
           NEW c \in Callers, CallerStep(c)
    PROVE  NotifyInv'
  <1>0. /\ Callers = {c} /\ c \in Threads /\ c \notin Contexts
        /\ pc \in [Callers -> CallerLabel] /\ own \in [Callers -> 0 .. starts]
        /\ lpc \in [Contexts -> LoopLabel]
    BY BoundsAssumption DEF SingleCaller, ReachInv, ControlTypeOK, Threads,
       Contexts
  <1>1. CASE StartListening(c) \/ StopIdle(c)
    <2>1. /\ notify[c] = Silent /\ clientState' = clientState /\ lpc' = lpc
          /\ pc[c] \in {"started", "stopped"}
          /\ \E s \in SessionState : SetState(c, s)
      BY <1>1 DEF StartListening, StopIdle, CallerAt, loopVars, SessionState
    <2>2. NoLoopRuns /\ NoLoopRuns'
      BY <2>1 DEF SerialInv, CallerRunsAlone, Starting, NoLoopRuns, Running
    <2>3. \A t \in Threads : notify[t] = Silent
      BY <1>0, <2>1, <2>2 DEF NotifyInv, LoopsOweWhileRunning, NoLoopRuns,
         Threads
    <2>4. /\ notify' \in [Threads -> SessionState \cup {Silent}]
          /\ \A u \in Threads \ {c} : notify'[u] = Silent
          /\ OwedIsCurrent' /\ ClientInformed'
      BY <1>0, <2>1, <2>3, SetStateAlone DEF NotifyInv
    <2> QED  BY <1>0, <2>2, <2>4 DEF NotifyInv, LoopsOweWhileRunning,
                CallersOweAlone, Threads
  <1>2. CASE StartLoop(c)
    <2>1. /\ notify[c] = Silent /\ pc[c] = "launch"
          /\ lpc' = [lpc EXCEPT ![own[c]] = "select"]
          /\ UNCHANGED <<notify, clientState, state>>
      BY <1>2 DEF StartLoop, CallerAt, obsVars
    <2>2. NoLoopRuns
      BY <2>1 DEF SerialInv, CallerRunsAlone, Starting
    <2>3. \A t \in Threads : notify[t] = Silent
      BY <1>0, <2>1, <2>2 DEF NotifyInv, LoopsOweWhileRunning, NoLoopRuns,
         Threads
    <2> QED  BY <2>1, <2>3 DEF NotifyInv, LoopsOweWhileRunning, Threads,
                CallersOweAlone, OwedIsCurrent, ClientInformed
  <1>3. CASE \/ StartContext(c) \/ StopWait(c) \/ DestroyClose(c)
             \/ \E o \in {"Stop", "Destroy"} : StopCancel(c, o)
    <2>1. UNCHANGED <<notify, clientState, state, lpc>>
      BY <1>3 DEF StartContext, StopWait, DestroyClose, StopCancel, sessVars,
         loopVars, obsVars
    <2> QED  BY <2>1 DEF NotifyInv, LoopsOweWhileRunning, CallersOweAlone,
                OwedIsCurrent, ClientInformed, NoLoopRuns, Running
  <1> QED  BY <1>1, <1>2, <1>3 DEF CallerStep

LEMMA NotifyNext ==
    ASSUME SingleCaller
    PROVE  ReachInv /\ SerialInv /\ NotifyInv /\ [Next]_vars => NotifyInv'
  <1> SUFFICES ASSUME ReachInv, SerialInv, NotifyInv, [Next]_vars
               PROVE  NotifyInv'
    OBVIOUS
  <1> USE DEF NotifyInv, LoopsOweWhileRunning, CallersOweAlone, OwedIsCurrent,
      ClientInformed, NoLoopRuns, Running
  <1>1. CASE UNCHANGED <<notify, clientState, state, lpc>>
    BY <1>1
  <1>2. ASSUME NEW t \in Threads, SendState(t)
        PROVE  NotifyInv'
    BY <1>2 DEF SendState, sessVars, loopVars, Threads
  <1>3. CASE FeedAudio \/ TimePasses
    BY <1>1, <1>3 DEF FeedAudio, TimePasses, sessVars, loopVars, obsVars
  <1>4. CASE UNCHANGED vars
    BY <1>1, <1>4 DEF vars, sessVars, loopVars, obsVars
  <1> QED  BY <1>2, <1>3, <1>4, NotifyCallerStep, NotifyLoopStep DEF Next

(* With one caller, a client that is owed no event knows the state of the  *)
(* session, although every event is sent after the mutex that guards the   *)
(* state has been released (session.go:180-197).                           *)
THEOREM ClientInformedCorrect ==
    ASSUME SingleCaller PROVE Spec => []ClientInformed
  <1>1. NotifyInv => ClientInformed
    BY DEF NotifyInv
  <1> QED  BY <1>1, ReachInit, ReachNext, CountInit, CountNext, SerialInit,
              SerialNext, NotifyInit, NotifyNext, PTL DEF Spec

----------------------------------------------------------------------------
(* The barge-in.  The goroutine that plays a reply is, with one caller,    *)
(* the only one that could examine a frame, and it examines none between   *)
(* setting Speaking and leaving it.                                        *)

Attentive == {"select", "frame", "append", "process", "event", "drain"}

AttentiveWhileNotSpeaking ==
    /\ \A l \in Contexts : lpc[l] \in Attentive => state # "Speaking"
    /\ \A c \in Callers : pc[c] = "launch" => state # "Speaking"

BargeInNeverRaised == ~bargeInFlag /\ bargeInCh = 0

QuietInv == BargeInNeverRaised /\ AttentiveWhileNotSpeaking

LEMMA QuietInit == Init => QuietInv
  BY DEF Init, QuietInv, BargeInNeverRaised, AttentiveWhileNotSpeaking, Attentive

(* What goroutine l does to the state and to the signal, it being the one  *)
(* that runs.                                                              *)
LEMMA LoopStaysQuiet ==
    ASSUME NEW l \in Contexts, LoopStep(l), lpc \in [Contexts -> LoopLabel],
           BargeInNeverRaised, lpc[l] \in Attentive => state # "Speaking"
    PROVE  /\ BargeInNeverRaised'
           /\ lpc'[l] \in Attentive => state' # "Speaking"
  <1> USE DEF LoopAt, Attentive, BargeInNeverRaised, sessVars, chanVars
  <1>1. CASE LoopExit(l) \/ RecvFrame(l) \/ RecvSpeechEnd(l) \/ RecvBargeIn(l)
    BY <1>1 DEF LoopExit, RecvFrame, RecvSpeechEnd, RecvBargeIn
  <1>2. CASE HandleFrame(l)
    BY <1>2 DEF HandleFrame, VadError, FrameWhileSpeaking, FrameWhileListening,
       AppendAudio, ProcessFrame, OnTurnEvent
  <1>3. CASE Think(l) \/ (\E n \in 0 .. MaxReply : TtsDone(l, n)) \/ Listen(l)
    <2>1. /\ UNCHANGED <<bargeInFlag, bargeInCh>>
          /\ \/ \E next \in {"asr", "speak"} : lpc' = [lpc EXCEPT ![l] = next]
             \/ state' = "Listening"
      BY <1>3 DEF Think, TtsDone, Listen, SetState
    <2> QED  BY <2>1
  <1>4. CASE \/ DrainAudio(l) \/ AsrFails(l) \/ AsrDone(l) \/ LlmDone(l)
             \/ LlmOrTtsFails(l)
    BY <1>4 DEF DrainAudio, AsrFails, AsrDone, LlmDone, PluginDone,
       LlmOrTtsFails
  <1>5. CASE Speak(l)
    BY <1>5 DEF Speak, SpeakBegin, SendFrame, FrameTimer, SpeakReturns,
       PaceInterrupted, Spoken
  <1> QED  BY <1>1, <1>2, <1>3, <1>4, <1>5 DEF LoopStep, HandleTurn

LEMMA QuietLoopStep ==
    ASSUME ReachInv, SerialInv, QuietInv, NEW l \in Contexts, LoopStep(l)
    PROVE  QuietInv'
  <1>1. LoopMoves(l) /\ UNCHANGED controlVars
    BY LoopStepMoves
  <1>2. Running(l) /\ lpc \in [Contexts -> LoopLabel]
    BY <1>1 DEF LoopMoves, Running, ReachInv, ControlTypeOK
  <1>3. \A k \in Contexts \ {l} : lpc'[k] \notin Attentive
    BY <1>1, <1>2 DEF LoopMoves, Running, SerialInv, OneLoopRuns, Attentive
  <1>4. \A c \in Callers : pc'[c] # "launch"
    BY <1>1, <1>2 DEF controlVars, SerialInv, CallerRunsAlone, Starting,
       NoLoopRuns
  <1> QED  BY <1>2, <1>3, <1>4, LoopStaysQuiet DEF QuietInv,
              AttentiveWhileNotSpeaking

LEMMA QuietCallerStep ==
    ASSUME SingleCaller, ReachInv, SerialInv, QuietInv,
           NEW c \in Callers, CallerStep(c)
    PROVE  QuietInv'
  <1> USE DEF QuietInv, AttentiveWhileNotSpeaking, BargeInNeverRaised,
      CallerAt, chanVars, loopVars
  <1>0. /\ Callers = {c} /\ pc \in [Callers -> CallerLabel]
        /\ lpc \in [Contexts -> LoopLabel]
    BY DEF SingleCaller, ReachInv, ControlTypeOK
  <1>1. CASE StartListening(c) \/ StopIdle(c)
    <2>1. state' # "Speaking"
      BY <1>1 DEF StartListening, StopIdle, SetState
    <2> QED  BY <1>1, <2>1 DEF StartListening, StopIdle
  <1>2. CASE StartLoop(c)
    <2>1. /\ pc[c] = "launch" /\ pc' = [pc EXCEPT ![c] = "idle"]
          /\ lpc' = [lpc EXCEPT ![own[c]] = "select"]
          /\ UNCHANGED <<state, bargeInFlag, bargeInCh>>
      BY <1>2 DEF StartLoop
    <2> QED  BY <1>0, <2>1
  <1>3. CASE \/ StartContext(c) \/ StopWait(c) \/ DestroyClose(c)
             \/ \E o \in {"Stop", "Destroy"} : StopCancel(c, o)
    <2>1. /\ UNCHANGED <<state, lpc, bargeInFlag, bargeInCh>>
          /\ \E next \in {"started", "stopped", "idle", "wait"} :
                 pc' = [pc EXCEPT ![c] = next]
      BY <1>3 DEF StartContext, StopWait, DestroyClose, StopCancel, sessVars
    <2> QED  BY <1>0, <2>1
  <1> QED  BY <1>1, <1>2, <1>3 DEF CallerStep

LEMMA QuietNext ==
    ASSUME SingleCaller
    PROVE  ReachInv /\ SerialInv /\ QuietInv /\ [Next]_vars => QuietInv'
  <1> SUFFICES ASSUME ReachInv, SerialInv, QuietInv, [Next]_vars
               PROVE  QuietInv'
    OBVIOUS
  <1> USE DEF QuietInv, AttentiveWhileNotSpeaking, BargeInNeverRaised
  <1>1. CASE UNCHANGED <<state, pc, lpc, bargeInFlag, bargeInCh>>
    BY <1>1
  <1>2. ASSUME NEW t \in Threads, SendState(t)
        PROVE  QuietInv'
    BY <1>1, <1>2 DEF SendState, sessVars, chanVars, callVars, loopVars
  <1>3. CASE FeedAudio \/ TimePasses
    BY <1>1, <1>3 DEF FeedAudio, TimePasses, sessVars, chanVars, callVars,
       loopVars
  <1>4. CASE UNCHANGED vars
    BY <1>1, <1>4 DEF vars, sessVars, chanVars, callVars, loopVars
  <1> QED  BY <1>2, <1>3, <1>4, QuietCallerStep, QuietLoopStep DEF Next

(* What lies behind the finding of the run barge_in, for every instance:   *)
(* with one caller the barge-in that orchestrate.go:21 promises is never   *)
(* raised, since the frames that would raise it are examined after the     *)
(* reply, by the goroutine that played it (orchestrate.go:91-96, 115).     *)
THEOREM BargeInNeverRaisedCorrect ==
    ASSUME SingleCaller PROVE Spec => []BargeInNeverRaised
  <1>1. QuietInv => BargeInNeverRaised
    BY DEF QuietInv
  <1> QED  BY <1>1, ReachInit, ReachNext, CountInit, CountNext, SerialInit,
              SerialNext, QuietInit, QuietNext, PTL DEF Spec

----------------------------------------------------------------------------
(* The frames.  A frame moves from the channel to the hand of a goroutine, *)
(* from there to the buffer, and with the whole buffer to recognition; or  *)
(* it is dropped.  AudioStep says that the code does nothing else with     *)
(* frames, whoever moves; the two theorems on frames rest on it alone.     *)

Elements(s) == {s[i] : i \in DOMAIN s}

FrameNumbers == Nat \ {0}

Holds(l) == lpc[l] \in {"frame", "append"}

(* The frame each goroutine has taken from the channel and not yet put     *)
(* away, 0 when it has none.                                               *)
hand == [l \in Contexts |-> IF Holds(l) THEN loc[l].frame ELSE 0]

AnyLocals == [frame : Nat, speaking : BOOLEAN, ev : TurnEvent \cup {NoEvent},
              left : Int, cut : BOOLEAN]

AudioTypeOK ==
    /\ fed \in Nat
    /\ audioIn \in Seq(FrameNumbers)
    /\ audioBuffer \in Seq(FrameNumbers)
    /\ heard \in Seq(FrameNumbers)
    /\ loc \in [Contexts -> AnyLocals]
    /\ \A l \in Contexts : Holds(l) => loc[l].frame # 0

Feeds ==
    /\ fed' = fed + 1
    /\ audioIn' \in {audioIn, Append(audioIn, fed + 1)}
    /\ UNCHANGED <<hand, audioBuffer, heard>>

Receives(l) ==
    /\ Running(l) /\ hand[l] = 0
    /\ audioIn # << >>
    /\ hand' = [hand EXCEPT ![l] = Head(audioIn)]
    /\ audioIn' = Tail(audioIn)
    /\ UNCHANGED <<audioBuffer, heard, fed>>

Accumulates(l) ==
    /\ hand[l] # 0
    /\ hand' = [hand EXCEPT ![l] = 0]
    /\ audioBuffer' = Append(audioBuffer, hand[l])
    /\ UNCHANGED <<audioIn, heard, fed>>

Recognises ==
    /\ heard' = heard \o audioBuffer
    /\ audioBuffer' = << >>
    /\ UNCHANGED <<hand, audioIn, fed>>

Drops(l) ==
    /\ hand' \in {hand, [hand EXCEPT ![l] = 0]}
    /\ audioBuffer' \in {audioBuffer, << >>}
    /\ UNCHANGED <<audioIn, heard, fed>>

FramesOfLoopMove(l) ==
    Receives(l) \/ Accumulates(l) \/ Recognises \/ Drops(l)

LEMMA AudioInit == Init => AudioTypeOK
  BY DEF Init, AudioTypeOK, NewLocals, AnyLocals, Holds, FrameNumbers

(* Only its own steps change what a goroutine holds.                       *)
LEMMA HandMoves ==
    ASSUME NEW l \in Contexts, NEW next, lpc \in [Contexts -> LoopLabel],
           lpc' = [lpc EXCEPT ![l] = next],
           \A k \in Contexts \ {l} : loc'[k].frame = loc[k].frame
    PROVE  hand' = [hand EXCEPT ![l] =
                        IF next \in {"frame", "append"} THEN loc'[l].frame ELSE 0]
  BY DEF hand, Holds

LEMMA HandKept ==
    ASSUME NEW l \in Contexts, hand' = [hand EXCEPT ![l] = hand[l]]
    PROVE  hand' = hand
  BY DEF hand

LEMMA AudioRecvFrame ==
    ASSUME ReachInv, AudioTypeOK, NEW l \in Contexts, RecvFrame(l)
    PROVE  AudioTypeOK' /\ Receives(l)
  <1>1. /\ lpc[l] = "select" /\ lpc' = [lpc EXCEPT ![l] = "frame"]
        /\ audioIn # << >> /\ audioIn' = Tail(audioIn)
        /\ loc' = [loc EXCEPT ![l].frame = Head(audioIn)]
        /\ UNCHANGED <<audioBuffer, heard, fed>>
    BY DEF RecvFrame, LoopAt, sessVars, envVars
  <1>2. lpc \in [Contexts -> LoopLabel]
    BY DEF ReachInv, ControlTypeOK
  <1>3. Head(audioIn) \in FrameNumbers /\ Tail(audioIn) \in Seq(FrameNumbers)
    BY <1>1 DEF AudioTypeOK
  <1>4. /\ loc'[l].frame = Head(audioIn)
        /\ \A k \in Contexts \ {l} : loc'[k].frame = loc[k].frame
    BY <1>1 DEF AudioTypeOK, AnyLocals
  <1>5. hand' = [hand EXCEPT ![l] = Head(audioIn)]
    BY <1>1, <1>2, <1>4, HandMoves
  <1>6. hand[l] = 0 /\ Running(l)
    BY <1>1 DEF hand, Holds, Running
  <1>7. loc' \in [Contexts -> AnyLocals]
    BY <1>1, <1>3 DEF AudioTypeOK, AnyLocals, FrameNumbers
  <1>8. \A k \in Contexts : Holds(k)' => loc'[k].frame # 0
    BY <1>1, <1>2, <1>3, <1>4 DEF AudioTypeOK, Holds, FrameNumbers
  <1> QED  BY <1>1, <1>3, <1>5, <1>6, <1>7, <1>8 DEF AudioTypeOK, Receives

(* A step that does not take a frame from the channel: what it does to the *)
(* locals of its goroutine keeps the frame in hand, if one is still held.  *)
LocalsStep(l) ==
    /\ loc' \in [Contexts -> AnyLocals]
    /\ \A k \in Contexts \ {l} : loc'[k].frame = loc[k].frame
    /\ Holds(l)' => Holds(l) /\ loc'[l].frame = loc[l].frame

LEMMA LocalsLoopStep ==
    ASSUME ReachInv, AudioTypeOK, NEW l \in Contexts, LoopStep(l), ~RecvFrame(l)
    PROVE  LocalsStep(l)
  <1> USE DEF LocalsStep, Holds, LoopAt, loopVars
  <1>0. lpc \in [Contexts -> LoopLabel] /\ loc \in [Contexts -> AnyLocals]
    BY DEF ReachInv, ControlTypeOK, AudioTypeOK
  <1>1. CASE LoopExit(l)
    <2>1. /\ lpc' = [lpc EXCEPT ![l] = "exited"]
          /\ loc' = [k \in Contexts |->
                        IF k = speakCancel THEN [loc[k] EXCEPT !.cut = TRUE]
                                           ELSE loc[k]]
      BY <1>1 DEF LoopExit
    <2> QED  BY <1>0, <2>1 DEF AnyLocals
  <1>2. CASE VadError(l) \/ OnTurnEvent(l) \/ Listen(l)
              \/ \E loud \in BOOLEAN : FrameWhileSpeaking(l, loud)
    <2>1. /\ lpc' = [lpc EXCEPT ![l] = "select"]
          /\ loc' = [loc EXCEPT ![l] = NewLocals]
      BY <1>2 DEF VadError, OnTurnEvent, Listen, FrameWhileSpeaking, Forget
    <2>2. NewLocals \in AnyLocals
      BY DEF NewLocals, AnyLocals
    <2> QED  BY <1>0, <2>1, <2>2
  <1>3. ASSUME NEW speaking \in BOOLEAN, FrameWhileListening(l, speaking)
        PROVE  LocalsStep(l)
    <2>1. /\ lpc[l] = "frame" /\ lpc' = [lpc EXCEPT ![l] = "append"]
          /\ loc' = [loc EXCEPT ![l].speaking = speaking]
      BY <1>3 DEF FrameWhileListening
    <2> QED  BY <1>0, <2>1 DEF AnyLocals
  <1>4. CASE ProcessFrame(l)
    <2>1. PICK ev \in TurnEvent \cup {NoEvent} :
              /\ lpc' = [lpc EXCEPT ![l] = IF ev = NoEvent THEN "select" ELSE "event"]
              /\ IF ev = NoEvent THEN Forget(l) ELSE loc' = [loc EXCEPT ![l].ev = ev]
      BY <1>4 DEF ProcessFrame
    <2>2. ~Holds(l)'
      BY <1>0, <2>1
    <2>3. CASE loc' = [loc EXCEPT ![l] = NewLocals]
      <3>1. NewLocals \in AnyLocals
        BY DEF NewLocals, AnyLocals
      <3> QED  BY <1>0, <2>2, <2>3, <3>1
    <2>4. CASE loc' = [loc EXCEPT ![l].ev = ev]
      BY <1>0, <2>2, <2>4 DEF AnyLocals
    <2> QED  BY <2>1, <2>3, <2>4 DEF Forget
  <1>5. ASSUME NEW n \in 0 .. MaxReply, TtsDone(l, n)
        PROVE  LocalsStep(l)
    <2>1. /\ lpc' = [lpc EXCEPT ![l] = "speak"]
          /\ loc' = [loc EXCEPT ![l] = [loc[l] EXCEPT !.left = n, !.cut = FALSE]]
      BY <1>0, <1>5 DEF TtsDone
    <2>2. n \in Int /\ loc[l] \in AnyLocals
      BY <1>0, BoundsAssumption
    <2>3. [loc[l] EXCEPT !.left = n] \in AnyLocals
      BY <2>2 DEF AnyLocals
    <2>4. [loc[l] EXCEPT !.left = n, !.cut = FALSE] \in AnyLocals
      BY <2>3 DEF AnyLocals
    <2> QED  BY <1>0, <2>1, <2>4
  <1>6. CASE FrameTimer(l)
    <2>1. /\ lpc' = [lpc EXCEPT ![l] = "send"]
          /\ loc' = [loc EXCEPT ![l].left = @ - 1]
      BY <1>6 DEF FrameTimer
    <2> QED  BY <1>0, <2>1 DEF AnyLocals
  <1>7. CASE \/ RecvSpeechEnd(l) \/ RecvBargeIn(l) \/ AppendAudio(l)
             \/ DrainAudio(l) \/ Think(l) \/ AsrFails(l) \/ AsrDone(l)
             \/ LlmDone(l) \/ LlmOrTtsFails(l) \/ SpeakBegin(l) \/ SendFrame(l)
             \/ SpeakReturns(l) \/ PaceInterrupted(l) \/ Spoken(l)
    <2>1. /\ loc' = loc
          /\ \E next \in LoopLabel \ {"frame", "append"} :
                 lpc' = [lpc EXCEPT ![l] = next]
      BY <1>7 DEF RecvSpeechEnd, RecvBargeIn, AppendAudio, DrainAudio, Think,
         AsrFails, AsrDone, LlmDone, PluginDone, LlmOrTtsFails, SpeakBegin,
         SendFrame, SpeakReturns, PaceInterrupted, Spoken, LoopLabel
    <2> QED  BY <1>0, <2>1
  <1> QED  BY <1>1, <1>2, <1>3, <1>4, <1>5, <1>6, <1>7
              DEF LoopStep, HandleFrame, HandleTurn, Speak

LEMMA HandLoopStep ==
    ASSUME ReachInv, AudioTypeOK, NEW l \in Contexts, LoopStep(l), LocalsStep(l)
    PROVE  /\ hand' \in {hand, [hand EXCEPT ![l] = 0]}
           /\ ~Holds(l) => hand' = hand
           /\ ~Holds(l)' => hand' = [hand EXCEPT ![l] = 0]
           /\ \A k \in Contexts : Holds(k)' => loc'[k].frame # 0
  <1>1. LoopMoves(l)
    BY LoopStepMoves
  <1>2. PICK next \in LoopLabel : lpc' = [lpc EXCEPT ![l] = next]
    BY <1>1 DEF LoopMoves
  <1>3. lpc \in [Contexts -> LoopLabel]
    BY DEF ReachInv, ControlTypeOK
  <1>4. hand' = [hand EXCEPT ![l] =
                     IF next \in {"frame", "append"} THEN loc'[l].frame ELSE 0]
    BY <1>2, <1>3, HandMoves DEF LocalsStep
  <1>5. Holds(l)' <=> next \in {"frame", "append"}
    BY <1>2, <1>3 DEF Holds
  <1>6. \A k \in Contexts : Holds(k)' => loc'[k].frame # 0
    <2>1. \A k \in Contexts :
              Holds(k)' => Holds(k) /\ loc'[k].frame = loc[k].frame
      BY <1>2, <1>3 DEF LocalsStep, Holds
    <2> QED  BY <2>1 DEF AudioTypeOK
  <1>7. CASE Holds(l)'
    <2>1. Holds(l) /\ loc'[l].frame = loc[l].frame
      BY <1>7 DEF LocalsStep
    <2>2. hand[l] = loc[l].frame
      BY <2>1 DEF hand
    <2>3. hand' = hand
      BY <1>4, <1>5, <1>7, <2>1, <2>2, HandKept
    <2> QED  BY <1>6, <1>7, <2>1, <2>3
  <1>8. CASE ~Holds(l)'
    <2>1. hand' = [hand EXCEPT ![l] = 0]
      BY <1>4, <1>5, <1>8
    <2>2. ~Holds(l) => hand[l] = 0
      BY DEF hand
    <2>3. ~Holds(l) => hand' = hand
      BY <2>1, <2>2, HandKept
    <2> QED  BY <1>6, <1>8, <2>1, <2>3
  <1> QED  BY <1>7, <1>8

LEMMA AudioLoopStep ==
    ASSUME ReachInv, AudioTypeOK, NEW l \in Contexts, LoopStep(l)
    PROVE  AudioTypeOK' /\ FramesOfLoopMove(l)
  <1>1. CASE RecvFrame(l)
    BY <1>1, AudioRecvFrame DEF FramesOfLoopMove
  <1>2. CASE ~RecvFrame(l)
    <2>1. LocalsStep(l)
      BY <1>2, LocalsLoopStep
    <2>2. /\ hand' \in {hand, [hand EXCEPT ![l] = 0]}
          /\ ~Holds(l) => hand' = hand
          /\ ~Holds(l)' => hand' = [hand EXCEPT ![l] = 0]
          /\ \A k \in Contexts : Holds(k)' => loc'[k].frame # 0
      BY <2>1, HandLoopStep
    <2>3. lpc \in [Contexts -> LoopLabel]
      BY DEF ReachInv, ControlTypeOK
    <2>4. CASE AppendAudio(l)
      <3>1. /\ lpc[l] = "append" /\ lpc' = [lpc EXCEPT ![l] = "process"]
            /\ audioBuffer' = Append(audioBuffer, loc[l].frame)
            /\ UNCHANGED <<audioIn, heard, fed>>
        BY <2>4 DEF AppendAudio, LoopAt, chanVars, envVars
      <3>2. Holds(l) /\ ~Holds(l)' /\ hand[l] = loc[l].frame
        BY <2>3, <3>1 DEF Holds, hand
      <3>3. loc[l].frame \in FrameNumbers
        BY <3>2 DEF AudioTypeOK, AnyLocals, FrameNumbers
      <3>4. audioBuffer' \in Seq(FrameNumbers)
        BY <3>1, <3>3 DEF AudioTypeOK
      <3>5. Accumulates(l)
        BY <2>2, <3>1, <3>2, <3>3 DEF Accumulates, FrameNumbers
      <3> QED  BY <2>1, <2>2, <3>1, <3>4, <3>5 DEF AudioTypeOK, LocalsStep,
                  FramesOfLoopMove
    <2>5. CASE DrainAudio(l)
      <3>1. /\ lpc[l] = "drain" /\ heard' = heard \o audioBuffer
            /\ audioBuffer' = << >>
            /\ UNCHANGED <<audioIn, fed>>
        BY <2>5 DEF DrainAudio, LoopAt, chanVars
      <3>2. hand' = hand
        BY <2>2, <3>1 DEF Holds
      <3>3. heard' \in Seq(FrameNumbers) /\ audioBuffer' \in Seq(FrameNumbers)
        BY <3>1 DEF AudioTypeOK
      <3> QED  BY <2>1, <2>2, <3>1, <3>2, <3>3 DEF AudioTypeOK, LocalsStep,
                  FramesOfLoopMove, Recognises
    <2>6. CASE AsrFails(l)
      <3>1. audioBuffer' = << >> /\ UNCHANGED <<audioIn, heard, fed>>
        BY <2>6 DEF AsrFails, chanVars, envVars
      <3> QED  BY <2>1, <2>2, <3>1 DEF AudioTypeOK, LocalsStep,
                  FramesOfLoopMove, Drops
    <2>7. CASE ~AppendAudio(l) /\ ~DrainAudio(l) /\ ~AsrFails(l)
      <3>1. UNCHANGED <<audioIn, audioBuffer, heard, fed>>
        <4> USE DEF sessVars, chanVars, envVars
        <4>1. CASE LoopExit(l) \/ RecvSpeechEnd(l) \/ RecvBargeIn(l)
          BY <4>1 DEF LoopExit, RecvSpeechEnd, RecvBargeIn
        <4>2. CASE HandleFrame(l)
          BY <2>7, <4>2 DEF HandleFrame, VadError, FrameWhileSpeaking,
             FrameWhileListening, ProcessFrame, OnTurnEvent
        <4>3. CASE HandleTurn(l)
          BY <2>7, <4>3 DEF HandleTurn, Think, AsrDone, LlmDone, PluginDone,
             LlmOrTtsFails, TtsDone, Listen
        <4>4. CASE Speak(l)
          BY <4>4 DEF Speak, SpeakBegin, SendFrame, FrameTimer, SpeakReturns,
             PaceInterrupted, Spoken
        <4> QED  BY <1>2, <4>1, <4>2, <4>3, <4>4 DEF LoopStep
      <3> QED  BY <2>1, <2>2, <3>1 DEF AudioTypeOK, LocalsStep,
                  FramesOfLoopMove, Drops
    <2> QED  BY <2>4, <2>5, <2>6, <2>7
  <1> QED  BY <1>1, <1>2

FramesMove == Feeds \/ \E l \in Contexts : FramesOfLoopMove(l)

LEMMA AudioStep ==
    ASSUME ReachInv, CountInv, AudioTypeOK, [Next]_vars
    PROVE  /\ AudioTypeOK'
           /\ FramesMove \/ UNCHANGED <<hand, audioIn, audioBuffer, heard, fed>>
  <1>1. CASE UNCHANGED <<lpc, loc, audioIn, audioBuffer, heard, fed>>
    BY <1>1 DEF AudioTypeOK, hand, Holds
  <1>2. ASSUME NEW t \in Threads, SendState(t)
        PROVE  UNCHANGED <<lpc, loc, audioIn, audioBuffer, heard, fed>>
    BY <1>2 DEF SendState, sessVars, chanVars, loopVars, envVars
  <1>3. ASSUME NEW c \in Callers, CallerStep(c), ~StartLoop(c)
        PROVE  UNCHANGED <<lpc, loc, audioIn, audioBuffer, heard, fed>>
    BY <1>3 DEF CallerStep, StartContext, StartListening, StopCancel, StopWait,
       StopIdle, DestroyClose, sessVars, chanVars, loopVars, envVars
  <1>4. ASSUME NEW c \in Callers, StartLoop(c)
        PROVE  AudioTypeOK' /\ UNCHANGED <<hand, audioIn, audioBuffer, heard, fed>>
    <2>1. /\ pc[c] = "launch" /\ lpc' = [lpc EXCEPT ![own[c]] = "select"]
          /\ UNCHANGED <<loc, audioIn, audioBuffer, heard, fed>>
      BY <1>4 DEF StartLoop, CallerAt, chanVars, envVars
    <2>2. lpc[own[c]] = "none" /\ lpc \in [Contexts -> LoopLabel]
      BY <2>1 DEF CountInv, FreshContexts, Starting, ReachInv, ControlTypeOK
    <2>3. \A k \in Contexts : Holds(k)' <=> Holds(k)
      BY <2>1, <2>2 DEF Holds
    <2>4. hand' = hand
      BY <2>1, <2>3 DEF hand
    <2> QED  BY <2>1, <2>3, <2>4 DEF AudioTypeOK
  <1>5. CASE FeedAudio
    <2>1. /\ fed' = fed + 1
          /\ audioIn' \in {audioIn, Append(audioIn, fed + 1)}
          /\ UNCHANGED <<lpc, loc, audioBuffer, heard>>
      BY <1>5 DEF FeedAudio, sessVars, loopVars
    <2>2. fed + 1 \in FrameNumbers
      BY DEF AudioTypeOK, FrameNumbers
    <2>3. hand' = hand
      BY <2>1 DEF hand, Holds
    <2>4. audioIn' \in Seq(FrameNumbers) /\ fed' \in Nat
      <3>1. audioIn \in Seq(FrameNumbers) /\ fed \in Nat
        BY DEF AudioTypeOK
      <3>2. Append(audioIn, fed + 1) \in Seq(FrameNumbers)
        BY <2>2, <3>1
      <3>3. audioIn' \in Seq(FrameNumbers)
        BY <2>1, <3>1, <3>2
      <3> QED  BY <2>1, <3>1, <3>3
    <2>5. AudioTypeOK'
      BY <2>1, <2>4 DEF AudioTypeOK, Holds
    <2>6. FramesMove
      BY <2>1, <2>3 DEF FramesMove, Feeds
    <2> QED  BY <2>5, <2>6
  <1>6. CASE TimePasses \/ UNCHANGED vars
    BY <1>1, <1>6 DEF TimePasses, vars, sessVars, chanVars, loopVars, envVars
  <1>7. ASSUME NEW l \in Contexts, LoopStep(l)
        PROVE  AudioTypeOK' /\ FramesMove
    BY <1>7, AudioLoopStep DEF FramesMove
  <1> QED  BY <1>1, <1>2, <1>3, <1>4, <1>5, <1>6, <1>7 DEF Next

----------------------------------------------------------------------------
(* The elements of the sequences the frames pass through.                  *)

LEMMA ElementsOfEmpty == Elements(<< >>) = {}
  BY DEF Elements

LEMMA ElementsOfAppend ==
    ASSUME NEW s \in Seq(FrameNumbers), NEW x \in FrameNumbers
    PROVE  Elements(Append(s, x)) = Elements(s) \cup {x}
  <1>1. /\ DOMAIN Append(s, x) = 1 .. Len(s) + 1 /\ DOMAIN s = 1 .. Len(s)
        /\ Len(s) \in Nat
        /\ \A i \in 1 .. Len(s) : Append(s, x)[i] = s[i]
        /\ Append(s, x)[Len(s) + 1] = x
    OBVIOUS
  <1>2. Elements(Append(s, x)) \subseteq Elements(s) \cup {x}
    BY <1>1 DEF Elements
  <1>3. x \in Elements(Append(s, x))
    BY <1>1 DEF Elements
  <1>4. Elements(s) \subseteq Elements(Append(s, x))
    BY <1>1 DEF Elements
  <1> QED  BY <1>2, <1>3, <1>4

LEMMA ElementsOfTail ==
    ASSUME NEW s \in Seq(FrameNumbers), s # << >>
    PROVE  Head(s) \in Elements(s) /\ Elements(Tail(s)) \subseteq Elements(s)
  <1>1. /\ DOMAIN Tail(s) = 1 .. Len(s) - 1 /\ DOMAIN s = 1 .. Len(s)
        /\ Len(s) \in Nat \ {0} /\ Head(s) = s[1]
        /\ \A i \in 1 .. Len(s) - 1 : Tail(s)[i] = s[i + 1]
    OBVIOUS
  <1>2. Head(s) \in Elements(s)
    BY <1>1 DEF Elements
  <1>3. ASSUME NEW i \in DOMAIN Tail(s)
        PROVE  Tail(s)[i] \in Elements(s)
    <2>1. i + 1 \in DOMAIN s /\ Tail(s)[i] = s[i + 1]
      BY <1>1
    <2> QED  BY <2>1 DEF Elements
  <1> QED  BY <1>2, <1>3 DEF Elements

LEMMA ElementsOfConcat ==
    ASSUME NEW s \in Seq(FrameNumbers), NEW t \in Seq(FrameNumbers)
    PROVE  Elements(s \o t) = Elements(s) \cup Elements(t)
  <1>1. /\ DOMAIN (s \o t) = 1 .. Len(s) + Len(t)
        /\ DOMAIN s = 1 .. Len(s) /\ DOMAIN t = 1 .. Len(t)
        /\ Len(s) \in Nat /\ Len(t) \in Nat
        /\ \A i \in 1 .. Len(s) : (s \o t)[i] = s[i]
        /\ \A i \in 1 .. Len(t) : (s \o t)[Len(s) + i] = t[i]
    OBVIOUS
  <1>2. ASSUME NEW i \in DOMAIN (s \o t)
        PROVE  (s \o t)[i] \in Elements(s) \cup Elements(t)
    <2>1. CASE i <= Len(s)
      BY <1>1, <2>1 DEF Elements
    <2>2. CASE i > Len(s)
      <3>1. i - Len(s) \in DOMAIN t /\ (s \o t)[i] = t[i - Len(s)]
        BY <1>1, <2>2
      <3> QED  BY <3>1 DEF Elements
    <2> QED  BY <1>1, <2>1, <2>2
  <1>3. Elements(s) \subseteq Elements(s \o t)
    BY <1>1 DEF Elements
  <1>4. ASSUME NEW i \in DOMAIN t
        PROVE  t[i] \in Elements(s \o t)
    <2>1. Len(s) + i \in DOMAIN (s \o t) /\ t[i] = (s \o t)[Len(s) + i]
      BY <1>1
    <2> QED  BY <2>1 DEF Elements
  <1>5. Elements(s \o t) \subseteq Elements(s) \cup Elements(t)
    BY <1>2 DEF Elements
  <1>6. Elements(t) \subseteq Elements(s \o t)
    BY <1>4 DEF Elements
  <1> QED  BY <1>3, <1>5, <1>6

LEMMA HandType ==
    ASSUME AudioTypeOK
    PROVE  hand \in [Contexts -> Nat]
  BY DEF AudioTypeOK, AnyLocals, hand

----------------------------------------------------------------------------
(* Any number of callers: a frame is in one place.  A cancelled goroutine  *)
(* may still hold a frame when its successor takes the next ones, so the   *)
(* order of the stream is lost; what remains is that no frame is twice in  *)
(* the channel, in hands, in the buffer or among those recognised.         *)

Distinct(q) == \A i, j \in DOMAIN q : i # j => q[i] # q[j]

OnlyFed ==
    /\ Elements(heard) \subseteq 1 .. fed
    /\ Elements(audioBuffer) \subseteq 1 .. fed
    /\ Elements(audioIn) \subseteq 1 .. fed
    /\ \A l \in Contexts : hand[l] <= fed

NoneTwice == Distinct(heard) /\ Distinct(audioBuffer) /\ Distinct(audioIn)

PlacesApart ==
    /\ Elements(heard) \cap Elements(audioBuffer) = {}
    /\ Elements(heard) \cap Elements(audioIn) = {}
    /\ Elements(audioBuffer) \cap Elements(audioIn) = {}
    /\ \A l \in Contexts :
           hand[l] \notin Elements(heard) \cup Elements(audioBuffer)
                              \cup Elements(audioIn)
    /\ \A l, k \in Contexts : hand[l] = hand[k] => l = k \/ hand[l] = 0

UniqueInv == OnlyFed /\ NoneTwice /\ PlacesApart

LEMMA UniqueInit == Init => UniqueInv
  <1> SUFFICES ASSUME Init PROVE UniqueInv
    OBVIOUS
  <1>1. heard = << >> /\ audioBuffer = << >> /\ audioIn = << >> /\ fed = 0
    BY DEF Init
  <1>2. \A l \in Contexts : hand[l] = 0
    BY DEF Init, hand, Holds
  <1>3. Distinct(<< >>)
    BY DEF Distinct
  <1> QED  BY <1>1, <1>2, <1>3, ElementsOfEmpty DEF UniqueInv, OnlyFed,
              NoneTwice, PlacesApart

LEMMA DistinctAppend ==
    ASSUME NEW s \in Seq(FrameNumbers), NEW x \in FrameNumbers,
           Distinct(s), x \notin Elements(s)
    PROVE  Distinct(Append(s, x))
  <1>1. /\ DOMAIN Append(s, x) = 1 .. Len(s) + 1 /\ DOMAIN s = 1 .. Len(s)
        /\ Len(s) \in Nat
        /\ \A i \in 1 .. Len(s) : Append(s, x)[i] = s[i]
        /\ Append(s, x)[Len(s) + 1] = x
    OBVIOUS
  <1>2. \A i \in 1 .. Len(s) : s[i] # x
    BY <1>1 DEF Elements
  <1> QED  BY <1>1, <1>2 DEF Distinct

LEMMA DistinctTail ==
    ASSUME NEW s \in Seq(FrameNumbers), s # << >>, Distinct(s)
    PROVE  Distinct(Tail(s)) /\ Head(s) \notin Elements(Tail(s))
  <1>1. /\ DOMAIN Tail(s) = 1 .. Len(s) - 1 /\ DOMAIN s = 1 .. Len(s)
        /\ Len(s) \in Nat \ {0} /\ Head(s) = s[1]
        /\ \A i \in 1 .. Len(s) - 1 : Tail(s)[i] = s[i + 1]
    OBVIOUS
  <1>2. Distinct(Tail(s))
    BY <1>1 DEF Distinct
  <1>3. ASSUME NEW i \in DOMAIN Tail(s)
        PROVE  Tail(s)[i] # Head(s)
    BY <1>1 DEF Distinct
  <1> QED  BY <1>2, <1>3 DEF Elements

LEMMA DistinctConcat ==
    ASSUME NEW s \in Seq(FrameNumbers), NEW t \in Seq(FrameNumbers),
           Distinct(s), Distinct(t), Elements(s) \cap Elements(t) = {}
    PROVE  Distinct(s \o t)
  <1>1. /\ DOMAIN (s \o t) = 1 .. Len(s) + Len(t)
        /\ DOMAIN s = 1 .. Len(s) /\ DOMAIN t = 1 .. Len(t)
        /\ Len(s) \in Nat /\ Len(t) \in Nat
        /\ \A i \in 1 .. Len(s) : (s \o t)[i] = s[i]
        /\ \A i \in 1 .. Len(s) + Len(t) :
               i > Len(s) => /\ i - Len(s) \in 1 .. Len(t)
                             /\ (s \o t)[i] = t[i - Len(s)]
    OBVIOUS
  <1>2. \A i \in DOMAIN s, j \in DOMAIN t : s[i] # t[j]
    BY DEF Elements
  <1> SUFFICES ASSUME NEW i \in DOMAIN (s \o t), NEW j \in DOMAIN (s \o t), i # j
               PROVE  (s \o t)[i] # (s \o t)[j]
    BY DEF Distinct
  <1>3. CASE i <= Len(s) /\ j <= Len(s)
    BY <1>1, <1>3 DEF Distinct
  <1>4. CASE i > Len(s) /\ j > Len(s)
    <2>1. i - Len(s) # j - Len(s)
      BY <1>1
    <2> QED  BY <1>1, <1>4, <2>1 DEF Distinct
  <1>5. CASE (i <= Len(s) /\ j > Len(s)) \/ (i > Len(s) /\ j <= Len(s))
    BY <1>1, <1>2, <1>5
  <1> QED  BY <1>1, <1>3, <1>4, <1>5

LEMMA UniqueNext ==
    ReachInv /\ CountInv /\ AudioTypeOK /\ UniqueInv /\ [Next]_vars => UniqueInv'
  <1> SUFFICES ASSUME ReachInv, CountInv, AudioTypeOK, UniqueInv, [Next]_vars
               PROVE  UniqueInv'
    OBVIOUS
  <1>0. /\ fed \in Nat /\ hand \in [Contexts -> Nat]
        /\ heard \in Seq(FrameNumbers) /\ audioBuffer \in Seq(FrameNumbers)
        /\ audioIn \in Seq(FrameNumbers)
    BY HandType DEF AudioTypeOK
  <1>1. CASE UNCHANGED <<hand, audioIn, audioBuffer, heard, fed>>
    BY <1>1 DEF UniqueInv, OnlyFed, NoneTwice, PlacesApart
  <1>2. CASE Feeds
    <2>1. /\ fed' = fed + 1 /\ UNCHANGED <<hand, audioBuffer, heard>>
          /\ audioIn' \in {audioIn, Append(audioIn, fed + 1)}
      BY <1>2 DEF Feeds
    <2>2. fed + 1 \in FrameNumbers /\ fed + 1 \notin Elements(audioIn)
      BY <1>0 DEF UniqueInv, OnlyFed, FrameNumbers
    <2>3. Elements(audioIn') \subseteq Elements(audioIn) \cup {fed + 1}
      BY <1>0, <2>1, <2>2, ElementsOfAppend
    <2>4. Distinct(audioIn')
      BY <1>0, <2>1, <2>2, DistinctAppend DEF UniqueInv, NoneTwice
    <2>5. OnlyFed'
      BY <1>0, <2>1, <2>3 DEF UniqueInv, OnlyFed
    <2>6. PlacesApart'
      BY <1>0, <2>1, <2>3 DEF UniqueInv, OnlyFed, PlacesApart
    <2> QED  BY <2>1, <2>4, <2>5, <2>6 DEF UniqueInv, NoneTwice
  <1>3. ASSUME NEW l \in Contexts, Receives(l)
        PROVE  UniqueInv'
    <2>1. /\ audioIn # << >> /\ audioIn' = Tail(audioIn)
          /\ hand' = [hand EXCEPT ![l] = Head(audioIn)]
          /\ UNCHANGED <<audioBuffer, heard, fed>>
      BY <1>3 DEF Receives
    <2>2. /\ Head(audioIn) \in Elements(audioIn)
          /\ Elements(Tail(audioIn)) \subseteq Elements(audioIn)
      BY <1>0, <2>1, ElementsOfTail
    <2>3. Distinct(Tail(audioIn)) /\ Head(audioIn) \notin Elements(Tail(audioIn))
      BY <1>0, <2>1, DistinctTail DEF UniqueInv, NoneTwice
    <2>4. OnlyFed'
      BY <1>0, <2>1, <2>2 DEF UniqueInv, OnlyFed
    <2>5. PlacesApart'
      BY <1>0, <2>1, <2>2, <2>3 DEF UniqueInv, PlacesApart
    <2> QED  BY <2>1, <2>3, <2>4, <2>5 DEF UniqueInv, NoneTwice
  <1>4. ASSUME NEW l \in Contexts, Accumulates(l)
        PROVE  UniqueInv'
    <2>1. /\ hand[l] # 0 /\ hand' = [hand EXCEPT ![l] = 0]
          /\ audioBuffer' = Append(audioBuffer, hand[l])
          /\ UNCHANGED <<audioIn, heard, fed>>
      BY <1>4 DEF Accumulates
    <2>2. hand[l] \in FrameNumbers
      BY <1>0, <2>1 DEF FrameNumbers
    <2>3. Elements(audioBuffer') = Elements(audioBuffer) \cup {hand[l]}
      BY <1>0, <2>1, <2>2, ElementsOfAppend
    <2>4. Distinct(audioBuffer')
      BY <1>0, <2>1, <2>2, DistinctAppend DEF UniqueInv, NoneTwice, PlacesApart
    <2>5. OnlyFed'
      BY <1>0, <2>1, <2>2, <2>3 DEF UniqueInv, OnlyFed, FrameNumbers
    <2>6. PlacesApart'
      BY <1>0, <2>1, <2>2, <2>3 DEF UniqueInv, OnlyFed, PlacesApart, FrameNumbers
    <2> QED  BY <2>1, <2>4, <2>5, <2>6 DEF UniqueInv, NoneTwice
  <1>5. CASE Recognises
    <2>1. /\ heard' = heard \o audioBuffer /\ audioBuffer' = << >>
          /\ UNCHANGED <<hand, audioIn, fed>>
      BY <1>5 DEF Recognises
    <2>2. /\ Elements(heard') = Elements(heard) \cup Elements(audioBuffer)
          /\ Elements(audioBuffer') = {}
      BY <1>0, <2>1, ElementsOfConcat, ElementsOfEmpty
    <2>3. Distinct(heard')
      BY <1>0, <2>1, DistinctConcat DEF UniqueInv, NoneTwice, PlacesApart
    <2>4. Distinct(audioBuffer')
      BY <2>1 DEF Distinct
    <2>5. OnlyFed' /\ PlacesApart'
      BY <2>1, <2>2 DEF UniqueInv, OnlyFed, PlacesApart
    <2> QED  BY <2>1, <2>3, <2>4, <2>5 DEF UniqueInv, NoneTwice
  <1>6. ASSUME NEW l \in Contexts, Drops(l)
        PROVE  UniqueInv'
    <2>1. /\ hand' \in {hand, [hand EXCEPT ![l] = 0]}
          /\ audioBuffer' \in {audioBuffer, << >>}
          /\ UNCHANGED <<audioIn, heard, fed>>
      BY <1>6 DEF Drops
    <2>2. Elements(audioBuffer') \subseteq Elements(audioBuffer)
      BY <2>1, ElementsOfEmpty
    <2>3. \A k \in Contexts : hand'[k] \in {hand[k], 0}
      BY <1>0, <2>1
    <2>4. Distinct(audioBuffer')
      BY <2>1 DEF Distinct, UniqueInv, NoneTwice
    <2>5. OnlyFed'
      BY <1>0, <2>1, <2>2, <2>3 DEF UniqueInv, OnlyFed
    <2>6. 0 \notin Elements(heard) \cup Elements(audioBuffer) \cup Elements(audioIn)
      BY <1>0 DEF UniqueInv, OnlyFed
    <2>7. \A k \in Contexts :
              hand'[k] \notin Elements(heard') \cup Elements(audioBuffer')
                                  \cup Elements(audioIn')
      BY <2>1, <2>2, <2>3, <2>6 DEF UniqueInv, PlacesApart
    <2>8. \A k, m \in Contexts : hand'[k] = hand'[m] => k = m \/ hand'[k] = 0
      BY <2>3 DEF UniqueInv, PlacesApart
    <2>9. PlacesApart'
      BY <2>1, <2>2, <2>7, <2>8 DEF UniqueInv, PlacesApart
    <2> QED  BY <2>1, <2>4, <2>5, <2>9 DEF UniqueInv, NoneTwice
  <1> QED  BY <1>1, <1>2, <1>3, <1>4, <1>5, <1>6, AudioStep DEF FramesMove,
              FramesOfLoopMove

LEMMA AudioNext ==
    ReachInv /\ CountInv /\ AudioTypeOK /\ [Next]_vars => AudioTypeOK'
  BY AudioStep

(* However calls of Start, Stop and Destroy overlap, and with cancelled    *)
(* goroutines still competing for the frames, no frame is recognised twice *)
(* (session.go:291-304, orchestrate.go:106-155).                           *)
THEOREM HeardOnceCorrect == Spec => []HeardOnce
  <1>1. UniqueInv => HeardOnce
    BY DEF UniqueInv, NoneTwice, Distinct, HeardOnce
  <1> QED  BY <1>1, ReachInit, ReachNext, CountInit, CountNext, AudioInit,
              AudioNext, UniqueInit, UniqueNext, PTL DEF Spec

----------------------------------------------------------------------------
(* One caller: the frames stay in the order of the client's stream.  There *)
(* is at most one hand, so a frame taken from the channel is put into the  *)
(* buffer before the next one is taken.                                    *)

Precede(S, T) == \A x \in S, y \in T : x < y

EachIncreasing ==
    Increasing(heard) /\ Increasing(audioBuffer) /\ Increasing(audioIn)

PlacesInOrder ==
    /\ Precede(Elements(heard), Elements(audioBuffer))
    /\ Precede(Elements(heard), Elements(audioIn))
    /\ Precede(Elements(audioBuffer), Elements(audioIn))

HandsInOrder ==
    \A l \in Contexts : hand[l] # 0 =>
        /\ Precede(Elements(heard), {hand[l]})
        /\ Precede(Elements(audioBuffer), {hand[l]})
        /\ Precede({hand[l]}, Elements(audioIn))

StreamInv == EachIncreasing /\ PlacesInOrder /\ HandsInOrder

LEMMA StreamInit == Init => StreamInv
  <1> SUFFICES ASSUME Init PROVE StreamInv
    OBVIOUS
  <1>1. heard = << >> /\ audioBuffer = << >> /\ audioIn = << >>
    BY DEF Init
  <1>2. \A l \in Contexts : hand[l] = 0
    BY DEF Init, hand, Holds
  <1>3. Increasing(<< >>)
    BY DEF Increasing
  <1> QED  BY <1>1, <1>2, <1>3, ElementsOfEmpty DEF StreamInv, EachIncreasing,
              PlacesInOrder, HandsInOrder, Precede

LEMMA IncreasingAppend ==
    ASSUME NEW s \in Seq(FrameNumbers), NEW x \in FrameNumbers,
           Increasing(s), Precede(Elements(s), {x})
    PROVE  Increasing(Append(s, x))
  <1>1. /\ DOMAIN Append(s, x) = 1 .. Len(s) + 1 /\ DOMAIN s = 1 .. Len(s)
        /\ Len(s) \in Nat
        /\ \A i \in 1 .. Len(s) : Append(s, x)[i] = s[i]
        /\ Append(s, x)[Len(s) + 1] = x
    OBVIOUS
  <1>2. \A i \in 1 .. Len(s) : s[i] < x
    BY <1>1 DEF Elements, Precede
  <1> QED  BY <1>1, <1>2 DEF Increasing

LEMMA IncreasingTail ==
    ASSUME NEW s \in Seq(FrameNumbers), s # << >>, Increasing(s)
    PROVE  Increasing(Tail(s)) /\ Precede({Head(s)}, Elements(Tail(s)))
  <1>1. /\ DOMAIN Tail(s) = 1 .. Len(s) - 1 /\ DOMAIN s = 1 .. Len(s)
        /\ Len(s) \in Nat \ {0} /\ Head(s) = s[1]
        /\ \A i \in 1 .. Len(s) - 1 : Tail(s)[i] = s[i + 1]
    OBVIOUS
  <1>2. Increasing(Tail(s))
    BY <1>1 DEF Increasing
  <1>3. ASSUME NEW i \in DOMAIN Tail(s)
        PROVE  Head(s) < Tail(s)[i]
    BY <1>1 DEF Increasing
  <1> QED  BY <1>2, <1>3 DEF Elements, Precede

LEMMA IncreasingConcat ==
    ASSUME NEW s \in Seq(FrameNumbers), NEW t \in Seq(FrameNumbers),
           Increasing(s), Increasing(t), Precede(Elements(s), Elements(t))
    PROVE  Increasing(s \o t)
  <1>1. /\ DOMAIN (s \o t) = 1 .. Len(s) + Len(t)
        /\ DOMAIN s = 1 .. Len(s) /\ DOMAIN t = 1 .. Len(t)
        /\ Len(s) \in Nat /\ Len(t) \in Nat
        /\ \A i \in 1 .. Len(s) : (s \o t)[i] = s[i]
        /\ \A i \in 1 .. Len(s) + Len(t) :
               i > Len(s) => /\ i - Len(s) \in 1 .. Len(t)
                             /\ (s \o t)[i] = t[i - Len(s)]
    OBVIOUS
  <1>2. \A i \in DOMAIN s, j \in DOMAIN t : s[i] < t[j]
    BY DEF Elements, Precede
  <1> SUFFICES ASSUME NEW i \in DOMAIN (s \o t), NEW j \in DOMAIN (s \o t), i < j
               PROVE  (s \o t)[i] < (s \o t)[j]
    BY DEF Increasing
  <1>3. CASE j <= Len(s)
    BY <1>1, <1>3 DEF Increasing
  <1>4. CASE i > Len(s)
    <2>1. i - Len(s) < j - Len(s) /\ j > Len(s)
      BY <1>1, <1>4
    <2> QED  BY <1>1, <1>4, <2>1 DEF Increasing
  <1>5. CASE i <= Len(s) /\ j > Len(s)
    BY <1>1, <1>2, <1>5
  <1> QED  BY <1>1, <1>3, <1>4, <1>5

LEMMA StreamNext ==
    /\ ReachInv /\ CountInv /\ SerialInv
    /\ AudioTypeOK /\ UniqueInv /\ StreamInv /\ [Next]_vars
    => StreamInv'
  <1> SUFFICES ASSUME ReachInv, CountInv, SerialInv, AudioTypeOK, UniqueInv,
                      StreamInv, [Next]_vars
               PROVE  StreamInv'
    OBVIOUS
  <1>0. /\ fed \in Nat /\ hand \in [Contexts -> Nat]
        /\ heard \in Seq(FrameNumbers) /\ audioBuffer \in Seq(FrameNumbers)
        /\ audioIn \in Seq(FrameNumbers)
    BY HandType DEF AudioTypeOK
  <1>1. CASE UNCHANGED <<hand, audioIn, audioBuffer, heard, fed>>
    BY <1>1 DEF StreamInv, EachIncreasing, PlacesInOrder, HandsInOrder
  <1>2. CASE Feeds
    <2>1. /\ fed' = fed + 1 /\ UNCHANGED <<hand, audioBuffer, heard>>
          /\ audioIn' \in {audioIn, Append(audioIn, fed + 1)}
      BY <1>2 DEF Feeds
    <2>2. /\ fed + 1 \in FrameNumbers
          /\ Precede(Elements(heard), {fed + 1})
          /\ Precede(Elements(audioBuffer), {fed + 1})
          /\ Precede(Elements(audioIn), {fed + 1})
          /\ \A l \in Contexts : hand[l] < fed + 1
      BY <1>0 DEF UniqueInv, OnlyFed, FrameNumbers, Precede
    <2>3. Elements(audioIn') \subseteq Elements(audioIn) \cup {fed + 1}
      BY <1>0, <2>1, <2>2, ElementsOfAppend
    <2>4. Increasing(audioIn')
      BY <1>0, <2>1, <2>2, IncreasingAppend DEF StreamInv, EachIncreasing
    <2>5. PlacesInOrder' /\ HandsInOrder'
      BY <2>1, <2>2, <2>3 DEF StreamInv, PlacesInOrder, HandsInOrder, Precede
    <2> QED  BY <2>1, <2>4, <2>5 DEF StreamInv, EachIncreasing
  <1>3. ASSUME NEW l \in Contexts, Receives(l)
        PROVE  StreamInv'
    <2>1. /\ hand[l] = 0 /\ audioIn # << >> /\ audioIn' = Tail(audioIn)
          /\ hand' = [hand EXCEPT ![l] = Head(audioIn)]
          /\ UNCHANGED <<audioBuffer, heard, fed>>
      BY <1>3 DEF Receives
    <2>2. /\ Head(audioIn) \in Elements(audioIn)
          /\ Elements(Tail(audioIn)) \subseteq Elements(audioIn)
      BY <1>0, <2>1, ElementsOfTail
    <2>3. /\ Increasing(Tail(audioIn))
          /\ Precede({Head(audioIn)}, Elements(Tail(audioIn)))
      BY <1>0, <2>1, IncreasingTail DEF StreamInv, EachIncreasing
    <2>4. \A k \in Contexts : hand'[k] # 0 => k = l /\ hand'[k] = Head(audioIn)
      <3>1. \A k \in Contexts : hand[k] # 0 => Running(k)
        BY DEF hand, Holds, Running
      <3>2. \A k \in Contexts : hand[k] = 0
        BY <1>3, <2>1, <3>1 DEF Receives, SerialInv, OneLoopRuns
      <3> QED  BY <1>0, <2>1, <3>2
    <2>5. PlacesInOrder'
      BY <2>1, <2>2 DEF StreamInv, PlacesInOrder, Precede
    <2>6. HandsInOrder'
      BY <2>1, <2>2, <2>3, <2>4 DEF StreamInv, PlacesInOrder, HandsInOrder,
         Precede
    <2> QED  BY <2>1, <2>3, <2>5, <2>6 DEF StreamInv, EachIncreasing
  <1>4. ASSUME NEW l \in Contexts, Accumulates(l)
        PROVE  StreamInv'
    <2>1. /\ hand[l] # 0 /\ hand' = [hand EXCEPT ![l] = 0]
          /\ audioBuffer' = Append(audioBuffer, hand[l])
          /\ UNCHANGED <<audioIn, heard, fed>>
      BY <1>4 DEF Accumulates
    <2>2. hand[l] \in FrameNumbers
      BY <1>0, <2>1 DEF FrameNumbers
    <2>3. Elements(audioBuffer') = Elements(audioBuffer) \cup {hand[l]}
      BY <1>0, <2>1, <2>2, ElementsOfAppend
    <2>4. Increasing(audioBuffer')
      BY <1>0, <2>1, <2>2, IncreasingAppend DEF StreamInv, EachIncreasing,
         HandsInOrder
    <2>5. PlacesInOrder'
      BY <2>1, <2>3 DEF StreamInv, PlacesInOrder, HandsInOrder, Precede
    <2>6. \A k \in Contexts : hand'[k] = 0
      <3>1. \A k \in Contexts : hand[k] # 0 => Running(k)
        BY DEF hand, Holds, Running
      <3>2. \A k \in Contexts \ {l} : hand[k] = 0
        BY <2>1, <3>1 DEF SerialInv, OneLoopRuns
      <3> QED  BY <1>0, <2>1, <3>2
    <2>7. HandsInOrder'
      BY <2>6 DEF HandsInOrder
    <2> QED  BY <2>1, <2>4, <2>5, <2>7 DEF StreamInv, EachIncreasing
  <1>5. CASE Recognises
    <2>1. /\ heard' = heard \o audioBuffer /\ audioBuffer' = << >>
          /\ UNCHANGED <<hand, audioIn, fed>>
      BY <1>5 DEF Recognises
    <2>2. /\ Elements(heard') = Elements(heard) \cup Elements(audioBuffer)
          /\ Elements(audioBuffer') = {}
      BY <1>0, <2>1, ElementsOfConcat, ElementsOfEmpty
    <2>3. Increasing(heard')
      BY <1>0, <2>1, IncreasingConcat DEF StreamInv, EachIncreasing,
         PlacesInOrder
    <2>4. Increasing(audioBuffer')
      BY <2>1 DEF Increasing
    <2>5. PlacesInOrder' /\ HandsInOrder'
      BY <2>1, <2>2 DEF StreamInv, PlacesInOrder, HandsInOrder, Precede
    <2> QED  BY <2>1, <2>3, <2>4, <2>5 DEF StreamInv, EachIncreasing
  <1>6. ASSUME NEW l \in Contexts, Drops(l)
        PROVE  StreamInv'
    <2>1. /\ hand' \in {hand, [hand EXCEPT ![l] = 0]}
          /\ audioBuffer' \in {audioBuffer, << >>}
          /\ UNCHANGED <<audioIn, heard, fed>>
      BY <1>6 DEF Drops
    <2>2. Elements(audioBuffer') \subseteq Elements(audioBuffer)
      BY <2>1, ElementsOfEmpty
    <2>3. \A k \in Contexts : hand'[k] \in {hand[k], 0}
      BY <1>0, <2>1
    <2>4. Increasing(audioBuffer')
      BY <2>1 DEF Increasing, StreamInv, EachIncreasing
    <2>5. PlacesInOrder' /\ HandsInOrder'
      BY <2>1, <2>2, <2>3 DEF StreamInv, PlacesInOrder, HandsInOrder, Precede
    <2> QED  BY <2>1, <2>4, <2>5 DEF StreamInv, EachIncreasing
  <1> QED  BY <1>1, <1>2, <1>3, <1>4, <1>5, <1>6, AudioStep DEF FramesMove,
              FramesOfLoopMove

LEMMA StreamGivesOrder ==
    ASSUME AudioTypeOK, StreamInv
    PROVE  PipelineInOrder
  <1>1. /\ heard \in Seq(FrameNumbers) /\ audioBuffer \in Seq(FrameNumbers)
        /\ audioIn \in Seq(FrameNumbers)
        /\ heard \o audioBuffer \in Seq(FrameNumbers)
    BY DEF AudioTypeOK
  <1>2. /\ Increasing(heard \o audioBuffer)
        /\ Elements(heard \o audioBuffer) = Elements(heard) \cup Elements(audioBuffer)
    BY <1>1, IncreasingConcat, ElementsOfConcat DEF StreamInv, EachIncreasing,
       PlacesInOrder
  <1>3. Precede(Elements(heard \o audioBuffer), Elements(audioIn))
    BY <1>2 DEF StreamInv, PlacesInOrder, Precede
  <1>4. Increasing((heard \o audioBuffer) \o audioIn)
    BY <1>1, <1>2, <1>3, IncreasingConcat DEF StreamInv, EachIncreasing
  <1>5. ASSUME NEW f \in InHand
        PROVE  /\ \A i \in DOMAIN (heard \o audioBuffer) :
                      (heard \o audioBuffer)[i] < f
               /\ \A i \in DOMAIN audioIn : f < audioIn[i]
    <2>1. PICK l \in Contexts : hand[l] = f /\ f # 0
      BY DEF InHand, AudioTypeOK, hand, Holds
    <2>2. /\ Precede(Elements(heard \o audioBuffer), {f})
          /\ Precede({f}, Elements(audioIn))
      BY <1>2, <2>1 DEF StreamInv, HandsInOrder, Precede
    <2> QED  BY <2>2 DEF Precede, Elements
  <1> QED  BY <1>4, <1>5 DEF PipelineInOrder

(* With one caller, what was recognised, what is accumulated, the frame in *)
(* hand and what waits in the channel follow each other in the order in    *)
(* which the client fed them, across failed turns, full channels and any   *)
(* number of restarts (orchestrate.go:54-61, 106-155).                     *)
THEOREM PipelineInOrderCorrect ==
    ASSUME SingleCaller PROVE Spec => []PipelineInOrder
  <1>1. AudioTypeOK /\ StreamInv => PipelineInOrder
    BY StreamGivesOrder
  <1> QED  BY <1>1, ReachInit, ReachNext, CountInit, CountNext, SerialInit,
              SerialNext, AudioInit, AudioNext, UniqueInit, UniqueNext,
              StreamInit, StreamNext, PTL DEF Spec

----------------------------------------------------------------------------
(* The turn manager alone, under its observer (TurnEndpoints), for every   *)
(* configuration: any positive frame counts and durations.                 *)

LEMMA AgeCapType == AgeCap \in Nat /\ AgeCap >= MaxTurnDuration
BY ConfigAssumption DEF AgeCap

(* The manager's counters and the observer's runs keep their ranges: no    *)
(* counter reaches the threshold at which it would have fired              *)
(* (turn.go:156-204).                                                      *)
THEOREM EndpointTypeCorrect == EndpointSpec => []EndpointTypeOK
<1>1. EndpointInit => EndpointTypeOK
  BY ConfigAssumption, AgeCapType
     DEF EndpointInit, NewTurnManager, EndpointTypeOK, TurnTypeOK, TurnState, NoEvent
<1>2. EndpointTypeOK /\ [EndpointNext]_endpointVars => EndpointTypeOK'
  <2> SUFFICES ASSUME EndpointTypeOK, [EndpointNext]_endpointVars PROVE EndpointTypeOK'
    OBVIOUS
  <2> USE ConfigAssumption, AgeCapType DEF EndpointTypeOK, TurnTypeOK, TurnState
  <2>1. ASSUME NEW speaking \in BOOLEAN, Frame(speaking) PROVE EndpointTypeOK'
    <3> PICK ev \in TurnEvent \cup {NoEvent} :
            /\ Process(speaking, ev)
            /\ lastEvent' = ev
            /\ speechRun' = IF speaking
                            THEN Saturate(speechRun + 1, SpeechStartFrames)
                            ELSE 0
            /\ silenceRun' = IF speaking THEN 0
                             ELSE Saturate(silenceRun + 1, SilenceEndFrames)
      BY <2>1 DEF Frame
    <3>1. /\ speechRun' \in 0 .. SpeechStartFrames
          /\ silenceRun' \in 0 .. SilenceEndFrames
          /\ lastEvent' \in TurnEvent \cup {NoEvent}
      BY DEF Saturate
    <3>2. CASE IdleSpeech(speaking, ev)
      BY <3>1, <3>2 DEF IdleSpeech
    <3>3. CASE OpenTurn(speaking, ev)
      BY <3>1, <3>3 DEF OpenTurn
    <3>4. CASE IdleSilence(speaking, ev)
      BY <3>1, <3>4 DEF IdleSilence
    <3>5. CASE CloseOnSilence(speaking, ev) \/ CloseOnTimeout(speaking, ev)
      BY <3>1, <3>5 DEF CloseOnSilence, CloseOnTimeout, BackToIdle
    <3>6. CASE KeepListening(speaking, ev)
      BY <3>1, <3>6 DEF KeepListening
    <3> QED
      BY <3>2, <3>3, <3>4, <3>5, <3>6 DEF Process
  <2>2. CASE ResetTurn
    BY <2>2 DEF ResetTurn, Reset, BackToIdle
  <2>3. CASE TurnAges
    BY <2>3 DEF TurnAges, Tick
  <2>4. CASE UNCHANGED endpointVars
    BY <2>4 DEF endpointVars
  <2> QED
    BY <2>1, <2>2, <2>3, <2>4 DEF EndpointNext
<1> QED
  BY <1>1, <1>2, PTL DEF EndpointSpec

(* Before a frame that opens or closes a turn, the counter of the manager  *)
(* is covered by the run of equal verdicts the observer has seen           *)
(* (turn.go:163-184).  This is the inductive invariant behind the next     *)
(* theorem: without it the thresholds say nothing of the stream.           *)
THEOREM CountersCorrect == EndpointSpec => []CountersAreRuns
<1>1. EndpointInit => CountersAreRuns
  BY DEF EndpointInit, NewTurnManager, CountersAreRuns
<1>2. EndpointTypeOK /\ CountersAreRuns /\ [EndpointNext]_endpointVars => CountersAreRuns'
  <2> SUFFICES ASSUME EndpointTypeOK, CountersAreRuns, [EndpointNext]_endpointVars
               PROVE CountersAreRuns'
    OBVIOUS
  <2> USE ConfigAssumption, AgeCapType DEF EndpointTypeOK, TurnTypeOK, CountersAreRuns
  <2>1. ASSUME NEW speaking \in BOOLEAN, Frame(speaking)
        PROVE CountersAreRuns'
    BY <2>1 DEF Frame, Process, Saturate, IdleSpeech, OpenTurn, IdleSilence,
                CloseOnSilence, CloseOnTimeout, BackToIdle, KeepListening
  <2>2. CASE ResetTurn
    BY <2>2 DEF ResetTurn, Reset, BackToIdle
  <2>3. CASE TurnAges
    BY <2>3 DEF TurnAges, Tick
  <2>4. CASE UNCHANGED endpointVars
    BY <2>4 DEF endpointVars
  <2> QED
    BY <2>1, <2>2, <2>3, <2>4 DEF EndpointNext
<1> QED
  BY <1>1, <1>2, EndpointTypeCorrect, PTL DEF EndpointSpec

(* Every event the manager emits stands at an endpoint of the verdict      *)
(* stream, whatever came before it: resets, noise turns, timeouts          *)
(* (turn.go:165-200).                                                      *)
THEOREM EventsCorrect == EndpointSpec => EventsAreEndpoints
<1>1. EndpointTypeOK /\ CountersAreRuns /\ [EndpointNext]_endpointVars => [EventIsEndpoint]_endpointVars
  <2> SUFFICES ASSUME EndpointTypeOK, CountersAreRuns, EndpointNext
               PROVE  EventIsEndpoint
    OBVIOUS
  <2> USE ConfigAssumption, AgeCapType
      DEF EndpointTypeOK, TurnTypeOK, CountersAreRuns, EventIsEndpoint, NoEvent
  <2>1. ASSUME NEW speaking \in BOOLEAN, Frame(speaking)
        PROVE EventIsEndpoint
    BY <2>1 DEF Frame, Process, Saturate, IdleSpeech, OpenTurn, IdleSilence,
                CloseOnSilence, CloseOnTimeout, BackToIdle, KeepListening
  <2>2. CASE ResetTurn
    BY <2>2 DEF ResetTurn
  <2>3. CASE TurnAges
    BY <2>3 DEF TurnAges
  <2> QED
    BY <2>1, <2>2, <2>3 DEF EndpointNext
<1> QED
  BY <1>1, EndpointTypeCorrect, CountersCorrect, PTL DEF EndpointSpec, EventsAreEndpoints

----------------------------------------------------------------------------
(* Any number of callers: the capacities.  What the types say beyond the   *)
(* invariants above is that the channels stay within their capacities,     *)
(* that the turn manager, which all goroutines share, keeps its counters   *)
(* below their thresholds, and that a playback does not run past the end   *)
(* of the reply: FrameTimer counts down at the label "pace", which only a  *)
(* goroutine with something left reaches.                                  *)

TokensOK ==
    /\ Len(audioIn) <= QueueCap
    /\ speechEndCh \in 0 .. 1 /\ bargeInCh \in 0 .. 1
    /\ bargeInFlag \in BOOLEAN /\ speakCancel \in Contexts \cup {NoCtx}

StatesOK ==
    /\ state \in SessionState /\ clientState \in SessionState
    /\ notify \in [Threads -> SessionState \cup {Silent}]

RequestsOK ==
    /\ ctxDone \subseteq Contexts /\ closed \in BOOLEAN
    /\ op \in [Callers -> {"Stop", "Destroy"}]
    /\ fed <= MaxFeeds

PlaybackOK ==
    \A l \in Contexts : /\ loc[l].frame <= MaxFeeds
                        /\ loc[l].left \in 0 .. MaxReply
                        /\ lpc[l] = "pace" => loc[l].left > 0

CapacityInv == TokensOK /\ StatesOK /\ RequestsOK /\ PlaybackOK /\ TurnTypeOK

LEMMA CapacityInit == Init => CapacityInv
  <1> SUFFICES ASSUME Init PROVE CapacityInv
    OBVIOUS
  <1> USE BoundsAssumption, ConfigAssumption, AgeCapType DEF Init
  <1>1. TokensOK
    <2>1. audioIn = << >> /\ speechEndCh = 0 /\ bargeInCh = 0 /\ speakCancel = NoCtx
      OBVIOUS
    <2>2. bargeInFlag \in BOOLEAN
      BY Zenon
    <2> QED  BY <2>1, <2>2 DEF TokensOK
  <1>2. StatesOK
    BY DEF StatesOK, SessionState
  <1>5. RequestsOK
    <2>1. closed \in BOOLEAN
      BY Zenon
    <2> QED  BY <2>1 DEF RequestsOK
  <1>3. PlaybackOK
    BY DEF PlaybackOK, NewLocals
  <1>4. TurnTypeOK
    BY DEF NewTurnManager, TurnTypeOK, TurnState
  <1> QED  BY <1>1, <1>2, <1>3, <1>4, <1>5 DEF CapacityInv

LEMMA ProcessKeepsTypes ==
    ASSUME TurnTypeOK, NEW speaking, NEW ev, Process(speaking, ev)
    PROVE  TurnTypeOK'
  <1> USE ConfigAssumption, AgeCapType DEF TurnTypeOK, TurnState
  <1>1. CASE IdleSpeech(speaking, ev)
    BY <1>1 DEF IdleSpeech
  <1>2. CASE OpenTurn(speaking, ev)
    BY <1>2 DEF OpenTurn
  <1>3. CASE IdleSilence(speaking, ev)
    BY <1>3 DEF IdleSilence
  <1>4. CASE CloseOnSilence(speaking, ev) \/ CloseOnTimeout(speaking, ev)
    BY <1>4 DEF CloseOnSilence, CloseOnTimeout, BackToIdle
  <1>5. CASE KeepListening(speaking, ev)
    BY <1>5 DEF KeepListening
  <1> QED  BY <1>1, <1>2, <1>3, <1>4, <1>5 DEF Process

LEMMA TurnLoopStep ==
    ASSUME TurnTypeOK, NEW l \in Contexts, LoopStep(l)
    PROVE  TurnTypeOK'
  <1>1. CASE UNCHANGED turnVars
    BY <1>1 DEF turnVars, TurnTypeOK
  <1>2. CASE ProcessFrame(l)
    BY <1>2, ProcessKeepsTypes DEF ProcessFrame
  <1>3. CASE LoopExit(l) \/ RecvFrame(l) \/ RecvSpeechEnd(l) \/ RecvBargeIn(l)
    BY <1>1, <1>3 DEF LoopExit, RecvFrame, RecvSpeechEnd, RecvBargeIn
  <1>4. CASE HandleFrame(l)
    BY <1>1, <1>2, <1>4 DEF HandleFrame, VadError, FrameWhileSpeaking,
       FrameWhileListening, AppendAudio, OnTurnEvent
  <1>5. CASE HandleTurn(l)
    BY <1>1, <1>5 DEF HandleTurn, DrainAudio, Think, AsrFails, AsrDone, LlmDone,
       PluginDone, LlmOrTtsFails, TtsDone, Listen
  <1>6. CASE Speak(l)
    BY <1>1, <1>6 DEF Speak, SpeakBegin, SendFrame, FrameTimer, SpeakReturns,
       PaceInterrupted, Spoken
  <1> QED  BY <1>3, <1>4, <1>5, <1>6 DEF LoopStep

LEMMA TokensLoopStep ==
    ASSUME AudioTypeOK, TokensOK, NEW l \in Contexts, LoopStep(l)
    PROVE  TokensOK'
  <1> USE BoundsAssumption DEF TokensOK
  <1>1. CASE UNCHANGED chanVars
    BY <1>1 DEF chanVars
  <1>2. CASE RecvFrame(l)
    <2>1. audioIn # << >> /\ audioIn' = Tail(audioIn) /\ audioIn \in Seq(FrameNumbers)
          /\ UNCHANGED <<speechEndCh, bargeInCh, bargeInFlag, speakCancel>>
      BY <1>2 DEF RecvFrame, AudioTypeOK
    <2>2. Len(audioIn') = Len(audioIn) - 1 /\ Len(audioIn) \in Nat
      BY <2>1
    <2> QED  BY <2>1, <2>2
  <1>3. CASE LoopExit(l) \/ RecvSpeechEnd(l) \/ RecvBargeIn(l)
    BY <1>3 DEF LoopExit, RecvSpeechEnd, RecvBargeIn
  <1>4. CASE HandleFrame(l)
    <2>1. /\ UNCHANGED <<audioIn, speakCancel>>
          /\ speechEndCh' \in {speechEndCh, 1} /\ bargeInCh' \in {bargeInCh, 1}
      BY <1>4 DEF HandleFrame, VadError, FrameWhileSpeaking, BargeIn,
         FrameWhileListening, AppendAudio, ProcessFrame, OnTurnEvent, chanVars
    <2>2. bargeInFlag' = bargeInFlag \/ bargeInFlag' = TRUE
      BY <1>4, Zenon DEF HandleFrame, VadError, FrameWhileSpeaking, BargeIn,
         FrameWhileListening, AppendAudio, ProcessFrame, OnTurnEvent, chanVars
    <2>3. bargeInFlag' \in BOOLEAN
      BY <2>2, Zenon
    <2> QED  BY <2>1, <2>3
  <1>5. CASE HandleTurn(l)
    BY <1>1, <1>5 DEF HandleTurn, DrainAudio, Think, AsrFails, AsrDone, LlmDone,
       PluginDone, LlmOrTtsFails, TtsDone, Listen
  <1>6. CASE Speak(l)
    <2>1. /\ UNCHANGED <<audioIn, speechEndCh>>
          /\ bargeInCh' \in {bargeInCh, 0} /\ speakCancel' \in {speakCancel, l, NoCtx}
      BY <1>6 DEF Speak, SpeakBegin, SendFrame, FrameTimer, SpeakReturns,
         PaceInterrupted, Spoken, chanVars
    <2>2. bargeInFlag' = bargeInFlag \/ bargeInFlag' = FALSE
      BY <1>6, Zenon DEF Speak, SpeakBegin, SendFrame, FrameTimer, SpeakReturns,
         PaceInterrupted, Spoken, chanVars
    <2>3. bargeInFlag' \in BOOLEAN
      BY <2>2, Zenon
    <2> QED  BY <2>1, <2>3
  <1> QED  BY <1>2, <1>3, <1>4, <1>5, <1>6 DEF LoopStep

(* Only a goroutine's own steps change its frame and what is left of its   *)
(* reply: LoopExit of another one sets its cut and nothing else.           *)
LEMMA PlaybackLoopStep ==
    ASSUME ReachInv, AudioTypeOK, UniqueInv, CapacityInv,
           NEW l \in Contexts, LoopStep(l)
    PROVE  PlaybackOK'
  <1> USE BoundsAssumption DEF LoopAt
  <1>0. /\ lpc \in [Contexts -> LoopLabel] /\ loc \in [Contexts -> AnyLocals]
        /\ PlaybackOK
    BY DEF ReachInv, ControlTypeOK, AudioTypeOK, CapacityInv
  <1>1. CASE LoopExit(l)
    <2>1. /\ lpc' = [lpc EXCEPT ![l] = "exited"]
          /\ loc' = [k \in Contexts |->
                        IF k = speakCancel THEN [loc[k] EXCEPT !.cut = TRUE]
                                           ELSE loc[k]]
      BY <1>1 DEF LoopExit
    <2>2. \A k \in Contexts : loc'[k].frame = loc[k].frame /\ loc'[k].left = loc[k].left
      BY <1>0, <2>1 DEF AnyLocals
    <2> QED  BY <1>0, <2>1, <2>2 DEF PlaybackOK
  <1>2. ASSUME NEW next \in LoopLabel, NEW new, lpc' = [lpc EXCEPT ![l] = next],
               loc' = [loc EXCEPT ![l] = new],
               new.frame <= MaxFeeds, new.left \in 0 .. MaxReply,
               next = "pace" => new.left > 0
        PROVE  PlaybackOK'
    BY <1>0, <1>2 DEF PlaybackOK
  <1>3. CASE RecvFrame(l)
    <2>1. /\ lpc' = [lpc EXCEPT ![l] = "frame"] /\ audioIn # << >>
          /\ loc' = [loc EXCEPT ![l] = [loc[l] EXCEPT !.frame = Head(audioIn)]]
      BY <1>0, <1>3 DEF RecvFrame
    <2>2. Head(audioIn) = audioIn[1] /\ 1 \in DOMAIN audioIn
      BY <2>1 DEF AudioTypeOK
    <2>3. Head(audioIn) \in 1 .. fed /\ fed \in Nat /\ fed <= MaxFeeds
      BY <2>2 DEF UniqueInv, OnlyFed, Elements, AudioTypeOK, CapacityInv, RequestsOK
    <2>4. /\ [loc[l] EXCEPT !.frame = Head(audioIn)].frame = Head(audioIn)
          /\ [loc[l] EXCEPT !.frame = Head(audioIn)].left = loc[l].left
      BY <1>0 DEF AnyLocals
    <2>5. Head(audioIn) <= MaxFeeds /\ loc[l].left \in 0 .. MaxReply
      BY <1>0, <2>3 DEF PlaybackOK
    <2>6. "frame" \in LoopLabel
      BY DEF LoopLabel
    <2> QED  BY <1>2, <2>1, <2>4, <2>5, <2>6
  <1>4. CASE VadError(l) \/ OnTurnEvent(l) \/ Listen(l)
              \/ \E loud \in BOOLEAN : FrameWhileSpeaking(l, loud)
    <2>1. /\ lpc' = [lpc EXCEPT ![l] = "select"]
          /\ loc' = [loc EXCEPT ![l] = NewLocals]
      BY <1>4 DEF VadError, OnTurnEvent, Listen, FrameWhileSpeaking, Forget
    <2>2. NewLocals.frame = 0 /\ NewLocals.left = 0 /\ "select" \in LoopLabel
      BY DEF NewLocals, LoopLabel
    <2> QED  BY <1>0, <2>1, <2>2 DEF PlaybackOK
  <1>5. ASSUME NEW speaking \in BOOLEAN, FrameWhileListening(l, speaking)
        PROVE  PlaybackOK'
    <2>1. /\ lpc' = [lpc EXCEPT ![l] = "append"]
          /\ loc' = [loc EXCEPT ![l].speaking = speaking]
      BY <1>5 DEF FrameWhileListening
    <2> QED  BY <1>0, <2>1 DEF AnyLocals, PlaybackOK
  <1>6. CASE ProcessFrame(l)
    <2>1. PICK ev \in TurnEvent \cup {NoEvent} :
              /\ lpc' = [lpc EXCEPT ![l] = IF ev = NoEvent THEN "select" ELSE "event"]
              /\ IF ev = NoEvent THEN Forget(l) ELSE loc' = [loc EXCEPT ![l].ev = ev]
      BY <1>6 DEF ProcessFrame
    <2>2. CASE loc' = [loc EXCEPT ![l] = NewLocals]
      BY <1>0, <2>1, <2>2 DEF NewLocals, PlaybackOK
    <2>3. CASE loc' = [loc EXCEPT ![l].ev = ev]
      BY <1>0, <2>1, <2>3 DEF AnyLocals, PlaybackOK
    <2> QED  BY <2>1, <2>2, <2>3 DEF Forget
  <1>7. ASSUME NEW n \in 0 .. MaxReply, TtsDone(l, n)
        PROVE  PlaybackOK'
    <2>1. /\ lpc' = [lpc EXCEPT ![l] = "speak"]
          /\ loc' = [loc EXCEPT ![l] = [loc[l] EXCEPT !.left = n, !.cut = FALSE]]
      BY <1>0, <1>7 DEF TtsDone
    <2>2. /\ [loc[l] EXCEPT !.left = n, !.cut = FALSE].frame = loc[l].frame
          /\ [loc[l] EXCEPT !.left = n, !.cut = FALSE].left = n
      BY <1>0 DEF AnyLocals
    <2>3. loc[l].frame <= MaxFeeds /\ "speak" \in LoopLabel
      BY <1>0 DEF PlaybackOK, LoopLabel
    <2> QED  BY <1>2, <2>1, <2>2, <2>3
  <1>8. CASE FrameTimer(l)
    <2>1. /\ lpc[l] = "pace" /\ lpc' = [lpc EXCEPT ![l] = "send"]
          /\ loc' = [loc EXCEPT ![l] = [loc[l] EXCEPT !.left = loc[l].left - 1]]
      BY <1>0, <1>8 DEF FrameTimer
    <2>2. /\ [loc[l] EXCEPT !.left = loc[l].left - 1].frame = loc[l].frame
          /\ [loc[l] EXCEPT !.left = loc[l].left - 1].left = loc[l].left - 1
      BY <1>0 DEF AnyLocals
    <2>3. loc[l].frame <= MaxFeeds /\ loc[l].left - 1 \in 0 .. MaxReply
      BY <1>0, <2>1 DEF PlaybackOK
    <2>4. "send" \in LoopLabel
      BY DEF LoopLabel
    <2> QED  BY <1>2, <2>1, <2>2, <2>3, <2>4
  <1>9. CASE SendFrame(l)
    <2>1. lpc' = [lpc EXCEPT ![l] = "pace"] /\ loc' = loc /\ loc[l].left > 0
      BY <1>9 DEF SendFrame
    <2> QED  BY <1>0, <2>1 DEF PlaybackOK
  <1>10. CASE \/ RecvSpeechEnd(l) \/ RecvBargeIn(l) \/ AppendAudio(l)
              \/ DrainAudio(l) \/ Think(l) \/ AsrFails(l) \/ AsrDone(l)
              \/ LlmDone(l) \/ LlmOrTtsFails(l) \/ SpeakBegin(l)
              \/ SpeakReturns(l) \/ PaceInterrupted(l) \/ Spoken(l)
    <2>1. /\ loc' = loc
          /\ \E next \in LoopLabel \ {"pace"} : lpc' = [lpc EXCEPT ![l] = next]
      BY <1>10 DEF RecvSpeechEnd, RecvBargeIn, AppendAudio, DrainAudio, Think,
         AsrFails, AsrDone, LlmDone, PluginDone, LlmOrTtsFails, SpeakBegin,
         SpeakReturns, PaceInterrupted, Spoken, LoopLabel
    <2> QED  BY <1>0, <2>1 DEF PlaybackOK
  <1> QED  BY <1>1, <1>3, <1>4, <1>5, <1>6, <1>7, <1>8, <1>9, <1>10
              DEF LoopStep, HandleFrame, HandleTurn, Speak

LEMMA SetStateTypes ==
    ASSUME StatesOK, NEW t \in Threads, NEW s \in SessionState, SetState(t, s),
           clientState' = clientState
    PROVE  StatesOK'
  BY DEF StatesOK, SetState

LEMMA CapacityLoopStep ==
    ASSUME ReachInv, AudioTypeOK, UniqueInv, CapacityInv,
           NEW l \in Contexts, LoopStep(l)
    PROVE  CapacityInv'
  <1>1. TokensOK' /\ TurnTypeOK' /\ PlaybackOK'
    BY TokensLoopStep, TurnLoopStep, PlaybackLoopStep DEF CapacityInv
  <1>2. StatesOK'
    <2>1. /\ clientState' = clientState /\ l \in Threads
          /\ UNCHANGED <<state, notify>> \/ \E s \in SessionState : SetState(l, s)
      BY LoopStepSetsState DEF Threads
    <2> QED  BY <2>1, SetStateTypes DEF CapacityInv, StatesOK
  <1>3. UNCHANGED <<ctxDone, closed, op, fed>>
    <2> USE DEF sessVars, callVars, envVars
    <2>1. CASE LoopExit(l) \/ RecvFrame(l) \/ RecvSpeechEnd(l) \/ RecvBargeIn(l)
      BY <2>1 DEF LoopExit, RecvFrame, RecvSpeechEnd, RecvBargeIn
    <2>2. CASE HandleFrame(l)
      BY <2>2 DEF HandleFrame, VadError, FrameWhileSpeaking, FrameWhileListening,
         AppendAudio, ProcessFrame, OnTurnEvent
    <2>3. CASE HandleTurn(l)
      BY <2>3 DEF HandleTurn, DrainAudio, Think, AsrFails, AsrDone, LlmDone,
         PluginDone, LlmOrTtsFails, TtsDone, Listen
    <2>4. CASE Speak(l)
      BY <2>4 DEF Speak, SpeakBegin, SendFrame, FrameTimer, SpeakReturns,
         PaceInterrupted, Spoken
    <2> QED  BY <2>1, <2>2, <2>3, <2>4 DEF LoopStep
  <1> QED  BY <1>1, <1>2, <1>3 DEF CapacityInv, RequestsOK

LEMMA CapacityCallerStep ==
    ASSUME ReachInv, CountInv, CapacityInv, NEW c \in Callers, CallerStep(c)
    PROVE  CapacityInv'
  <1> USE BoundsAssumption DEF CapacityInv, chanVars, loopVars, obsVars, envVars, sessVars
  <1>0. c \in Threads
    BY DEF Threads
  <1>1. UNCHANGED <<audioIn, speechEndCh, bargeInCh, bargeInFlag, speakCancel,
                    loc, fed, turnVars>>
    BY DEF CallerStep, StartContext, StartListening, StartLoop, StopCancel,
       StopWait, StopIdle, DestroyClose
  <1>2. TokensOK' /\ TurnTypeOK'
    BY <1>1 DEF TokensOK, TurnTypeOK, turnVars
  <1>3. \A l \in Contexts : lpc'[l] = lpc[l] \/ lpc'[l] = "select"
    BY DEF CallerStep, StartContext, StartListening, StartLoop, StopCancel,
       StopWait, StopIdle, DestroyClose, ReachInv, ControlTypeOK
  <1>4. PlaybackOK'
    BY <1>1, <1>3 DEF PlaybackOK
  <1>5. StatesOK'
    <2>1. /\ clientState' = clientState
          /\ UNCHANGED <<state, notify>> \/ \E s \in SessionState : SetState(c, s)
      BY DEF CallerStep, StartContext, StartListening, StartLoop, StopCancel,
         StopWait, StopIdle, DestroyClose, SessionState
    <2> QED  BY <1>0, <2>1, SetStateTypes DEF StatesOK
  <1>6. RequestsOK'
    <2>1. op' = op \/ \E o \in {"Stop", "Destroy"} : op' = [op EXCEPT ![c] = o]
      BY DEF CallerStep, StartContext, StartListening, StartLoop, StopCancel,
         StopWait, StopIdle, DestroyClose
    <2>2. op' \in [Callers -> {"Stop", "Destroy"}]
      BY <2>1 DEF RequestsOK
    <2>3. ctxDone' = ctxDone \/ ctxDone' = ctxDone \cup ({cancel} \ {NoCtx})
      BY DEF CallerStep, StartContext, StartListening, StartLoop, StopCancel,
         StopWait, StopIdle, DestroyClose
    <2>4. ctxDone' \subseteq Contexts
      <3>1. {cancel} \ {NoCtx} \subseteq Contexts
        BY DEF ReachInv, ControlTypeOK, NoCtx, Contexts
      <3>2. ctxDone \subseteq Contexts
        BY DEF RequestsOK
      <3> QED  BY <2>3, <3>1, <3>2
    <2>5. closed' = closed \/ closed' = TRUE
      BY Zenon DEF CallerStep, StartContext, StartListening, StartLoop, StopCancel,
         StopWait, StopIdle, DestroyClose
    <2>6. closed' \in BOOLEAN
      BY <2>5, Zenon DEF RequestsOK
    <2> QED  BY <1>1, <2>2, <2>4, <2>6 DEF RequestsOK
  <1> QED  BY <1>2, <1>4, <1>5, <1>6

LEMMA CapacityNext ==
    ReachInv /\ CountInv /\ AudioTypeOK /\ UniqueInv /\ CapacityInv /\ [Next]_vars
        => CapacityInv'
  <1> SUFFICES ASSUME ReachInv, CountInv, AudioTypeOK, UniqueInv, CapacityInv, [Next]_vars
               PROVE  CapacityInv'
    OBVIOUS
  <1> USE DEF sessVars, chanVars, callVars, loopVars, obsVars, envVars
  <1>1. ASSUME NEW t \in Threads, SendState(t)
        PROVE  CapacityInv'
    <2>1. /\ UNCHANGED <<sessVars, chanVars, callVars, loopVars, envVars, turnVars>>
          /\ notify[t] # Silent /\ clientState' = notify[t]
          /\ notify' = [notify EXCEPT ![t] = Silent]
      BY <1>1 DEF SendState
    <2>2. StatesOK'
      BY <1>1, <2>1 DEF CapacityInv, StatesOK
    <2> QED  BY <2>1, <2>2 DEF CapacityInv, TokensOK, RequestsOK, PlaybackOK,
                TurnTypeOK, turnVars
  <1>2. CASE FeedAudio
    <2>1. /\ UNCHANGED <<sessVars, speechEndCh, bargeInCh, bargeInFlag, speakCancel,
                         callVars, loopVars, obsVars, turnVars>>
          /\ fed < MaxFeeds /\ fed' = fed + 1
          /\ audioIn' = IF Len(audioIn) < QueueCap THEN Append(audioIn, fed + 1)
                                                   ELSE audioIn
      BY <1>2 DEF FeedAudio
    <2>2. fed' <= MaxFeeds
      BY <2>1, BoundsAssumption DEF AudioTypeOK
    <2>3. Len(audioIn') <= QueueCap
      <3>1. audioIn \in Seq(FrameNumbers) /\ fed + 1 \in FrameNumbers
        BY DEF AudioTypeOK, FrameNumbers
      <3>2. Len(Append(audioIn, fed + 1)) = Len(audioIn) + 1 /\ Len(audioIn) \in Nat
        BY <3>1
      <3> QED  BY <2>1, <3>2, BoundsAssumption DEF CapacityInv, TokensOK
    <2> QED  BY <2>1, <2>2, <2>3 DEF CapacityInv, TokensOK, StatesOK, RequestsOK,
                PlaybackOK, TurnTypeOK, turnVars
  <1>3. CASE TimePasses
    <2>1. TurnTypeOK'
      BY <1>3, AgeCapType DEF TimePasses, Tick, CapacityInv, TurnTypeOK, TurnState
    <2> QED  BY <1>3, <2>1 DEF TimePasses, CapacityInv, TokensOK, StatesOK,
                RequestsOK, PlaybackOK
  <1>4. CASE UNCHANGED vars
    BY <1>4 DEF vars, CapacityInv, TokensOK, StatesOK, RequestsOK, PlaybackOK,
       TurnTypeOK, turnVars
  <1> QED  BY <1>1, <1>2, <1>3, <1>4, CapacityCallerStep, CapacityLoopStep DEF Next

(* A sequence keeps the type its elements have.                            *)
LEMMA ElementsGiveType ==
    ASSUME NEW q \in Seq(FrameNumbers), Elements(q) \subseteq 1 .. fed,
           fed \in Nat, fed <= MaxFeeds
    PROVE  q \in Seq(Frames)
  <1>1. \A i \in 1 .. Len(q) : q[i] \in Frames
    BY BoundsAssumption DEF Elements, Frames
  <1> QED  BY <1>1

LEMMA InvariantsGiveTypes ==
    ReachInv /\ CountInv /\ AudioTypeOK /\ UniqueInv /\ CapacityInv => TypeOK
  <1> SUFFICES ASSUME ReachInv, CountInv, AudioTypeOK, UniqueInv, CapacityInv
               PROVE  TypeOK
    OBVIOUS
  <1>1. wg \in 0 .. MaxStarts
    <2>1. IsFiniteSet(Contexts) /\ Cardinality(Contexts) = MaxStarts
      BY FS_Interval, BoundsAssumption DEF Contexts
    <2>2. /\ IsFiniteSet(RunningLoops) /\ Cardinality(RunningLoops) \in Nat
          /\ Cardinality(RunningLoops) <= Cardinality(Contexts)
      BY <2>1, FS_Subset, FS_CardinalityType DEF RunningLoops
    <2> QED  BY <2>1, <2>2, BoundsAssumption DEF CountInv, WaitGroupCountsLoops, RunningLoops
  <1>2. audioBuffer \in Seq(Frames) /\ audioIn \in Seq(Frames) /\ heard \in Seq(Frames)
    BY ElementsGiveType DEF AudioTypeOK, UniqueInv, OnlyFed, CapacityInv, RequestsOK
  <1>3. loc \in [Contexts -> Locals]
    BY BoundsAssumption DEF AudioTypeOK, AnyLocals, Locals, CapacityInv, PlaybackOK
  <1>4. /\ cancel \in Contexts \cup {NoCtx} /\ own \in [Callers -> Contexts \cup {NoCtx}]
        /\ pc \in [Callers -> CallerLabel] /\ lpc \in [Contexts -> LoopLabel]
        /\ starts \in 0 .. MaxStarts
    BY BoundsAssumption DEF ReachInv, ControlTypeOK, Contexts, NoCtx
  <1>5. fed \in 0 .. MaxFeeds
    BY BoundsAssumption DEF AudioTypeOK, CapacityInv, RequestsOK
  <1>6. closed \in BOOLEAN /\ bargeInFlag \in BOOLEAN
    BY Zenon DEF CapacityInv, RequestsOK, TokensOK
  <1> QED  BY <1>1, <1>2, <1>3, <1>4, <1>5, <1>6, Zenon DEF TypeOK, CapacityInv,
              TokensOK, StatesOK, RequestsOK

(* However the calls overlap: the channels stay within their capacities,   *)
(* the wait group never falls below zero, the counters of the turn manager *)
(* that old and new goroutines share stay below their thresholds, and a    *)
(* playback stops at the end of its reply (session.go:216-224, 263-288,    *)
(* orchestrate.go:52-79, 88-93, 238-302).                                  *)
THEOREM TypeCorrect == Spec => []TypeOK
  BY InvariantsGiveTypes, ReachInit, ReachNext, CountInit, CountNext, AudioInit,
     AudioNext, UniqueInit, UniqueNext, CapacityInit, CapacityNext, PTL DEF Spec
============================================================================
