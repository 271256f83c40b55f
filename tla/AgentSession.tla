---------------------------- MODULE AgentSession ----------------------------
(***************************************************************************)
(* A voice agent session: pkg/control/session.go and orchestrate.go, with  *)
(* the turn manager of turn.go.                                            *)
(*                                                                         *)
(* Threads: the callers of Start, Stop and Destroy, and one goroutine per  *)
(* Start that runs AgentLoop.Run.  A goroutine is named by the context it  *)
(* was started with, 1, 2, ...  All goroutines of a session share the same *)
(* AgentLoop, hence its channels, its barge-in flag and its turn manager.  *)
(* A step ends wherever the code releases a lock, blocks, or touches       *)
(* another shared variable.                                                *)
(*                                                                         *)
(* A frame of user audio is its position in the client's stream.  The      *)
(* plugins (detector, ASR, LLM, TTS) and the sink are external: each call  *)
(* may fail or return any of its results, whether or not the context it    *)
(* was given has been cancelled.                                           *)
(***************************************************************************)
EXTENDS TurnManager, Sequences, FiniteSets

CONSTANTS
    Callers,    \* threads that call Start, Stop and Destroy
    QueueCap,   \* capacity of audioIn (256 in the code)
    MaxStarts,  \* bound: successful calls of Start
    MaxFeeds,   \* bound: frames the client feeds
    MaxReply    \* bound: playback frames of one synthesized reply

ASSUME BoundsAssumption ==
    /\ QueueCap \in Nat \ {0}
    /\ MaxStarts \in Nat
    /\ MaxFeeds \in Nat
    /\ MaxReply \in Nat
    /\ Callers \cap (0 .. MaxStarts) = {}

SessionState == {"Idle", "Listening", "Thinking", "Speaking"}

NoCtx == 0
Contexts == 1 .. MaxStarts
Threads == Callers \cup Contexts
Frames == 1 .. MaxFeeds
Silent == "silent"   \* a thread that owes the client no state event

VARIABLES
    \* AgentSession
    state,        \* SessionState
    cancel,       \* the context that Stop would cancel, or NoCtx
    ctxDone,      \* cancelled contexts
    wg,           \* wait group counter
    closed,
    audioBuffer,  \* frames accumulated for the next recognition
    \* AgentLoop
    audioIn,      \* channel of frames
    speechEndCh,  \* tokens in the channel, 0 or 1
    bargeInCh,    \* tokens in the channel, 0 or 1
    bargeInFlag,
    speakCancel,  \* the goroutine whose playback cancelSpeaking cancels
    \* control of the threads
    pc, op, own,  \* per caller: program counter, operation, new context
    lpc, loc,     \* per goroutine: program counter and local variables
    notify,       \* per thread: the state event setState has yet to send
    \* environment and history
    starts,       \* contexts created so far
    fed,          \* frames fed so far
    clientState,  \* the state the client was told last
    heard         \* frames handed to recognition, in order

sessVars == <<state, cancel, ctxDone, wg, closed, audioBuffer>>
chanVars == <<audioIn, speechEndCh, bargeInCh, bargeInFlag, speakCancel>>
callVars == <<pc, op, own>>
loopVars == <<lpc, loc>>
obsVars == <<notify, clientState>>
envVars == <<starts, fed, heard>>
vars == <<sessVars, chanVars, callVars, loopVars, obsVars, envVars, turnVars>>

NewLocals ==
    [frame |-> 0, speaking |-> FALSE, ev |-> NoEvent, left |-> 0, cut |-> FALSE]

Init ==
    /\ state = "Idle" /\ cancel = NoCtx /\ ctxDone = {} /\ wg = 0
    /\ closed = FALSE /\ audioBuffer = << >>
    /\ audioIn = << >> /\ speechEndCh = 0 /\ bargeInCh = 0
    /\ bargeInFlag = FALSE /\ speakCancel = NoCtx
    /\ pc = [c \in Callers |-> "idle"]
    /\ op = [c \in Callers |-> "Stop"]
    /\ own = [c \in Callers |-> NoCtx]
    /\ lpc = [l \in Contexts |-> "none"]
    /\ loc = [l \in Contexts |-> NewLocals]
    /\ notify = [t \in Threads |-> Silent]
    /\ clientState = "Idle"
    /\ starts = 0 /\ fed = 0 /\ heard = << >>
    /\ NewTurnManager

----------------------------------------------------------------------------
(* setState: the assignment, under the session's mutex; the event goes out *)
(* after the mutex is released, by SendState.                              *)

(* Slip: returning to Listening is not announced.                          *)
SetStateQuietly(t, s) ==
    /\ state' = s
    /\ notify' = IF state = s \/ s = "Listening" THEN notify
                                                 ELSE [notify EXCEPT ![t] = s]

SetState(t, s) ==
    /\ state' = s
    /\ notify' = IF state = s THEN notify ELSE [notify EXCEPT ![t] = s]

SendState(t) ==
    /\ notify[t] # Silent
    /\ clientState' = notify[t]
    /\ notify' = [notify EXCEPT ![t] = Silent]
    /\ UNCHANGED <<sessVars, chanVars, callVars, loopVars, envVars, turnVars>>

----------------------------------------------------------------------------
(* The callers.  A Start that is refused (closed, or already started)      *)
(* returns an error and changes nothing.                                   *)

CallerAt(c, at, next) ==
    /\ pc[c] = at
    /\ notify[c] = Silent
    /\ pc' = [pc EXCEPT ![c] = next]

(* Slip: Start forgets to check that the session is not started already.   *)
StartContextTwice(c) ==
    /\ CallerAt(c, "idle", "started")
    /\ ~closed
    /\ starts < MaxStarts
    /\ starts' = starts + 1
    /\ cancel' = starts + 1
    /\ own' = [own EXCEPT ![c] = starts + 1]
    /\ UNCHANGED <<state, ctxDone, wg, closed, audioBuffer, chanVars, op,
                   loopVars, obsVars, fed, heard, turnVars>>

(* Slip: Start forgets to check that the session has not been destroyed.   *)
StartContextClosed(c) ==
    /\ CallerAt(c, "idle", "started")
    /\ cancel = NoCtx
    /\ starts < MaxStarts
    /\ starts' = starts + 1
    /\ cancel' = starts + 1
    /\ own' = [own EXCEPT ![c] = starts + 1]
    /\ UNCHANGED <<state, ctxDone, wg, closed, audioBuffer, chanVars, op,
                   loopVars, obsVars, fed, heard, turnVars>>

StartContext(c) ==
    /\ CallerAt(c, "idle", "started")
    /\ ~closed
    /\ cancel = NoCtx
    /\ starts < MaxStarts
    /\ starts' = starts + 1
    /\ cancel' = starts + 1
    /\ own' = [own EXCEPT ![c] = starts + 1]
    /\ UNCHANGED <<state, ctxDone, wg, closed, audioBuffer, chanVars, op,
                   loopVars, obsVars, fed, heard, turnVars>>

StartListening(c) ==
    /\ CallerAt(c, "started", "launch")
    /\ SetState(c, "Listening")
    /\ UNCHANGED <<cancel, ctxDone, wg, closed, audioBuffer, chanVars, op, own,
                   loopVars, clientState, envVars, turnVars>>

(* wg.Add and the go statement.  Nothing another thread does between the   *)
(* two differs from what it does after both: a Wait waits either way.      *)
StartLoop(c) ==
    /\ CallerAt(c, "launch", "idle")
    /\ wg' = wg + 1
    /\ lpc' = [lpc EXCEPT ![own[c]] = "select"]
    /\ own' = [own EXCEPT ![c] = NoCtx]
    /\ UNCHANGED <<state, cancel, ctxDone, closed, audioBuffer, chanVars, op,
                   loc, obsVars, envVars, turnVars>>

StopCancel(c, o) ==
    /\ CallerAt(c, "idle", "wait")
    /\ op' = [op EXCEPT ![c] = o]
    /\ ctxDone' = ctxDone \cup ({cancel} \ {NoCtx})
    /\ cancel' = NoCtx
    /\ UNCHANGED <<state, wg, closed, audioBuffer, chanVars, own, loopVars,
                   obsVars, envVars, turnVars>>

(* Slip: Stop does not wait for the goroutine.                             *)
StopNoWait(c) ==
    /\ CallerAt(c, "wait", "stopped")
    /\ UNCHANGED <<sessVars, chanVars, op, own, loopVars, obsVars, envVars,
                   turnVars>>

StopWait(c) ==
    /\ CallerAt(c, "wait", "stopped")
    /\ wg = 0
    /\ UNCHANGED <<sessVars, chanVars, op, own, loopVars, obsVars, envVars,
                   turnVars>>

StopIdle(c) ==
    /\ CallerAt(c, "stopped", IF op[c] = "Destroy" THEN "close" ELSE "idle")
    /\ SetState(c, "Idle")
    /\ op' = [op EXCEPT ![c] = "Stop"]
    /\ UNCHANGED <<cancel, ctxDone, wg, closed, audioBuffer, chanVars, own,
                   loopVars, clientState, envVars, turnVars>>

DestroyClose(c) ==
    /\ CallerAt(c, "close", "idle")
    /\ closed' = TRUE
    /\ UNCHANGED <<state, cancel, ctxDone, wg, audioBuffer, chanVars, op, own,
                   loopVars, obsVars, envVars, turnVars>>

(* FeedAudio never blocks: a frame that finds the channel full is dropped. *)
FeedAudio ==
    /\ fed < MaxFeeds
    /\ fed' = fed + 1
    /\ audioIn' = IF Len(audioIn) < QueueCap THEN Append(audioIn, fed + 1)
                                             ELSE audioIn
    /\ UNCHANGED <<sessVars, speechEndCh, bargeInCh, bargeInFlag, speakCancel,
                   callVars, loopVars, obsVars, starts, heard, turnVars>>

----------------------------------------------------------------------------
(* AgentLoop.Run: the select of goroutine l takes any case that is ready.  *)

LoopAt(l, at, next) ==
    /\ lpc[l] = at
    /\ notify[l] = Silent
    /\ lpc' = [lpc EXCEPT ![l] = next]

Done(l) == l \in ctxDone

(* The locals of a handler die when it returns to the select.              *)
Forget(l) == loc' = [loc EXCEPT ![l] = NewLocals]

(* Slip: the goroutine returns without wg.Done.                            *)
LoopExitUncounted(l) ==
    /\ LoopAt(l, "select", "exited")
    /\ Done(l)
    /\ UNCHANGED <<sessVars, chanVars, callVars, loc, obsVars, envVars,
                   turnVars>>

(* ctx.Done: cancelSpeaking cancels whatever playback is registered.       *)
LoopExit(l) ==
    /\ LoopAt(l, "select", "exited")
    /\ Done(l)
    /\ wg' = wg - 1
    /\ speakCancel' = NoCtx
    /\ loc' = [k \in Contexts |->
                  IF k = speakCancel THEN [loc[k] EXCEPT !.cut = TRUE]
                                     ELSE loc[k]]
    /\ UNCHANGED <<state, cancel, ctxDone, closed, audioBuffer, audioIn,
                   speechEndCh, bargeInCh, bargeInFlag, callVars, obsVars,
                   envVars, turnVars>>

RecvFrame(l) ==
    /\ LoopAt(l, "select", "frame")
    /\ audioIn # << >>
    /\ loc' = [loc EXCEPT ![l].frame = Head(audioIn)]
    /\ audioIn' = Tail(audioIn)
    /\ UNCHANGED <<sessVars, speechEndCh, bargeInCh, bargeInFlag, speakCancel,
                   callVars, obsVars, envVars, turnVars>>

(* Slip: the signal is looked at and left in the channel.                  *)
PeekSpeechEnd(l) ==
    /\ LoopAt(l, "select", "drain")
    /\ speechEndCh = 1
    /\ UNCHANGED <<sessVars, chanVars, callVars, loc, obsVars, envVars,
                   turnVars>>

RecvSpeechEnd(l) ==
    /\ LoopAt(l, "select", "drain")
    /\ speechEndCh = 1
    /\ speechEndCh' = 0
    /\ UNCHANGED <<sessVars, audioIn, bargeInCh, bargeInFlag, speakCancel,
                   callVars, loc, obsVars, envVars, turnVars>>

RecvBargeIn(l) ==
    /\ LoopAt(l, "select", "select")
    /\ bargeInCh = 1
    /\ bargeInCh' = 0
    /\ UNCHANGED <<sessVars, audioIn, speechEndCh, bargeInFlag, speakCancel,
                   callVars, loc, obsVars, envVars, turnVars>>

----------------------------------------------------------------------------
(* handleAudioFrame                                                        *)

BargeIn ==
    /\ bargeInFlag' = TRUE
    /\ bargeInCh' = 1

VadError(l) ==
    /\ LoopAt(l, "frame", "select")
    /\ Forget(l)
    /\ UNCHANGED <<sessVars, chanVars, callVars, obsVars, envVars, turnVars>>

(* A frame examined during playback is never accumulated; loud speech      *)
(* interrupts the playback.                                                *)
FrameWhileSpeaking(l, loud) ==
    /\ LoopAt(l, "frame", "select")
    /\ state = "Speaking"
    /\ IF loud THEN BargeIn ELSE UNCHANGED <<bargeInFlag, bargeInCh>>
    /\ Forget(l)
    /\ UNCHANGED <<sessVars, audioIn, speechEndCh, speakCancel, callVars,
                   obsVars, envVars, turnVars>>

FrameWhileListening(l, speaking) ==
    /\ LoopAt(l, "frame", "append")
    /\ state # "Speaking"
    /\ loc' = [loc EXCEPT ![l].speaking = speaking]
    /\ UNCHANGED <<sessVars, chanVars, callVars, obsVars, envVars, turnVars>>

(* Slip: the frame is stored before and after the detector has seen it.    *)
AppendAudioTwice(l) ==
    /\ LoopAt(l, "append", "process")
    /\ audioBuffer' = audioBuffer \o <<loc[l].frame, loc[l].frame>>
    /\ UNCHANGED <<state, cancel, ctxDone, wg, closed, chanVars, callVars, loc,
                   obsVars, envVars, turnVars>>

AppendAudio(l) ==
    /\ LoopAt(l, "append", "process")
    /\ audioBuffer' = Append(audioBuffer, loc[l].frame)
    /\ UNCHANGED <<state, cancel, ctxDone, wg, closed, chanVars, callVars, loc,
                   obsVars, envVars, turnVars>>

(* TurnManager.Process, which runs the callback after releasing its lock.  *)
ProcessFrame(l) ==
    \E ev \in TurnEvent \cup {NoEvent} :
        /\ LoopAt(l, "process", IF ev = NoEvent THEN "select" ELSE "event")
        /\ Process(loc[l].speaking, ev)
        /\ IF ev = NoEvent THEN Forget(l) ELSE loc' = [loc EXCEPT ![l].ev = ev]
        /\ UNCHANGED <<sessVars, chanVars, callVars, obsVars, envVars>>

OnTurnEvent(l) ==
    /\ LoopAt(l, "event", "select")
    /\ IF loc[l].ev = "SpeechStart"
       THEN /\ IF state = "Speaking" THEN BargeIn
                                     ELSE UNCHANGED <<bargeInFlag, bargeInCh>>
            /\ UNCHANGED speechEndCh
       ELSE /\ speechEndCh' = 1
            /\ UNCHANGED <<bargeInFlag, bargeInCh>>
    /\ Forget(l)
    /\ UNCHANGED <<sessVars, audioIn, speakCancel, callVars, obsVars, envVars,
                   turnVars>>

----------------------------------------------------------------------------
(* handleTurn: recognition, generation, synthesis, playback.               *)

(* Slip: the accumulated audio is read and kept.                           *)
CopyAudio(l) ==
    /\ LoopAt(l, "drain", IF audioBuffer = << >> THEN "select" ELSE "think")
    /\ heard' = heard \o audioBuffer
    /\ UNCHANGED <<sessVars, chanVars, callVars, loc, obsVars, starts, fed,
                   turnVars>>

DrainAudio(l) ==
    /\ LoopAt(l, "drain", IF audioBuffer = << >> THEN "select" ELSE "think")
    /\ heard' = heard \o audioBuffer
    /\ audioBuffer' = << >>
    /\ UNCHANGED <<state, cancel, ctxDone, wg, closed, chanVars, callVars, loc,
                   obsVars, starts, fed, turnVars>>

Think(l) ==
    /\ LoopAt(l, "think", "asr")
    /\ SetState(l, "Thinking")
    /\ UNCHANGED <<cancel, ctxDone, wg, closed, audioBuffer, chanVars, callVars,
                   loc, clientState, envVars, turnVars>>

AsrFails(l) ==
    /\ LoopAt(l, "asr", "listen")
    /\ audioBuffer' = << >>
    /\ UNCHANGED <<state, cancel, ctxDone, wg, closed, chanVars, callVars, loc,
                   obsVars, envVars, turnVars>>

(* Recognition and generation each end with a look at the barge-in flag,   *)
(* which is consumed and abandons the turn.                                *)
PluginDone(l, at, next) ==
    /\ LoopAt(l, at, IF bargeInFlag THEN "listen" ELSE next)
    /\ bargeInFlag' = FALSE
    /\ UNCHANGED <<sessVars, audioIn, speechEndCh, bargeInCh, speakCancel,
                   callVars, loc, obsVars, envVars, turnVars>>

AsrDone(l) == PluginDone(l, "asr", "llm")
LlmDone(l) == PluginDone(l, "llm", "tts")

LlmOrTtsFails(l) ==
    /\ \/ LoopAt(l, "llm", "listen")
       \/ LoopAt(l, "tts", "listen")
    /\ UNCHANGED <<sessVars, chanVars, callVars, loc, obsVars, envVars,
                   turnVars>>

TtsDone(l, n) ==
    /\ LoopAt(l, "tts", "speak")
    /\ loc' = [loc EXCEPT ![l].left = n, ![l].cut = FALSE]
    /\ SetState(l, "Speaking")
    /\ UNCHANGED <<cancel, ctxDone, wg, closed, audioBuffer, chanVars, callVars,
                   clientState, envVars, turnVars>>

----------------------------------------------------------------------------
(* speak: one step per select and per check.                               *)

SpeakBegin(l) ==
    /\ LoopAt(l, "speak", IF loc[l].left = 0 THEN "spoken" ELSE "send")
    /\ speakCancel' = IF loc[l].left = 0 THEN speakCancel ELSE l
    /\ UNCHANGED <<sessVars, audioIn, speechEndCh, bargeInCh, bargeInFlag,
                   callVars, loc, obsVars, envVars, turnVars>>

SpeakCut(l) == Done(l) \/ loc[l].cut

SendFrame(l) ==
    /\ LoopAt(l, "send", "pace")
    /\ loc[l].left > 0 /\ ~bargeInFlag /\ ~SpeakCut(l)
    /\ UNCHANGED <<sessVars, chanVars, callVars, loc, obsVars, envVars,
                   turnVars>>

(* Slip: the offset into the reply does not advance.                       *)
FrameTimerStuck(l) ==
    /\ LoopAt(l, "pace", "send")
    /\ UNCHANGED <<sessVars, chanVars, callVars, loc, obsVars, envVars,
                   turnVars>>

FrameTimer(l) ==
    /\ LoopAt(l, "pace", "send")
    /\ loc' = [loc EXCEPT ![l].left = @ - 1]
    /\ UNCHANGED <<sessVars, chanVars, callVars, obsVars, envVars, turnVars>>

(* The playback ends: all sent, interrupted, cancelled, or SendAudio       *)
(* failed, which it may do at any frame.                                   *)
SpeakReturns(l) ==
    /\ LoopAt(l, "send", "spoken")
    /\ speakCancel' = NoCtx
    /\ UNCHANGED <<sessVars, audioIn, speechEndCh, bargeInCh, bargeInFlag,
                   callVars, loc, obsVars, envVars, turnVars>>

PaceInterrupted(l) ==
    /\ LoopAt(l, "pace", "spoken")
    /\ \/ SpeakCut(l) /\ UNCHANGED bargeInCh
       \/ bargeInCh = 1 /\ bargeInCh' = 0
    /\ speakCancel' = NoCtx
    /\ UNCHANGED <<sessVars, audioIn, speechEndCh, bargeInFlag, callVars, loc,
                   obsVars, envVars, turnVars>>

Spoken(l) ==
    /\ LoopAt(l, "spoken", "listen")
    /\ bargeInFlag' = FALSE
    /\ UNCHANGED <<sessVars, audioIn, speechEndCh, bargeInCh, speakCancel,
                   callVars, loc, obsVars, envVars, turnVars>>

(* Slip: the session stays in the state the turn left it in.               *)
ReturnWithoutListening(l) ==
    /\ LoopAt(l, "listen", "select")
    /\ Forget(l)
    /\ UNCHANGED <<sessVars, chanVars, callVars, obsVars, envVars, turnVars>>

(* Every path of handleTurn ends here.                                     *)
Listen(l) ==
    /\ LoopAt(l, "listen", "select")
    /\ SetState(l, "Listening")
    /\ Forget(l)
    /\ UNCHANGED <<cancel, ctxDone, wg, closed, audioBuffer, chanVars, callVars,
                   clientState, envVars, turnVars>>

----------------------------------------------------------------------------
CallerStep(c) ==
    \/ StartContext(c) \/ StartListening(c) \/ StartLoop(c)
    \/ \E o \in {"Stop", "Destroy"} : StopCancel(c, o)
    \/ StopWait(c) \/ StopIdle(c) \/ DestroyClose(c)

HandleFrame(l) ==
    \/ VadError(l)
    \/ \E loud \in BOOLEAN : FrameWhileSpeaking(l, loud)
    \/ \E speaking \in BOOLEAN : FrameWhileListening(l, speaking)
    \/ AppendAudio(l) \/ ProcessFrame(l) \/ OnTurnEvent(l)

HandleTurn(l) ==
    \/ DrainAudio(l) \/ Think(l) \/ AsrFails(l) \/ AsrDone(l) \/ LlmDone(l)
    \/ LlmOrTtsFails(l) \/ \E n \in 0 .. MaxReply : TtsDone(l, n)
    \/ Listen(l)

Speak(l) ==
    \/ SpeakBegin(l) \/ SendFrame(l) \/ FrameTimer(l)
    \/ SpeakReturns(l) \/ PaceInterrupted(l) \/ Spoken(l)

LoopStep(l) ==
    \/ LoopExit(l) \/ RecvFrame(l) \/ RecvSpeechEnd(l) \/ RecvBargeIn(l)
    \/ HandleFrame(l) \/ HandleTurn(l) \/ Speak(l)

TimePasses ==
    /\ Tick
    /\ UNCHANGED <<sessVars, chanVars, callVars, loopVars, obsVars, envVars>>

Next ==
    \/ \E t \in Threads : SendState(t)
    \/ \E c \in Callers : CallerStep(c)
    \/ \E l \in Contexts : LoopStep(l)
    \/ FeedAudio
    \/ TimePasses

Spec == Init /\ [][Next]_vars

(* A call in progress and a goroutine that can move are scheduled; plugin  *)
(* calls return, being bounded by the timeouts of runASR, runLLM, runTTS.  *)
(* Go's select chooses at random among the ready cases, so a loop that     *)
(* keeps coming back to it takes ctx.Done in the end: strong fairness.     *)
Fairness ==
    /\ \A t \in Threads : WF_vars(SendState(t))
    /\ \A c \in Callers : WF_vars(pc[c] # "idle" /\ CallerStep(c))
    /\ \A l \in Contexts : WF_vars(LoopStep(l)) /\ SF_vars(LoopExit(l))

FairSpec == Spec /\ Fairness

----------------------------------------------------------------------------
Running(l) == lpc[l] \notin {"none", "exited"}

CallerLabel == {"idle", "started", "launch", "wait", "stopped", "close"}

LoopLabel == {"none", "select", "frame", "append", "process", "event", "drain",
              "think", "asr", "llm", "tts", "speak", "send", "pace", "spoken",
              "listen", "exited"}

Locals == [frame : 0 .. MaxFeeds, speaking : BOOLEAN,
           ev : TurnEvent \cup {NoEvent}, left : 0 .. MaxReply, cut : BOOLEAN]

TypeOK ==
    /\ state \in SessionState /\ clientState \in SessionState
    /\ cancel \in Contexts \cup {NoCtx} /\ ctxDone \subseteq Contexts
    /\ wg \in 0 .. MaxStarts /\ closed \in BOOLEAN
    /\ audioBuffer \in Seq(Frames) /\ audioIn \in Seq(Frames)
    /\ heard \in Seq(Frames)
    /\ Len(audioIn) <= QueueCap
    /\ speechEndCh \in 0 .. 1 /\ bargeInCh \in 0 .. 1
    /\ bargeInFlag \in BOOLEAN /\ speakCancel \in Contexts \cup {NoCtx}
    /\ pc \in [Callers -> CallerLabel]
    /\ op \in [Callers -> {"Stop", "Destroy"}]
    /\ own \in [Callers -> Contexts \cup {NoCtx}]
    /\ lpc \in [Contexts -> LoopLabel]
    /\ loc \in [Contexts -> Locals]
    /\ notify \in [Threads -> SessionState \cup {Silent}]
    /\ starts \in 0 .. MaxStarts /\ fed \in 0 .. MaxFeeds
    /\ TurnTypeOK

(* Any number of callers ************************************************)

(* No goroutine is out of reach: one whose context is still live is the    *)
(* one the next Stop cancels, so there is at most one, however Start, Stop *)
(* and Destroy interleave (session.go:206-213 and 238-241).                *)
LiveLoopIsReachable ==
    \A l \in Contexts : Running(l) /\ ~Done(l) => cancel = l

(* A session that says it is thinking or speaking has a goroutine that is  *)
(* in a turn and will say otherwise when the turn ends: no interleaving of *)
(* two loops with Start, Stop and Destroy leaves the session in a state    *)
(* nobody ends (orchestrate.go:136-215, session.go:180-197, 214, 245).     *)
InTurn(l) == lpc[l] \in {"asr", "llm", "tts", "speak", "send", "pace",
                         "spoken", "listen"}

BusyMeansTurn ==
    state \in {"Thinking", "Speaking"} => \E l \in Contexts : InTurn(l)

(* A frame the client fed is recognised at most once, even when a loop     *)
(* that has been cancelled still competes for the frames with its          *)
(* successor (session.go:291-304).                                         *)
HeardOnce ==
    \A i, j \in DOMAIN heard : i # j => heard[i] # heard[j]

(* One caller at a time **************************************************)

Quiescent == \A c \in Callers : pc[c] = "idle" /\ notify[c] = Silent

(* Stop "waits for the AgentLoop to exit" (session.go:235): once no call   *)
(* is in progress and nothing is left to cancel, no goroutine runs and the *)
(* session is idle.                                                        *)
StopStops ==
    Quiescent /\ cancel = NoCtx =>
        /\ \A l \in Contexts : ~Running(l)
        /\ state = "Idle"

(* Destroy "releases all resources" (session.go:249): once no call is in   *)
(* progress, a destroyed session has no goroutine but those that are about *)
(* to find their context cancelled, and none is started later.  With two   *)
(* callers it does not hold: closed is set after Stop has returned, and a  *)
(* Start in between survives (session.go:251-255).                         *)
DestroyReleases ==
    Quiescent /\ closed => \A l \in Contexts : Running(l) => Done(l)

(* The pipeline keeps the order of the client's stream and never repeats   *)
(* a frame: what was recognised, what is accumulated, the frame in hand    *)
(* and what waits in the channel follow each other in increasing order     *)
(* across turns, failed turns and restarts (orchestrate.go:54-61, 106-155).*)
Increasing(q) ==
    \A i, j \in DOMAIN q : i < j => q[i] < q[j]

InHand ==
    {loc[l].frame : l \in {k \in Contexts : lpc[k] \in {"frame", "append"}}}

PipelineInOrder ==
    /\ Increasing(heard \o audioBuffer \o audioIn)
    /\ \A f \in InHand :
           /\ \A i \in DOMAIN (heard \o audioBuffer) :
                  (heard \o audioBuffer)[i] < f
           /\ \A i \in DOMAIN audioIn : f < audioIn[i]

(* Whenever no state event is owed, the client has been told the state the *)
(* session is in: events are sent after the mutex is released, and still   *)
(* do not overtake each other (session.go:180-197).                        *)
ClientInformed ==
    (\A t \in Threads : notify[t] = Silent) => clientState = state

(* The detector "keeps listening during playback" (step 7 of the comment   *)
(* at orchestrate.go:15-21): when a reply has been played to its end, at   *)
(* most the newest of the user's frames is still unexamined.  The run      *)
(* barge_in refutes it: the goroutine that plays is the one that would     *)
(* receive the frames (orchestrate.go:91-96).                              *)
PlaybackListens ==
    \A l \in Contexts :
        lpc[l] = "send" /\ loc[l].left = 0 => Len(audioIn) <= 1

(* Stop and Destroy return.                                                *)
StopReturns == \A c \in Callers : pc[c] = "wait" ~> pc[c] = "idle"

(* No turn hangs: whatever the plugins answer, the session comes back to   *)
(* listening or is stopped.                                                *)
TurnsEnd ==
    state \in {"Thinking", "Speaking"} ~> state \in {"Listening", "Idle"}

(* A speech end that was detected is acted on unless the session stops.    *)
SpeechEndIsHandled ==
    speechEndCh = 1 /\ cancel # NoCtx ~> speechEndCh = 0 \/ cancel = NoCtx
============================================================================
