---------------------------- MODULE TurnManager ----------------------------
(***************************************************************************)
(* Endpoint detection of one voice session: pkg/control/turn.go.           *)
(*                                                                         *)
(* Every audio frame carries a verdict of the voice activity detector, and *)
(* the manager turns the stream of verdicts into at most one event per     *)
(* frame.  Wall-clock time enters only through now.Sub(turnStart), so the  *)
(* module keeps the age of the current turn, saturated at the largest      *)
(* duration the code compares it with.                                     *)
(***************************************************************************)
EXTENDS Naturals

CONSTANTS
    SpeechStartFrames,  \* consecutive speech frames that open a turn
    SilenceEndFrames,   \* consecutive silent frames that close it
    MinTurnDuration,    \* a turn that closes earlier produces no event
    MaxTurnDuration     \* a turn this old is closed by force

(* NewTurnManager replaces every value that is not positive by a default.  *)
ASSUME ConfigAssumption ==
    /\ SpeechStartFrames \in Nat \ {0}
    /\ SilenceEndFrames \in Nat \ {0}
    /\ MinTurnDuration \in Nat \ {0}
    /\ MaxTurnDuration \in Nat \ {0}

VARIABLES
    tstate,         \* TurnManager.state
    speechFrames,   \* consecutive speech frames while idle
    silenceFrames,  \* consecutive silent frames while listening
    age             \* now - turnStart, saturated at AgeCap

turnVars == <<tstate, speechFrames, silenceFrames, age>>

TurnState == {"Idle", "Listening", "Ending"}
TurnEvent == {"SpeechStart", "SpeechEnd", "TurnTimeout"}
NoEvent == "none"

AgeCap == IF MinTurnDuration > MaxTurnDuration THEN MinTurnDuration
                                               ELSE MaxTurnDuration

NewTurnManager ==
    /\ tstate = "Idle"
    /\ speechFrames = 0
    /\ silenceFrames = 0
    /\ age = 0

----------------------------------------------------------------------------
(* processLocked: the cases of one frame, each with the event ev it emits. *)

(* Slip: one frame too many is counted before the turn may open.           *)
IdleSpeechLate(speaking, ev) ==
    /\ tstate = "Idle" /\ speaking
    /\ speechFrames + 1 <= SpeechStartFrames
    /\ ev = NoEvent
    /\ speechFrames' = speechFrames + 1
    /\ silenceFrames' = 0
    /\ UNCHANGED <<tstate, age>>

IdleSpeech(speaking, ev) ==
    /\ tstate = "Idle" /\ speaking
    /\ speechFrames + 1 < SpeechStartFrames
    /\ ev = NoEvent
    /\ speechFrames' = speechFrames + 1
    /\ silenceFrames' = 0
    /\ UNCHANGED <<tstate, age>>

OpenTurn(speaking, ev) ==
    /\ tstate = "Idle" /\ speaking
    /\ speechFrames + 1 >= SpeechStartFrames
    /\ ev = "SpeechStart"
    /\ tstate' = "Listening"
    /\ speechFrames' = 0
    /\ silenceFrames' = 0
    /\ age' = 0

(* Slip: a silent frame does not restart the count of speech frames.       *)
IdleSilenceKeepsCount(speaking, ev) ==
    /\ tstate = "Idle" /\ ~speaking
    /\ ev = NoEvent
    /\ UNCHANGED turnVars

IdleSilence(speaking, ev) ==
    /\ tstate = "Idle" /\ ~speaking
    /\ ev = NoEvent
    /\ speechFrames' = 0
    /\ UNCHANGED <<tstate, silenceFrames, age>>

(* turnStart keeps its old value in the code, but nothing reads it before  *)
(* the next OpenTurn sets it.                                              *)
BackToIdle ==
    /\ tstate' = "Idle"
    /\ speechFrames' = 0
    /\ silenceFrames' = 0
    /\ age' = 0

CloseOnSilence(speaking, ev) ==
    /\ tstate = "Listening" /\ ~speaking
    /\ silenceFrames + 1 >= SilenceEndFrames
    /\ ev = IF age >= MinTurnDuration THEN "SpeechEnd" ELSE NoEvent
    /\ BackToIdle

CloseOnTimeout(speaking, ev) ==
    /\ tstate = "Listening"
    /\ speaking \/ silenceFrames + 1 < SilenceEndFrames
    /\ age >= MaxTurnDuration
    /\ ev = "TurnTimeout"
    /\ BackToIdle

(* Slip: a speech frame during a turn leaves the count of silent frames.   *)
KeepListeningSumsSilence(speaking, ev) ==
    /\ tstate = "Listening"
    /\ speaking \/ silenceFrames + 1 < SilenceEndFrames
    /\ age < MaxTurnDuration
    /\ ev = NoEvent
    /\ silenceFrames' = IF speaking THEN silenceFrames ELSE silenceFrames + 1
    /\ UNCHANGED <<tstate, speechFrames, age>>

(* Slip: a speech frame restarts the clock of the turn.                    *)
KeepListeningRestartsClock(speaking, ev) ==
    /\ tstate = "Listening"
    /\ speaking \/ silenceFrames + 1 < SilenceEndFrames
    /\ age < MaxTurnDuration
    /\ ev = NoEvent
    /\ silenceFrames' = IF speaking THEN 0 ELSE silenceFrames + 1
    /\ age' = IF speaking THEN 0 ELSE age
    /\ UNCHANGED <<tstate, speechFrames>>

KeepListening(speaking, ev) ==
    /\ tstate = "Listening"
    /\ speaking \/ silenceFrames + 1 < SilenceEndFrames
    /\ age < MaxTurnDuration
    /\ ev = NoEvent
    /\ silenceFrames' = IF speaking THEN 0 ELSE silenceFrames + 1
    /\ UNCHANGED <<tstate, speechFrames, age>>

Process(speaking, ev) ==
    \/ IdleSpeech(speaking, ev)
    \/ OpenTurn(speaking, ev)
    \/ IdleSilence(speaking, ev)
    \/ CloseOnSilence(speaking, ev)
    \/ CloseOnTimeout(speaking, ev)
    \/ KeepListening(speaking, ev)

Reset == BackToIdle

(* Time passes while a turn is open; age is read in no other state.        *)
Tick ==
    /\ tstate = "Listening"
    /\ age < AgeCap
    /\ age' = age + 1
    /\ UNCHANGED <<tstate, speechFrames, silenceFrames>>

TurnTypeOK ==
    /\ tstate \in TurnState
    /\ speechFrames \in 0 .. SpeechStartFrames - 1
    /\ silenceFrames \in 0 .. SilenceEndFrames - 1
    /\ age \in 0 .. AgeCap
============================================================================
