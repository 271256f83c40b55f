--------------------------- MODULE TurnEndpoints ---------------------------
(***************************************************************************)
(* The turn manager alone, fed with an arbitrary stream of detector        *)
(* verdicts, and observed from outside: the observer counts the runs of    *)
(* equal verdicts over the whole stream, whatever state the manager is in, *)
(* and keeps the last event.  What the events promise is stated against    *)
(* the observer, never against the manager's own counters.                 *)
(***************************************************************************)
EXTENDS TurnManager

VARIABLES
    speechRun,   \* speech frames since the last silent one, saturated
    silenceRun,  \* silent frames since the last speech one, saturated
    lastEvent    \* the event the last frame produced, or NoEvent

endpointVars == <<tstate, speechFrames, silenceFrames, age,
                  speechRun, silenceRun, lastEvent>>

Saturate(n, cap) == IF n > cap THEN cap ELSE n

EndpointInit ==
    /\ NewTurnManager
    /\ speechRun = 0
    /\ silenceRun = 0
    /\ lastEvent = NoEvent

Frame(speaking) ==
    \E ev \in TurnEvent \cup {NoEvent} :
        /\ Process(speaking, ev)
        /\ lastEvent' = ev
        /\ speechRun' = IF speaking
                        THEN Saturate(speechRun + 1, SpeechStartFrames) ELSE 0
        /\ silenceRun' = IF speaking
                         THEN 0 ELSE Saturate(silenceRun + 1, SilenceEndFrames)

ResetTurn ==
    /\ Reset
    /\ lastEvent' = NoEvent
    /\ UNCHANGED <<speechRun, silenceRun>>

TurnAges ==
    /\ Tick
    /\ lastEvent' = NoEvent
    /\ UNCHANGED <<speechRun, silenceRun>>

EndpointNext ==
    \/ \E speaking \in BOOLEAN : Frame(speaking)
    \/ ResetTurn
    \/ TurnAges

(* Frames keep arriving from the client and time passes.                   *)
EndpointFairness ==
    /\ WF_endpointVars(\E speaking \in BOOLEAN : Frame(speaking))
    /\ WF_endpointVars(TurnAges)

EndpointSpec == EndpointInit /\ [][EndpointNext]_endpointVars
FairEndpointSpec == EndpointSpec /\ EndpointFairness

----------------------------------------------------------------------------
EndpointTypeOK ==
    /\ TurnTypeOK
    /\ speechRun \in 0 .. SpeechStartFrames
    /\ silenceRun \in 0 .. SilenceEndFrames
    /\ lastEvent \in TurnEvent \cup {NoEvent}

(* The manager never counts frames that were not there: while it waits for *)
(* speech its counter is covered by the run of speech the stream ends in,  *)
(* and while it listens by the run of silence (turn.go:163-184).           *)
CountersAreRuns ==
    /\ tstate = "Idle" => speechFrames <= speechRun
    /\ tstate = "Listening" => silenceFrames <= silenceRun

(* Events are only emitted at real endpoints: a speech start after a full  *)
(* run of SpeechStartFrames speech frames, a speech end after a full run   *)
(* of silence closing a turn of at least MinTurnDuration, a timeout on a   *)
(* turn that has reached MaxTurnDuration (turn.go:165, 182-185, 195).      *)
EventIsEndpoint ==
    /\ lastEvent' = "SpeechStart" => speechRun' = SpeechStartFrames
    /\ lastEvent' = "SpeechEnd" =>
           /\ tstate = "Listening"
           /\ silenceRun' = SilenceEndFrames
           /\ age >= MinTurnDuration
    /\ lastEvent' = "TurnTimeout" =>
           /\ tstate = "Listening"
           /\ age >= MaxTurnDuration

EventsAreEndpoints == [][EventIsEndpoint]_endpointVars

(* A turn never stays open for ever, even when the detector never reports  *)
(* silence again: MaxTurnDuration forces it closed (turn.go:195-200).      *)
EveryTurnEnds == tstate = "Listening" ~> tstate = "Idle"
============================================================================
