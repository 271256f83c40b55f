--------------------------- MODULE RecordingTask ---------------------------
(***************************************************************************)
(* The recordings of one MediaStream: RecordingSink, the part of           *)
(* start_recording and stop_recording that concerns a track, and the tasks *)
(* run_audio_recording and run_video_recording (lm-control/src/recorder.rs).*)
(*                                                                         *)
(* A sink puts frames into an unbounded channel and a task takes them out  *)
(* and writes them, looking at the stop flag before each.  The channel is  *)
(* what the sink has received and the task has not yet taken.  The         *)
(* containers and the decoding are left out, and writing does not fail.    *)
(*                                                                         *)
(* remove_source_sink and reset have no caller at this commit; they are    *)
(* here as any user of the stream may call them.                           *)
(***************************************************************************)
EXTENDS MediaStream

VARIABLES
    task,     \* per recording: "none", "replayed", "check", "recv" or "ended"
    taken,    \* per recording: frames taken from the channel and written
    stopped   \* per recording: the stop flag

taskVars == <<task, taken, stopped>>
vars == <<streamVars, taskVars>>

Init ==
    /\ NewMediaStream
    /\ task = [k \in Sinks |-> "none"]
    /\ taken = [k \in Sinks |-> 0]
    /\ stopped = [k \in Sinks |-> FALSE]

StartReplay(k) ==
    /\ task[k] = "none"
    /\ task' = [task EXCEPT ![k] = "replayed"]
    /\ ReplayTo(k)
    /\ UNCHANGED <<taken, stopped>>

(* The sink is on the list and the task is spawned.                        *)
StartTask(k) ==
    /\ task[k] = "replayed"
    /\ task' = [task EXCEPT ![k] = "check"]
    /\ Subscribe(k)
    /\ UNCHANGED <<taken, stopped>>

(* The sink stays on the list of the stream.                               *)
StopRecording(k) ==
    /\ task[k] \notin {"none", "replayed"} /\ ~stopped[k]
    /\ stopped' = [stopped EXCEPT ![k] = TRUE]
    /\ UNCHANGED <<streamVars, task, taken>>

TaskCheck(k) ==
    /\ task[k] = "check"
    /\ task' = [task EXCEPT ![k] = IF stopped[k] THEN "ended" ELSE "recv"]
    /\ UNCHANGED <<streamVars, taken, stopped>>

(* Slip: the task goes on receiving without looking at the flag.           *)
TaskReceiveOn(k) ==
    /\ task[k] = "recv" /\ taken[k] < Len(received[k])
    /\ taken' = [taken EXCEPT ![k] = @ + 1]
    /\ UNCHANGED <<streamVars, task, stopped>>

TaskReceive(k) ==
    /\ task[k] = "recv" /\ taken[k] < Len(received[k])
    /\ task' = [task EXCEPT ![k] = "check"]
    /\ taken' = [taken EXCEPT ![k] = @ + 1]
    /\ UNCHANGED <<streamVars, stopped>>

(* The channel is closed once the stream has let go of the sink and        *)
(* stop_recording has dropped the recording, the other holder of it.       *)
TaskClosed(k) ==
    /\ task[k] = "recv" /\ taken[k] = Len(received[k])
    /\ stopped[k] /\ k \notin sourceSinks
    /\ task' = [task EXCEPT ![k] = "ended"]
    /\ UNCHANGED <<streamVars, taken, stopped>>

Next ==
    \/ PushPacket /\ UNCHANGED taskVars
    \/ Reset /\ UNCHANGED taskVars
    \/ \E k \in Sinks :
          \/ StartReplay(k) \/ StartTask(k) \/ StopRecording(k)
          \/ TaskCheck(k) \/ TaskReceive(k) \/ TaskClosed(k)
          \/ RemoveSourceSink(k) /\ UNCHANGED taskVars

(* A request and a push that have begun go on, and a task that has a frame *)
(* to take is scheduled; nothing makes the publisher send.                 *)
Fairness ==
    /\ WF_vars((SaveFrame \/ Dispatch) /\ UNCHANGED taskVars)
    /\ \A k \in Sinks :
          /\ WF_vars(StartTask(k))
          /\ WF_vars(TaskCheck(k) \/ TaskReceive(k) \/ TaskClosed(k))

Spec == Init /\ [][Next]_vars
FairSpec == Spec /\ Fairness

----------------------------------------------------------------------------
TypeOK ==
    /\ StreamTypeOK
    /\ task \in [Sinks -> {"none", "replayed", "check", "recv", "ended"}]
    /\ \A k \in Sinks : /\ taken[k] \in 0 .. Len(received[k])
                        /\ replayed[k] \in 0 .. Len(received[k])
    /\ stopped \in [Sinks -> BOOLEAN]

(* The cache holds the most recent frames without a gap, whatever key      *)
(* frames, full groups and resets there were (lib.rs:121-157): what a new  *)
(* sink is shown ends with the last frame saved, and no group grows past   *)
(* its limit.                                                              *)
CacheIsRecent ==
    LET n == Len(Replay)
    IN  /\ \A i \in 1 .. n : Replay[i] = Saved - n + i
        /\ Len(gops) <= GopCount
        /\ \A i \in DOMAIN gops : Len(gops[i]) <= MaxFramesPerGop

(* Frames reach a recording in order, and the only place where one may be  *)
(* missing or come twice is between the replay of the cache and the first  *)
(* live frame (lib.rs:253-266, 299-309): two locks are taken there, and a  *)
(* push may go between them.                                               *)
FramesInOrder ==
    \A k \in Sinks : \A i \in 1 .. Len(received[k]) - 1 :
        LET step == received[k][i + 1] - received[k][i]
        IN  step = 1 \/ (i = replayed[k] /\ step >= 0)

(* A stopped recording ends with the next frame, or when the stream lets   *)
(* go of its sink (recorder.rs:400-406, 516-519): its task does not look   *)
(* at the flag while it waits, so nothing is claimed for a stream that     *)
(* keeps the sink and has fallen silent.                                   *)
StopSeenAtNextFrame ==
    \A k \in Sinks :
        (stopped[k] /\ (taken[k] < Len(received[k]) \/ k \notin sourceSinks))
            ~> task[k] = "ended"
============================================================================
