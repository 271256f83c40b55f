-------------------------- MODULE RecordingManager --------------------------
(***************************************************************************)
(* The recordings of a media node: lm-control/src/recorder.rs.  A          *)
(* recording is named by a fresh number (a UUID in the code); the second   *)
(* map keeps one recording id per session id.                              *)
(***************************************************************************)
EXTENDS SessionManager

VARIABLES
    recordings,        \* recording id -> session id of its task
    sessionRecordings, \* session id -> recording id
    lastRecording      \* recording ids handed out so far

recordingVars == <<recordings, sessionRecordings, lastRecording>>

NewRecordingManager ==
    /\ recordings = EmptyMap
    /\ sessionRecordings = EmptyMap
    /\ lastRecording = 0

InsertRecording(rid, s) == recordings' = Put(recordings, rid, s)

InsertSessionRecording(rid, s) ==
    sessionRecordings' = Put(sessionRecordings, s, rid)

RemoveRecording(rid) == recordings' = Delete(recordings, rid)

(* retain: every entry that names the recording goes.                      *)
ForgetRecording(rid) ==
    sessionRecordings' =
        Restrict(sessionRecordings,
                 {s \in DOMAIN sessionRecordings : sessionRecordings[s] # rid})

(* Slip: the recordings of a session are not looked up.                    *)
RecordingsOfNobody(s) == {}

RecordingsOf(s) ==
    IF s \in DOMAIN sessionRecordings THEN {sessionRecordings[s]} ELSE {}
============================================================================
