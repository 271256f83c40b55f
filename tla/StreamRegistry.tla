--------------------------- MODULE StreamRegistry ---------------------------
(***************************************************************************)
(* The per-track registries of a media node: StreamRegistry of             *)
(* lm-stream/src/lib.rs and the counters of lm-telemetry/src/lib.rs, both  *)
(* keyed by session id and track id.  As in SessionManager, the operators  *)
(* are the single map operations their methods are made of.                *)
(***************************************************************************)
EXTENDS SessionManager

VARIABLES
    streams,      \* <<session id, track id>> -> room of the stream
    roomStreams,  \* room id -> list of stream ids
    counters      \* stream ids that have a statistics counter

registryVars == <<streams, roomStreams, counters>>

NewStreamRegistry ==
    /\ streams = EmptyMap
    /\ roomStreams = EmptyMap
    /\ counters = {}

InsertStream(id, r) == streams' = Put(streams, id, r)

IndexStream(id, r) ==
    roomStreams' = Put(roomStreams, r,
        Append(IF r \in DOMAIN roomStreams THEN roomStreams[r] ELSE << >>, id))

RemoveStream(id) == streams' = Delete(streams, id)

(* Slip: a removed stream stays in the list of its room.                   *)
UnindexStreamForgotten(id, r) == UNCHANGED roomStreams

UnindexStream(id, r) ==
    roomStreams' = IF r \in DOMAIN roomStreams
                   THEN Put(roomStreams, r, Retain(roomStreams[r], id))
                   ELSE roomStreams

StreamsOf(s) == {id \in DOMAIN streams : id[1] = s}
============================================================================
