----------------------------- MODULE MediaNode -----------------------------
(***************************************************************************)
(* The gRPC service of a Rust media node: lm-control/src/service.rs on top *)
(* of SessionManager, StreamRegistry and RecordingManager.                 *)
(*                                                                         *)
(* Requests are served concurrently.  A worker is a request being served;  *)
(* each of its steps is one operation on one of the shared maps, which is  *)
(* the grain at which the code is atomic.  Codecs, statistics values and   *)
(* the published events are left out.  A packet is followed from push_rtp  *)
(* to the broadcast channels of the tracks it is sent to (SFU mode).       *)
(***************************************************************************)
EXTENDS StreamRegistry, RecordingManager

CONSTANTS
    Workers,           \* requests in flight
    Rpcs,              \* the requests the clients of this instance send
    SerialPerSession,  \* the clients serialise the control requests of a session
    MaxLives,          \* bound: times a session id is created
    MaxAdds,           \* bound: add_track requests
    MaxRecordings      \* bound: start_recording requests

ASSUME NodeAssumption ==
    /\ Rpcs \subseteq {"create", "destroy", "addTrack", "removeTrack", "push",
                       "startRecording", "stopRecording"}
    /\ SerialPerSession \in BOOLEAN
    /\ MaxLives \in Nat /\ MaxAdds \in Nat /\ MaxRecordings \in Nat

VARIABLES
    pc,     \* per worker: the next map operation
    req,    \* per worker: the request and the handler's locals
    lives,  \* creations begun, per session id
    adds    \* add_track requests begun

workVars == <<pc, req, lives, adds>>
vars == <<tableVars, registryVars, recordingVars, workVars>>

NoRequest ==
    [op |-> "none", sid |-> 0, room |-> 0, tid |-> 0, kind |-> 0, obj |-> 0,
     rid |-> 0, todo |-> {}, ids |-> << >>, got |-> << >>]

Init ==
    /\ NewSessionManager /\ NewStreamRegistry /\ NewRecordingManager
    /\ pc = [k \in Workers |-> "idle"]
    /\ req = [k \in Workers |-> NoRequest]
    /\ lives = [s \in Sids |-> 0]
    /\ adds = 0

(* The requests that change a session.                                     *)
Control == {"create", "destroy", "addTrack", "removeTrack", "startRecording"}

Busy(s) == \E k \in Workers : req[k].sid = s /\ req[k].op \in Control

Begin(k, op, s, at, r) ==
    /\ op \in Rpcs
    /\ pc[k] = "idle"
    /\ SerialPerSession /\ op \in Control => ~Busy(s)
    /\ pc' = [pc EXCEPT ![k] = at]
    /\ req' = [req EXCEPT ![k] = r]

Goto(k, from, to) ==
    /\ pc[k] = from
    /\ pc' = [pc EXCEPT ![k] = to]

Return(k, from) ==
    /\ Goto(k, from, "idle")
    /\ req' = [req EXCEPT ![k] = NoRequest]

----------------------------------------------------------------------------
(* create_session.  An id that is present is refused, changing nothing.    *)

CreateCheck(k, s, r) ==
    /\ Begin(k, "create", s, "join",
             [NoRequest EXCEPT !.op = "create", !.sid = s, !.room = r])
    /\ ~ContainsKey(s)
    /\ lives[s] < MaxLives
    /\ lives' = [lives EXCEPT ![s] = @ + 1]
    /\ UNCHANGED <<tableVars, registryVars, recordingVars, adds>>

CreateJoin(k) ==
    /\ Goto(k, "join", "insert")
    /\ JoinRoom(req[k].room, req[k].sid)
    /\ UNCHANGED <<sessions, objects, registryVars, recordingVars, req, lives,
                   adds>>

CreateInsert(k) ==
    /\ Return(k, "insert")
    /\ InsertSession(req[k].sid, req[k].room)
    /\ UNCHANGED <<rooms, registryVars, recordingVars, lives, adds>>

----------------------------------------------------------------------------
(* stop_recording, for the request itself and for each recording that      *)
(* destroy_session collected.                                              *)

(* A client learns a recording's id from the answer of start_recording.    *)
Answered == {rid \in 1 .. lastRecording :
                \A k \in Workers : req[k].op = "startRecording" => req[k].rid # rid}

StopRecording(k, rid) ==
    /\ Begin(k, "stopRecording", NoRequest.sid, "stop",
             [NoRequest EXCEPT !.op = "stopRecording", !.todo = {rid}])
    /\ UNCHANGED <<tableVars, registryVars, recordingVars, lives, adds>>

StopRemove(k) ==
    \E rid \in req[k].todo :
        /\ Goto(k, "stop", IF rid \in DOMAIN recordings THEN "forget" ELSE "stop")
        /\ req' = [req EXCEPT ![k].rid = rid, ![k].todo = @ \ {rid}]
        /\ RemoveRecording(rid)
        /\ UNCHANGED <<tableVars, registryVars, sessionRecordings,
                       lastRecording, lives, adds>>

StopForget(k) ==
    /\ Goto(k, "forget", "stop")
    /\ ForgetRecording(req[k].rid)
    /\ UNCHANGED <<tableVars, registryVars, recordings, lastRecording, req,
                   lives, adds>>

StopReturn(k) ==
    /\ req[k].op = "stopRecording" /\ req[k].todo = {}
    /\ Return(k, "stop")
    /\ UNCHANGED <<tableVars, registryVars, recordingVars, lives, adds>>

----------------------------------------------------------------------------
(* destroy_session: recordings, table entry, room, streams, counters.      *)

DestroySession(k, s) ==
    /\ Begin(k, "destroy", s, "stop",
             [NoRequest EXCEPT !.op = "destroy", !.sid = s,
                               !.todo = RecordingsOf(s)])
    /\ UNCHANGED <<tableVars, registryVars, recordingVars, lives, adds>>

DestroyRemove(k) ==
    LET s == req[k].sid
    IN  /\ req[k].op = "destroy" /\ req[k].todo = {}
        /\ IF ContainsKey(s)
           THEN /\ Goto(k, "stop", "leave")
                /\ req' = [req EXCEPT ![k].room = objects[sessions[s]].room]
           ELSE Return(k, "stop")
        /\ RemoveSession(s)
        /\ UNCHANGED <<rooms, objects, registryVars, recordingVars, lives, adds>>

DestroyLeave(k) ==
    /\ Goto(k, "leave", "look")
    /\ LeaveRoom(req[k].room, req[k].sid)
    /\ UNCHANGED <<sessions, objects, registryVars, recordingVars, req, lives,
                   adds>>

(* rooms.get, is_empty; the guard is dropped before rooms.remove.          *)
DestroyLook(k) ==
    /\ Goto(k, "look", IF RoomIsEmpty(req[k].room) THEN "drop" ELSE "collect")
    /\ UNCHANGED <<tableVars, registryVars, recordingVars, req, lives, adds>>

DestroyDropRoom(k) ==
    /\ Goto(k, "drop", "collect")
    /\ RemoveRoom(req[k].room)
    /\ UNCHANGED <<sessions, objects, registryVars, recordingVars, req, lives,
                   adds>>

DestroyCollect(k) ==
    /\ Goto(k, "collect", "unregister")
    /\ req' = [req EXCEPT ![k].todo = StreamsOf(req[k].sid)]
    /\ UNCHANGED <<tableVars, registryVars, recordingVars, lives, adds>>

(* StreamRegistry.unregister, one stream after the other.                  *)
Unregister(k) ==
    \E id \in req[k].todo :
        /\ pc[k] = "unregister"
        /\ IF id \in DOMAIN streams
           THEN /\ Goto(k, "unregister", "unindex")
                /\ req' = [req EXCEPT ![k].room = streams[id],
                                      ![k].ids = <<id>>,
                                      ![k].todo = @ \ {id}]
           ELSE /\ Goto(k, "unregister", "unregister")
                /\ req' = [req EXCEPT ![k].todo = @ \ {id}]
        /\ RemoveStream(id)
        /\ UNCHANGED <<tableVars, roomStreams, counters, recordingVars, lives,
                       adds>>

Unindex(k) ==
    /\ Goto(k, "unindex", "unregister")
    /\ UnindexStream(req[k].ids[1], req[k].room)
    /\ UNCHANGED <<tableVars, streams, counters, recordingVars, req, lives,
                   adds>>

Uncount(k) ==
    LET s == req[k].sid
    IN  /\ req[k].todo = {}
        /\ Return(k, "unregister")
        /\ counters' = {id \in counters :
                           IF req[k].op = "destroy" THEN id[1] # s
                                                    ELSE id # <<s, req[k].tid>>}
        /\ UNCHANGED <<tableVars, streams, roomStreams, recordingVars, lives,
                       adds>>

----------------------------------------------------------------------------
(* add_track and remove_track hold the session object they found first.    *)

AddTrack(k, s, t, kind) ==
    /\ ContainsKey(s)
    /\ Begin(k, "addTrack", s, "track",
             [NoRequest EXCEPT !.op = "addTrack", !.sid = s, !.tid = t,
                               !.kind = kind, !.obj = sessions[s],
                               !.room = objects[sessions[s]].room])
    /\ adds < MaxAdds
    /\ adds' = adds + 1
    /\ UNCHANGED <<tableVars, registryVars, recordingVars, lives>>

AddTrackInsert(k) ==
    /\ Goto(k, "track", "stream")
    /\ InsertTrack(req[k].obj, req[k].tid, req[k].kind)
    /\ UNCHANGED <<sessions, rooms, registryVars, recordingVars, req, lives,
                   adds>>

AddTrackStream(k) ==
    /\ Goto(k, "stream", "index")
    /\ InsertStream(<<req[k].sid, req[k].tid>>, req[k].room)
    /\ UNCHANGED <<tableVars, roomStreams, counters, recordingVars, req, lives,
                   adds>>

AddTrackIndex(k) ==
    /\ Goto(k, "index", "count")
    /\ IndexStream(<<req[k].sid, req[k].tid>>, req[k].room)
    /\ UNCHANGED <<tableVars, streams, counters, recordingVars, req, lives, adds>>

AddTrackCount(k) ==
    /\ Return(k, "count")
    /\ counters' = counters \cup {<<req[k].sid, req[k].tid>>}
    /\ UNCHANGED <<tableVars, streams, roomStreams, recordingVars, lives, adds>>

RemoveTrack(k, s, t) ==
    /\ ContainsKey(s)
    /\ Begin(k, "removeTrack", s, "untrack",
             [NoRequest EXCEPT !.op = "removeTrack", !.sid = s, !.tid = t,
                               !.obj = sessions[s], !.todo = {<<s, t>>}])
    /\ UNCHANGED <<tableVars, registryVars, recordingVars, lives, adds>>

RemoveTrackEntry(k) ==
    /\ Goto(k, "untrack", "unregister")
    /\ RemoveTrackOf(req[k].obj, req[k].tid)
    /\ UNCHANGED <<sessions, rooms, registryVars, recordingVars, req, lives,
                   adds>>

----------------------------------------------------------------------------
(* push_rtp, one packet in SFU mode.  A packet of an unknown track goes to *)
(* nobody.                                                                 *)

Push(k, s, t) ==
    /\ ContainsKey(s)
    /\ t \in DOMAIN objects[sessions[s]].tracks
    /\ Begin(k, "push", s, "room",
             [NoRequest EXCEPT !.op = "push", !.sid = s, !.tid = t,
                               !.kind = objects[sessions[s]].tracks[t]])
    /\ UNCHANGED <<tableVars, registryVars, recordingVars, lives, adds>>

PushRoom(k) ==
    LET s == req[k].sid
    IN  /\ IF ContainsKey(s)
           THEN /\ Goto(k, "room", "members")
                /\ req' = [req EXCEPT ![k].room = objects[sessions[s]].room]
           ELSE Return(k, "room")
        /\ UNCHANGED <<tableVars, registryVars, recordingVars, lives, adds>>

PushMembers(k) ==
    /\ Goto(k, "members", "peers")
    /\ req' = [req EXCEPT ![k].ids = PeerIds(req[k].room, req[k].sid)]
    /\ UNCHANGED <<tableVars, registryVars, recordingVars, lives, adds>>

PushPeer(k) ==
    /\ req[k].ids # << >>
    /\ Goto(k, "peers", "peers")
    /\ req' = [req EXCEPT
                  ![k].got = @ \o SetToSeq(TracksOfKind(Head(req[k].ids),
                                                        req[k].kind)),
                  ![k].ids = Tail(@)]
    /\ UNCHANGED <<tableVars, registryVars, recordingVars, lives, adds>>

(* The packet goes to the broadcast channel of every track in got.         *)
PushSend(k) ==
    /\ req[k].ids = << >>
    /\ Return(k, "peers")
    /\ UNCHANGED <<tableVars, registryVars, recordingVars, lives, adds>>

----------------------------------------------------------------------------
(* start_recording holds the session object across the creation of the     *)
(* output files, which may fail.                                           *)

StartRecording(k, s) ==
    /\ ContainsKey(s)
    /\ lastRecording < MaxRecordings
    /\ lastRecording' = lastRecording + 1
    /\ Begin(k, "startRecording", s, "files",
             [NoRequest EXCEPT !.op = "startRecording", !.sid = s,
                               !.obj = sessions[s], !.rid = lastRecording + 1])
    /\ UNCHANGED <<tableVars, registryVars, recordings, sessionRecordings, lives,
                   adds>>

StartRecordingFails(k) ==
    /\ Return(k, "files")
    /\ UNCHANGED <<tableVars, registryVars, recordingVars, lives, adds>>

StartRecordingTask(k) ==
    /\ Goto(k, "files", "recorded")
    /\ InsertRecording(req[k].rid, req[k].sid)
    /\ UNCHANGED <<tableVars, registryVars, sessionRecordings, lastRecording,
                   req, lives, adds>>

StartRecordingEntry(k) ==
    /\ Return(k, "recorded")
    /\ InsertSessionRecording(req[k].rid, req[k].sid)
    /\ UNCHANGED <<tableVars, registryVars, recordings, lastRecording, lives,
                   adds>>

----------------------------------------------------------------------------
Request(k) ==
    \/ \E s \in Sids, r \in Rooms : CreateCheck(k, s, r)
    \/ \E s \in Sids : DestroySession(k, s) \/ StartRecording(k, s)
    \/ \E s \in Sids, t \in Tids : RemoveTrack(k, s, t) \/ Push(k, s, t)
    \/ \E s \in Sids, t \in Tids, kind \in Kinds : AddTrack(k, s, t, kind)
    \/ \E rid \in Answered : StopRecording(k, rid)

Serve(k) ==
    \/ CreateJoin(k) \/ CreateInsert(k)
    \/ StopRemove(k) \/ StopForget(k) \/ StopReturn(k)
    \/ DestroyRemove(k) \/ DestroyLeave(k) \/ DestroyLook(k)
    \/ DestroyDropRoom(k) \/ DestroyCollect(k)
    \/ Unregister(k) \/ Unindex(k) \/ Uncount(k)
    \/ AddTrackInsert(k) \/ AddTrackStream(k) \/ AddTrackIndex(k)
    \/ AddTrackCount(k) \/ RemoveTrackEntry(k)
    \/ PushRoom(k) \/ PushMembers(k) \/ PushPeer(k) \/ PushSend(k)
    \/ StartRecordingFails(k) \/ StartRecordingTask(k) \/ StartRecordingEntry(k)

Next == \E k \in Workers : Request(k) \/ Serve(k)

Spec == Init /\ [][Next]_vars

----------------------------------------------------------------------------
Targets == [obj : 1 .. Len(objects), tid : Tids, kind : Kinds]

TypeOK ==
    /\ DOMAIN sessions \subseteq Sids
    /\ \A s \in DOMAIN sessions : sessions[s] \in 1 .. Len(objects)
    /\ DOMAIN rooms \subseteq Rooms
    /\ \A r \in DOMAIN rooms : rooms[r] \in Seq(Sids)
    /\ \A o \in 1 .. Len(objects) :
           /\ objects[o].sid \in Sids
           /\ objects[o].room \in Rooms
           /\ DOMAIN objects[o].tracks \subseteq Tids
    /\ DOMAIN streams \subseteq Sids \X Tids
    /\ counters \subseteq Sids \X Tids
    /\ DOMAIN recordings \subseteq 1 .. lastRecording
    /\ lastRecording \in 0 .. MaxRecordings
    /\ \A k \in Workers : req[k].got \in Seq(Targets)

Quiet == \A k \in Workers : pc[k] = "idle"

Members(r) == IF r \in DOMAIN rooms THEN rooms[r] ELSE << >>
RoomOf(s) == objects[sessions[s]].room
Distinct(q) == \A i, j \in DOMAIN q : i # j => q[i] # q[j]

(* One request at a time: proved in MediaNodeProofs ***********************)

(* Between requests the room lists mirror the session table: each lists    *)
(* exactly the live sessions of the room, each once, and an empty room has *)
(* no entry (session.rs:139-149, 155-173).                                 *)
RoomsMirrorSessions ==
    Quiet => \A r \in Rooms :
        /\ ToSet(Members(r)) = {s \in DOMAIN sessions : RoomOf(s) = r}
        /\ Distinct(Members(r))
        /\ ~RoomIsEmpty(r)

(* A packet reaches every track of its kind in the room but those of its   *)
(* own session, each once: the N-1 routing of session.rs:185-189.          *)
Audience(src) ==
    {[obj |-> sessions[p[1]], tid |-> p[2], kind |-> src.kind] :
        p \in {q \in (DOMAIN sessions \ {src.sid}) \X Tids :
                  /\ RoomOf(q[1]) = src.room
                  /\ <<q[2], src.kind>> \in
                        {<<t, objects[sessions[q[1]]].tracks[t]>> :
                            t \in DOMAIN objects[sessions[q[1]]].tracks}}}

DeliveryIsExact ==
    \A k \in Workers :
        pc[k] = "peers" /\ req[k].ids = << >> =>
            Distinct(req[k].got) /\ ToSet(req[k].got) = Audience(req[k])

(* Requests of different sessions in any interleaving *********************)

(* Between requests a room lists live sessions of its own only, each once, *)
(* and no empty room is kept, although a room is seen empty and removed in *)
(* two steps and sessions join in between (session.rs:139-149, 163-171).   *)
(* That it lists all of them is what such a join breaks.                   *)
RoomsListLiveSessions ==
    Quiet => \A r \in Rooms :
        /\ ToSet(Members(r)) \subseteq {s \in DOMAIN sessions : RoomOf(s) = r}
        /\ Distinct(Members(r))
        /\ ~RoomIsEmpty(r)

(* Between requests the stream registry, its room index and the counters   *)
(* cover exactly the tracks of the live sessions: no dead id is left in a  *)
(* room's list and no live one is missing from it, through re-added        *)
(* tracks, removals and destroyed and re-created sessions                  *)
(* (service.rs:187-190, 308-335, 372-379).  The list is compared as a set: *)
(* a track that is added again is pushed again (lib.rs:370-371), and one   *)
(* retain takes out both entries.                                          *)
LiveTracks ==
    UNION {{<<s, t>> : t \in DOMAIN objects[sessions[s]].tracks} :
               s \in DOMAIN sessions}

RoomIndex(r) == IF r \in DOMAIN roomStreams THEN ToSet(roomStreams[r]) ELSE {}

RegistriesMirrorTracks ==
    Quiet =>
        /\ DOMAIN streams = LiveTracks
        /\ counters = LiveTracks
        /\ \A id \in LiveTracks : streams[id] = RoomOf(id[1])
        /\ \A r \in Rooms :
               RoomIndex(r) = {id \in LiveTracks : RoomOf(id[1]) = r}

(* "Stop all recordings of the session" (recorder.rs:345, service.rs:172)  *)
(* holds of the recording started last: it does not outlive its session.   *)
(* Of an earlier one it does not hold, because the second start of a       *)
(* session overwrites the id the first one left (recorder.rs:286).         *)
LatestRecordingStops ==
    Quiet /\ lastRecording \in DOMAIN recordings =>
        ContainsKey(recordings[lastRecording])

(* A packet reaches no session of another room, "only the others of the    *)
(* same room" (session.rs:188), however the table changes while it is      *)
(* routed.  The exception is an id that is created a second time: routing  *)
(* keeps ids, and the id may name a session of another room by then.       *)
DeliveryStaysInRoom ==
    \A k \in Workers : \A i \in DOMAIN req[k].got :
        LET target == objects[req[k].got[i].obj]
        IN  lives[target.sid] = 1 => target.room = req[k].room

(* No packet is sent to one track twice.                                   *)
DeliveredOnce == \A k \in Workers : Distinct(req[k].got)
============================================================================
