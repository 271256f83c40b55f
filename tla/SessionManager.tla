--------------------------- MODULE SessionManager ---------------------------
(***************************************************************************)
(* The session table of a Rust media node: lm-control/src/session.rs.      *)
(*                                                                         *)
(* Two concurrent maps, sessions and rooms, are each atomic per key, and   *)
(* nothing orders an operation on one with an operation on the other: the  *)
(* operators below are the single map operations create_session,           *)
(* destroy_session and get_room_peer_tracks_by_kind are made of, and       *)
(* MediaNode interleaves them.  A map is a function on the keys present.   *)
(*                                                                         *)
(* A session object outlives its table entry while a handler holds it, so  *)
(* objects are numbered in the order they were published.                  *)
(***************************************************************************)
EXTENDS Naturals, Sequences, SequencesExt

CONSTANTS
    Sids,   \* session identifiers, chosen by the clients
    Rooms,  \* room identifiers
    Tids,   \* track identifiers, unique within a session only
    Kinds   \* track kinds: audio, video

VARIABLES
    sessions,  \* session id -> object number
    rooms,     \* room id -> list of session ids
    objects    \* the session objects: sid, room, tracks (track id -> kind)

tableVars == <<sessions, rooms, objects>>

EmptyMap == [x \in {} |-> 0]

Put(map, k, v) == [x \in DOMAIN map \cup {k} |-> IF x = k THEN v ELSE map[x]]
Delete(map, k) == Restrict(map, DOMAIN map \ {k})

(* retain: the list without the entries equal to e, in the same order.     *)
Retain(list, e) ==
    LET kept[n \in 0 .. Len(list)] ==
            IF n = 0 THEN << >>
            ELSE IF list[n] = e THEN kept[n - 1]
                                ELSE Append(kept[n - 1], list[n])
    IN  kept[Len(list)]

NewSessionManager ==
    /\ sessions = EmptyMap
    /\ rooms = EmptyMap
    /\ objects = << >>

ContainsKey(s) == s \in DOMAIN sessions

(* Slip: a retried join lists the session twice.                           *)
JoinRoomTwice(r, s) ==
    rooms' = Put(rooms, r, (IF r \in DOMAIN rooms THEN rooms[r] ELSE << >>)
                               \o <<s, s>>)

(* entry(room).or_default().push(session)                                  *)
JoinRoom(r, s) ==
    rooms' = Put(rooms, r, Append(IF r \in DOMAIN rooms THEN rooms[r] ELSE << >>,
                                  s))

InsertSession(s, r) ==
    /\ objects' = Append(objects, [sid |-> s, room |-> r, tracks |-> EmptyMap])
    /\ sessions' = Put(sessions, s, Len(objects) + 1)

RemoveSession(s) == sessions' = Delete(sessions, s)

(* Slip: a destroyed session stays in its room.                            *)
LeaveRoomForgotten(r, s) == UNCHANGED rooms

(* get_mut(room): retain every other member.                               *)
LeaveRoom(r, s) ==
    rooms' = IF r \in DOMAIN rooms THEN Put(rooms, r, Retain(rooms[r], s))
                                   ELSE rooms

RoomIsEmpty(r) == r \in DOMAIN rooms /\ rooms[r] = << >>

RemoveRoom(r) == rooms' = Delete(rooms, r)

(* Slip: the room is not looked at.                                        *)
PeerIdsEverywhere(r, s) == SetToSeq(DOMAIN sessions \ {s})

(* The members of a room other than the source of a packet.                *)
PeerIds(r, s) == IF r \in DOMAIN rooms THEN Retain(rooms[r], s) ELSE << >>

(* The tracks of one kind of whatever session the id names now.            *)
TracksOfKind(s, kind) ==
    IF ContainsKey(s)
    THEN {[obj |-> sessions[s], tid |-> t, kind |-> kind] :
             t \in {x \in DOMAIN objects[sessions[s]].tracks :
                        objects[sessions[s]].tracks[x] = kind}}
    ELSE {}

InsertTrack(o, t, kind) ==
    objects' = [objects EXCEPT ![o].tracks = Put(@, t, kind)]

RemoveTrackOf(o, t) ==
    objects' = [objects EXCEPT ![o].tracks = Delete(@, t)]
============================================================================
