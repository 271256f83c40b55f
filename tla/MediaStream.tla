---------------------------- MODULE MediaStream ----------------------------
(***************************************************************************)
(* One published track on a media node: MediaStream and its GopCache       *)
(* (lm-stream/src/lib.rs).  The publisher's packets become frames, which   *)
(* are saved in the cache of recent groups of pictures and handed to the   *)
(* sinks; a new sink is first given the cached frames.                     *)
(*                                                                         *)
(* The lock of the depacketizer is held for a whole push, so one push runs *)
(* at a time; cache and sink list have locks of their own, and each step   *)
(* is what happens under one of them.  A packet that completes no frame    *)
(* changes the depacketizer only and is no step here.  A frame is its      *)
(* number in the stream and whether it is a key frame.                     *)
(***************************************************************************)
EXTENDS Naturals, SequencesExt

CONSTANTS
    Sinks,            \* sinks that may subscribe, each of them once
    GopCount,         \* groups kept: 1 for video, 0 (no cache) for audio
    MaxFramesPerGop,  \* frames in a group before it is closed
    MaxFrames         \* bound: frames published

ASSUME StreamAssumption ==
    /\ GopCount \in Nat
    /\ MaxFramesPerGop \in Nat \ {0}
    /\ MaxFrames \in Nat

VARIABLES
    gops,         \* cached groups, oldest first, each a sequence of frames
    sourceSinks,  \* subscribed sinks
    pushing,      \* progress of the push
    made,         \* frames assembled so far
    keyFrame,     \* the frame made last is a key frame
    received,     \* per sink: numbers of the frames handed to it
    replayed      \* per sink: how many of them came from the cache

streamVars == <<gops, sourceSinks, pushing, made, keyFrame, received, replayed>>

NewMediaStream ==
    /\ gops = << >>
    /\ sourceSinks = {}
    /\ pushing = "idle"
    /\ made = 0
    /\ keyFrame = FALSE
    /\ received = [k \in Sinks |-> << >>]
    /\ replayed = [k \in Sinks |-> 0]

----------------------------------------------------------------------------
(* GopCache: a function of the cached groups.                              *)

OpenGop(g) == Append(IF Len(g) >= GopCount THEN Tail(g) ELSE g, << >>)

AddToLast(g, n) == [g EXCEPT ![Len(g)] = Append(@, n)]

(* Slip: a full group takes no more frames until the next key frame.       *)
SaveUntilFull(g, n, key) ==
    LET opened == IF key THEN OpenGop(g) ELSE g
    IN  CASE GopCount = 0 -> g
          [] GopCount > 0 /\ opened = << >> -> << <<n>> >>
          [] GopCount > 0 /\ opened # << >> ->
               IF Len(Last(opened)) >= MaxFramesPerGop
               THEN opened ELSE AddToLast(opened, n)

(* A key frame opens a group, as does a frame that finds the last one full *)
(* or no group at all.                                                     *)
Save(g, n, key) ==
    LET opened == IF key THEN OpenGop(g) ELSE g
    IN  CASE GopCount = 0 -> g
          [] GopCount > 0 /\ opened = << >> -> << <<n>> >>
          [] GopCount > 0 /\ opened # << >> ->
               AddToLast(IF Len(Last(opened)) >= MaxFramesPerGop
                         THEN OpenGop(opened) ELSE opened, n)

(* Slip: the newest group comes first.                                     *)
ReplayBackwards == FlattenSeq(Reverse(gops))

Replay == FlattenSeq(gops)

----------------------------------------------------------------------------
(* push_packet, for a packet that completes a frame.                       *)

Assemble(key) ==
    /\ pushing = "idle" /\ made < MaxFrames
    /\ pushing' = "save"
    /\ made' = made + 1
    /\ keyFrame' = key
    /\ UNCHANGED <<gops, sourceSinks, received, replayed>>

SaveFrame ==
    /\ pushing = "save"
    /\ pushing' = "dispatch"
    /\ gops' = Save(gops, made, keyFrame)
    /\ UNCHANGED <<sourceSinks, made, keyFrame, received, replayed>>

Dispatch ==
    /\ pushing = "dispatch"
    /\ pushing' = "idle"
    /\ received' = [k \in Sinks |-> IF k \in sourceSinks
                                    THEN Append(received[k], made)
                                    ELSE received[k]]
    /\ UNCHANGED <<gops, sourceSinks, made, keyFrame, replayed>>

(* add_source_sink in two steps: the cache is read before the sink is put  *)
(* on the list.                                                            *)
ReplayTo(k) ==
    /\ received' = [received EXCEPT ![k] = @ \o Replay]
    /\ replayed' = [replayed EXCEPT ![k] = Len(Replay)]
    /\ UNCHANGED <<gops, sourceSinks, pushing, made, keyFrame>>

Subscribe(k) ==
    /\ sourceSinks' = sourceSinks \cup {k}
    /\ UNCHANGED <<gops, pushing, made, keyFrame, received, replayed>>

RemoveSourceSink(k) ==
    /\ k \in sourceSinks
    /\ sourceSinks' = sourceSinks \ {k}
    /\ UNCHANGED <<gops, pushing, made, keyFrame, received, replayed>>

(* reset waits for the push, resets the depacketizer, and only then takes  *)
(* the lock of the cache, when the next push may be under way.             *)
Reset ==
    /\ gops # << >>
    /\ gops' = << >>
    /\ UNCHANGED <<sourceSinks, pushing, made, keyFrame, received, replayed>>

PushPacket == (\E key \in BOOLEAN : Assemble(key)) \/ SaveFrame \/ Dispatch

StreamTypeOK ==
    /\ sourceSinks \subseteq Sinks
    /\ pushing \in {"idle", "save", "dispatch"}
    /\ made \in 0 .. MaxFrames
    /\ Len(gops) <= GopCount
    /\ \A i \in DOMAIN gops : Len(gops[i]) \in 1 .. MaxFramesPerGop

(* The last frame the cache has seen.                                      *)
Saved == IF pushing = "save" THEN made - 1 ELSE made
============================================================================
