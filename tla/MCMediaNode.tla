---------------------------- MODULE MCMediaNode ----------------------------
(* MediaNode on small instances.  Session ids, rooms, tracks, kinds and    *)
(* workers are only compared, hence interchangeable.                       *)
EXTENDS MediaNode

NodeSymmetry ==
    Permutations(Sids) \cup Permutations(Rooms) \cup Permutations(Workers)

(* Bounds on behaviours: three tracks added or recordings started, in all, *)
(* and one session id that is created a second time.                       *)
NodeBound ==
    /\ adds + lastRecording <= 3
    /\ Cardinality({s \in Sids : lives[s] > 1}) <= 1
============================================================================
