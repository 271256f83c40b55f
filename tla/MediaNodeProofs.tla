-------------------------- MODULE MediaNodeProofs --------------------------
(***************************************************************************)
(* The service of a media node, for any sessions, rooms, tracks, kinds and *)
(* recordings.                                                             *)
(*                                                                         *)
(* Any requests in flight: a packet stays in its room, from RoomInv.       *)
(*                                                                         *)
(* The control requests of a session one after the other (Serialised): no  *)
(* packet is sent to a track twice, and a room lists live sessions of its  *)
(* own only, from OnceInv.                                                 *)
(*                                                                         *)
(* One request at a time (SingleWorker): the rooms mirror the session      *)
(* table (MirrorInv), a packet reaches exactly its audience (ExactInv),    *)
(* the latest recording ends with its session (RecordingInv), and streams, *)
(* index and counters mirror the tracks (RegistryInv).                     *)
(*                                                                         *)
(* Each invariant says what holds between the requests and, for a request  *)
(* under way, how far it has got: its label tells which of the maps it has *)
(* changed already.  Before them come lemmas on lists, the types, and what *)
(* each step does to the label and the locals of its request.              *)
(***************************************************************************)
EXTENDS MediaNode, FiniteSetTheorems, WellFoundedInduction, TLAPS

----------------------------------------------------------------------------
(* Lists.  What Retain computes is a matter of induction on the length of  *)
(* the list; the induction is by the least number at which a claim fails.  *)

LEMMA LeastNumber ==
    ASSUME NEW T \in SUBSET Nat, T # {}
    PROVE  \E n \in T : \A m \in T : n <= m
  <1> DEFINE Up == {0 .. n : n \in T}
  <1>1. Up # {}
    OBVIOUS
  <1>2. Up \subseteq FiniteSubsetsOf(Nat)
    <2>1. \A n \in T : IsFiniteSet(0 .. n)
      BY FS_Interval
    <2> QED  BY <2>1 DEF FiniteSubsetsOf
  <1>3. IsWellFoundedOn(StrictSubsetOrdering(Nat), FiniteSubsetsOf(Nat))
    BY FS_StrictSubsetOrderingWellFounded
  <1> HIDE DEF Up
  <1>4. PICK x \in Up : \A y \in Up : ~(<<y, x>> \in StrictSubsetOrdering(Nat))
    BY <1>1, <1>2, <1>3, WFMin
  <1>5. PICK n \in T : x = 0 .. n
    BY DEF Up
  <1>6. ASSUME NEW m \in T, m < n
        PROVE  FALSE
    <2>1. 0 .. m \in Up
      BY DEF Up
    <2>2. n \in x /\ n \notin 0 .. m /\ 0 .. m \subseteq x
      BY <1>5, <1>6
    <2>3. 0 .. m \in SUBSET Nat /\ x \in SUBSET Nat
      BY <1>5
    <2>4. <<0 .. m, x>> \in StrictSubsetOrdering(Nat)
      BY <2>2, <2>3 DEF StrictSubsetOrdering
    <2> QED  BY <1>4, <2>1, <2>4
  <1> QED  BY <1>6

(* A set of numbers up to len that has 0 and with a number the next one.   *)
LEMMA UpTo ==
    ASSUME NEW len \in Nat, NEW P, 0 \in P,
           \A n \in 0 .. len - 1 : n \in P => n + 1 \in P
    PROVE  0 .. len \subseteq P
  <1> DEFINE T == (0 .. len) \ P
  <1> SUFFICES ASSUME T # {} PROVE FALSE
    OBVIOUS
  <1>0. T \in SUBSET Nat
    OBVIOUS
  <1> HIDE DEF T
  <1>1. PICK n \in T : \A m \in T : n <= m
    BY <1>0, LeastNumber
  <1> USE DEF T
  <1>2. n # 0 /\ n - 1 \in 0 .. len - 1 /\ n - 1 \in P
    BY <1>1
  <1> QED  BY <1>2

KeptStep(list, e, f, n) ==
    IF n = 0 THEN << >>
    ELSE IF list[n] = e THEN f[n - 1] ELSE Append(f[n - 1], list[n])

(* The recursive function of Retain exists: it is defined up to n for      *)
(* every n.                                                                *)
LEMMA KeptExists ==
    ASSUME NEW S, NEW list \in Seq(S), NEW e
    PROVE  \E f : f = [n \in 0 .. Len(list) |-> KeptStep(list, e, f, n)]
  <1> DEFINE P == {m \in 0 .. Len(list) :
                       \E f : f = [n \in 0 .. m |-> KeptStep(list, e, f, n)]}
  <1>1. Len(list) \in Nat
    OBVIOUS
  <1>2. 0 \in P
    <2> DEFINE f == [n \in 0 .. 0 |-> << >>]
    <2>1. f = [n \in 0 .. 0 |-> KeptStep(list, e, f, n)]
      BY DEF KeptStep
    <2> QED  BY <1>1, <2>1
  <1>3. ASSUME NEW m \in 0 .. Len(list) - 1, m \in P
        PROVE  m + 1 \in P
    <2>1. PICK f : f = [n \in 0 .. m |-> KeptStep(list, e, f, n)]
      BY <1>3
    <2> DEFINE g == [n \in 0 .. m + 1 |->
                        IF n <= m THEN f[n] ELSE KeptStep(list, e, f, n)]
    <2>2. ASSUME NEW n \in 0 .. m + 1
          PROVE  g[n] = KeptStep(list, e, g, n)
      <3>1. n # 0 => n - 1 \in 0 .. m /\ g[n - 1] = f[n - 1]
        OBVIOUS
      <3>2. KeptStep(list, e, g, n) = KeptStep(list, e, f, n)
        BY <3>1 DEF KeptStep
      <3>3. n <= m => f[n] = KeptStep(list, e, f, n)
        BY <2>1
      <3> QED  BY <3>2, <3>3
    <2>3. g = [n \in 0 .. m + 1 |-> KeptStep(list, e, g, n)]
      BY <2>2
    <2> HIDE DEF g
    <2>4. m + 1 \in 0 .. Len(list)
      BY <1>1
    <2> QED  BY <2>3, <2>4
  <1> HIDE DEF P
  <1>4. 0 .. Len(list) \subseteq P
    BY <1>1, <1>2, <1>3, UpTo
  <1> QED  BY <1>1, <1>4 DEF P

Kept(list, e) ==
    CHOOSE f : f = [n \in 0 .. Len(list) |-> KeptStep(list, e, f, n)]

LEMMA RetainIsKept ==
    ASSUME NEW S, NEW list \in Seq(S), NEW e
    PROVE  /\ Retain(list, e) = Kept(list, e)[Len(list)]
           /\ \A n \in 0 .. Len(list) :
                  Kept(list, e)[n] = KeptStep(list, e, Kept(list, e), n)
  <1>1. Retain(list, e) = Kept(list, e)[Len(list)]
    BY DEF Retain, Kept, KeptStep
  <1> DEFINE f == Kept(list, e)
  <1>2. f = [n \in 0 .. Len(list) |-> KeptStep(list, e, f, n)]
    BY KeptExists DEF Kept
  <1> HIDE DEF f
  <1>3. \A n \in 0 .. Len(list) : f[n] = KeptStep(list, e, f, n)
    BY <1>2
  <1> QED  BY <1>1, <1>3 DEF f

LEMMA ToSetEmpty == ToSet(<< >>) = {} /\ Distinct(<< >>)
  BY DEF ToSet, Distinct

LEMMA ToSetAppend ==
    ASSUME NEW S, NEW s \in Seq(S), NEW x \in S
    PROVE  /\ Append(s, x) \in Seq(S)
           /\ ToSet(Append(s, x)) = ToSet(s) \cup {x}
           /\ Distinct(s) /\ x \notin ToSet(s) => Distinct(Append(s, x))
  <1>1. /\ DOMAIN Append(s, x) = 1 .. Len(s) + 1 /\ DOMAIN s = 1 .. Len(s)
        /\ Len(s) \in Nat
        /\ \A i \in 1 .. Len(s) : Append(s, x)[i] = s[i]
        /\ Append(s, x)[Len(s) + 1] = x
    OBVIOUS
  <1>2. ToSet(Append(s, x)) \subseteq ToSet(s) \cup {x}
    BY <1>1 DEF ToSet
  <1>3. x \in ToSet(Append(s, x))
    BY <1>1 DEF ToSet
  <1>4. ToSet(s) \subseteq ToSet(Append(s, x))
    BY <1>1 DEF ToSet
  <1>5. ASSUME Distinct(s), x \notin ToSet(s)
        PROVE  Distinct(Append(s, x))
    <2>1. \A i \in 1 .. Len(s) : s[i] # x
      BY <1>1, <1>5 DEF ToSet
    <2> QED  BY <1>1, <1>5, <2>1 DEF Distinct
  <1> QED  BY <1>2, <1>3, <1>4, <1>5

LEMMA ToSetTail ==
    ASSUME NEW S, NEW s \in Seq(S), s # << >>
    PROVE  /\ Head(s) \in S /\ Tail(s) \in Seq(S)
           /\ ToSet(s) = ToSet(Tail(s)) \cup {Head(s)}
           /\ Distinct(s) => Distinct(Tail(s)) /\ Head(s) \notin ToSet(Tail(s))
  <1>1. /\ DOMAIN Tail(s) = 1 .. Len(s) - 1 /\ DOMAIN s = 1 .. Len(s)
        /\ Len(s) \in Nat \ {0} /\ Head(s) = s[1]
        /\ \A i \in 1 .. Len(s) - 1 : Tail(s)[i] = s[i + 1]
    OBVIOUS
  <1>2. ASSUME NEW i \in DOMAIN Tail(s)
        PROVE  Tail(s)[i] \in ToSet(s)
    <2>1. i + 1 \in DOMAIN s /\ Tail(s)[i] = s[i + 1]
      BY <1>1
    <2> QED  BY <2>1 DEF ToSet
  <1>3. ASSUME NEW i \in DOMAIN s
        PROVE  s[i] \in ToSet(Tail(s)) \cup {Head(s)}
    <2>1. CASE i = 1
      BY <1>1, <2>1
    <2>2. CASE i # 1
      <3>1. i - 1 \in DOMAIN Tail(s) /\ Tail(s)[i - 1] = s[i]
        BY <1>1, <2>2
      <3> QED  BY <3>1 DEF ToSet
    <2> QED  BY <2>1, <2>2
  <1>4. Head(s) \in ToSet(s)
    BY <1>1 DEF ToSet
  <1>5. ToSet(Tail(s)) \subseteq ToSet(s)
    BY <1>2 DEF ToSet
  <1>6. ToSet(s) \subseteq ToSet(Tail(s)) \cup {Head(s)}
    BY <1>3 DEF ToSet
  <1>7. ASSUME Distinct(s)
        PROVE  Distinct(Tail(s)) /\ Head(s) \notin ToSet(Tail(s))
    <2>1. Distinct(Tail(s))
      BY <1>1, <1>7 DEF Distinct
    <2>2. ASSUME NEW i \in DOMAIN Tail(s)
          PROVE  Tail(s)[i] # Head(s)
      BY <1>1, <1>7 DEF Distinct
    <2> QED  BY <2>1, <2>2 DEF ToSet
  <1> QED  BY <1>4, <1>5, <1>6, <1>7

LEMMA ToSetConcat ==
    ASSUME NEW S, NEW s \in Seq(S), NEW t \in Seq(S)
    PROVE  /\ s \o t \in Seq(S)
           /\ ToSet(s \o t) = ToSet(s) \cup ToSet(t)
           /\ Distinct(s) /\ Distinct(t) /\ ToSet(s) \cap ToSet(t) = {}
              => Distinct(s \o t)
  <1>1. /\ DOMAIN (s \o t) = 1 .. Len(s) + Len(t)
        /\ DOMAIN s = 1 .. Len(s) /\ DOMAIN t = 1 .. Len(t)
        /\ Len(s) \in Nat /\ Len(t) \in Nat
        /\ \A i \in 1 .. Len(s) : (s \o t)[i] = s[i]
        /\ \A i \in 1 .. Len(s) + Len(t) :
               i > Len(s) => /\ i - Len(s) \in 1 .. Len(t)
                             /\ (s \o t)[i] = t[i - Len(s)]
        /\ \A i \in 1 .. Len(t) : (s \o t)[Len(s) + i] = t[i]
    OBVIOUS
  <1>2. ASSUME NEW i \in DOMAIN (s \o t)
        PROVE  (s \o t)[i] \in ToSet(s) \cup ToSet(t)
    <2>1. CASE i <= Len(s)
      BY <1>1, <2>1 DEF ToSet
    <2>2. CASE i > Len(s)
      BY <1>1, <2>2 DEF ToSet
    <2> QED  BY <1>1, <2>1, <2>2
  <1>3. ToSet(s) \subseteq ToSet(s \o t)
    BY <1>1 DEF ToSet
  <1>4. ASSUME NEW i \in DOMAIN t
        PROVE  t[i] \in ToSet(s \o t)
    <2>1. Len(s) + i \in DOMAIN (s \o t) /\ t[i] = (s \o t)[Len(s) + i]
      BY <1>1
    <2> QED  BY <2>1 DEF ToSet
  <1>5. ToSet(s \o t) = ToSet(s) \cup ToSet(t)
    <2>1. ToSet(s \o t) \subseteq ToSet(s) \cup ToSet(t)
      BY <1>2 DEF ToSet
    <2>2. ToSet(t) \subseteq ToSet(s \o t)
      BY <1>4 DEF ToSet
    <2> QED  BY <1>3, <2>1, <2>2
  <1>6. ASSUME Distinct(s), Distinct(t), ToSet(s) \cap ToSet(t) = {}
        PROVE  Distinct(s \o t)
    <2>1. \A i \in DOMAIN s, j \in DOMAIN t : s[i] # t[j]
      BY <1>6 DEF ToSet
    <2> SUFFICES ASSUME NEW i \in DOMAIN (s \o t), NEW j \in DOMAIN (s \o t),
                        i # j
                 PROVE  (s \o t)[i] # (s \o t)[j]
      BY DEF Distinct
    <2>2. CASE i <= Len(s) /\ j <= Len(s)
      BY <1>1, <1>6, <2>2 DEF Distinct
    <2>3. CASE i > Len(s) /\ j > Len(s)
      <3>1. i - Len(s) # j - Len(s)
        BY <1>1
      <3> QED  BY <1>1, <1>6, <2>3, <3>1 DEF Distinct
    <2>4. CASE (i <= Len(s) /\ j > Len(s)) \/ (i > Len(s) /\ j <= Len(s))
      BY <1>1, <2>1, <2>4
    <2> QED  BY <1>1, <2>2, <2>3, <2>4
  <1> QED  BY <1>5, <1>6

(* Retain keeps the other members, in a list without repetitions if there  *)
(* were none.                                                              *)
LEMMA RetainOthers ==
    ASSUME NEW S, NEW list \in Seq(S), NEW e
    PROVE  /\ Retain(list, e) \in Seq(S)
           /\ ToSet(Retain(list, e)) = ToSet(list) \ {e}
           /\ Distinct(list) => Distinct(Retain(list, e))
  <1> DEFINE f == Kept(list, e)
             len == Len(list)
             First(n) == {list[i] : i \in 1 .. n}
             P == {n \in 0 .. len :
                      /\ f[n] \in Seq(S)
                      /\ ToSet(f[n]) = First(n) \ {e}
                      /\ Distinct(list) => Distinct(f[n])}
  <1>1. len \in Nat /\ DOMAIN list = 1 .. len /\ \A n \in 1 .. len : list[n] \in S
    OBVIOUS
  <1>2. /\ Retain(list, e) = f[len]
        /\ \A n \in 0 .. len : f[n] = KeptStep(list, e, f, n)
    BY RetainIsKept
  <1> HIDE DEF f, len
  <1>3. 0 \in P
    <2>1. f[0] = << >>
      BY <1>1, <1>2 DEF KeptStep
    <2>2. First(0) = {}
      OBVIOUS
    <2>3. f[0] \in Seq(S) /\ ToSet(f[0]) = {} /\ Distinct(f[0]) /\ 0 \in 0 .. len
      BY <1>1, <2>1, ToSetEmpty
    <2> HIDE DEF First
    <2> QED  BY <2>2, <2>3
  <1>4. ASSUME NEW n \in 0 .. len - 1, n \in P
        PROVE  n + 1 \in P
    <2>1. /\ n + 1 \in 1 .. len /\ n + 1 \in 0 .. len /\ n + 1 # 0
          /\ (n + 1) - 1 = n
      BY <1>1
    <2>2. f[n + 1] = IF list[n + 1] = e THEN f[n] ELSE Append(f[n], list[n + 1])
      BY <1>2, <2>1 DEF KeptStep
    <2>3. First(n + 1) = First(n) \cup {list[n + 1]}
      <3>1. 1 .. n + 1 = (1 .. n) \cup {n + 1}
        BY <1>1
      <3> QED  BY <3>1
    <2>4. f[n] \in Seq(S) /\ ToSet(f[n]) = First(n) \ {e}
      BY <1>4
    <2>5. Distinct(list) => Distinct(f[n]) /\ list[n + 1] \notin First(n)
      <3>1. \A i \in 1 .. n : i \in 1 .. len /\ i # n + 1
        BY <1>1
      <3> QED  BY <1>1, <1>4, <2>1, <3>1 DEF Distinct
    <2> HIDE DEF First
    <2>6. CASE list[n + 1] = e
      BY <2>1, <2>2, <2>3, <2>4, <2>5, <2>6
    <2>7. CASE list[n + 1] # e
      <3>1. list[n + 1] \in S
        BY <1>1, <2>1
      <3>2. /\ Append(f[n], list[n + 1]) \in Seq(S)
            /\ ToSet(Append(f[n], list[n + 1])) = ToSet(f[n]) \cup {list[n + 1]}
            /\ Distinct(f[n]) /\ list[n + 1] \notin ToSet(f[n])
               => Distinct(Append(f[n], list[n + 1]))
        BY <2>4, <3>1, ToSetAppend
      <3> QED  BY <2>1, <2>2, <2>3, <2>4, <2>5, <2>7, <3>2
    <2> QED  BY <2>6, <2>7
  <1> HIDE DEF P
  <1>5. 0 .. len \subseteq P
    BY <1>1, <1>3, <1>4, UpTo
  <1>6. len \in P
    BY <1>1, <1>5
  <1>7. First(len) = ToSet(list)
    BY <1>1 DEF ToSet
  <1> QED  BY <1>2, <1>6, <1>7 DEF P

(* SetToSeq lists the members of a finite set, each once.                  *)
LEMMA SetToSeqLists ==
    ASSUME NEW A, IsFiniteSet(A)
    PROVE  /\ SetToSeq(A) \in Seq(A)
           /\ Distinct(SetToSeq(A))
           /\ ToSet(SetToSeq(A)) = A
  <1> DEFINE n == Cardinality(A)
             f == SetToSeq(A)
  <1>1. n \in Nat /\ ExistsBijection(1 .. n, A)
    BY FS_CardinalityType
  <1>2. \E g \in [1 .. n -> A] : IsInjective(g)
    BY <1>1 DEF ExistsBijection, Bijection, Injection
  <1>3. f \in [1 .. n -> A] /\ IsInjective(f)
    BY <1>2 DEF SetToSeq
  <1>4. f \in Seq(A)
    BY <1>1, <1>3
  <1>5. Distinct(f)
    BY <1>3 DEF Distinct, IsInjective
  <1>6. ToSet(f) = A
    <2>1. f \in Injection(1 .. n, A)
      BY <1>3 DEF Injection
    <2>2. IsFiniteSet(1 .. n) /\ Cardinality(1 .. n) = n
      BY <1>1, FS_Interval
    <2>3. f \in Surjection(1 .. n, A)
      BY <2>1, <2>2, FS_Injection
    <2> QED  BY <1>3, <2>3 DEF Surjection, ToSet
  <1> QED  BY <1>4, <1>5, <1>6

----------------------------------------------------------------------------
(* Types.  The placeholder 0 of NoRequest is a member of every type.       *)

SidX == Sids \cup {0}
RoomX == Rooms \cup {0}
TidX == Tids \cup {0}
KindX == Kinds \cup {0}
StreamIds == SidX \X TidX
Target == [obj : Nat, tid : TidX, kind : KindX]

Ops == {"none", "create", "destroy", "addTrack", "removeTrack", "push",
        "startRecording", "stopRecording"}

Labels == {"idle", "join", "insert", "stop", "forget", "leave", "look", "drop",
           "collect", "unregister", "unindex", "track", "stream", "index",
           "count", "untrack", "room", "members", "peers", "files", "recorded"}

Todos == SUBSET (Nat \cup StreamIds)
IdLists == Seq(SidX \cup StreamIds)
TargetLists == Seq(Target)

Requests == [op : Ops, sid : SidX, room : RoomX, tid : TidX, kind : KindX,
             obj : Nat, rid : Nat, todo : Todos, ids : IdLists,
             got : TargetLists]

TrackMaps == {m \in UNION {[D -> KindX] : D \in SUBSET Tids} :
                  IsFiniteSet(DOMAIN m)}

SessionObjects == [sid : Sids, room : RoomX, tracks : TrackMaps]

(* Which steps belong to which request.                                    *)
DestroyLabels == {"stop", "forget", "leave", "look", "drop", "collect",
                  "unregister", "unindex"}

OpAt(k) ==
    \/ req[k] = NoRequest /\ pc[k] = "idle"
    \/ req[k].op = "create" /\ pc[k] \in {"join", "insert"}
    \/ req[k].op = "destroy" /\ pc[k] \in DestroyLabels
    \/ req[k].op = "addTrack" /\ pc[k] \in {"track", "stream", "index", "count"}
    \/ req[k].op = "removeTrack" /\ pc[k] \in {"untrack", "unregister", "unindex"}
    \/ req[k].op = "push" /\ pc[k] \in {"room", "members", "peers"}
    \/ req[k].op = "startRecording" /\ pc[k] \in {"files", "recorded"}
    \/ req[k].op = "stopRecording" /\ pc[k] \in {"stop", "forget"}

WorkTypeOK ==
    /\ pc \in [Workers -> Labels]
    /\ req \in [Workers -> Requests]
    /\ \A k \in Workers : OpAt(k)
    /\ lives \in [Sids -> Nat]

TableTypeOK ==
    /\ objects \in Seq(SessionObjects)
    /\ \A s \in DOMAIN sessions : /\ s \in Sids
                                  /\ sessions[s] \in 1 .. Len(objects)
                                  /\ objects[sessions[s]].sid = s
    /\ \A r \in DOMAIN rooms : r \in RoomX /\ rooms[r] \in Seq(Sids)

RegistryTypeOK ==
    /\ \A id \in DOMAIN streams : id \in StreamIds /\ streams[id] \in RoomX
    /\ \A r \in DOMAIN roomStreams : roomStreams[r] \in Seq(StreamIds)
    /\ \A s \in DOMAIN sessionRecordings : sessionRecordings[s] \in Nat
    /\ lastRecording \in Nat

(* What a handler holds between its steps.                                 *)
HandlerAt(k) ==
    /\ pc[k] \in {"join", "insert"} => req[k].sid \in Sids
    /\ pc[k] \in {"track", "untrack"} => req[k].obj \in 1 .. Len(objects)
    /\ pc[k] = "track" => req[k].tid \in Tids
    /\ pc[k] \in {"stop", "forget"} => req[k].todo \subseteq Nat
    /\ pc[k] \in {"untrack", "unregister", "unindex"} =>
           req[k].todo \subseteq StreamIds
    /\ pc[k] = "unindex" => \E id \in StreamIds : req[k].ids = <<id>>
    /\ pc[k] = "peers" =>
           /\ req[k].ids \in Seq(Sids)
           /\ \A i \in DOMAIN req[k].got : req[k].got[i].obj \in 1 .. Len(objects)
    /\ pc[k] # "peers" => req[k].got = << >>

HandlerTypeOK == \A k \in Workers : HandlerAt(k)

NodeTypeOK == WorkTypeOK /\ TableTypeOK /\ RegistryTypeOK /\ HandlerTypeOK

LEMMA Empties ==
    /\ {} \in Todos /\ << >> \in IdLists /\ << >> \in TargetLists
    /\ EmptyMap \in TrackMaps /\ DOMAIN EmptyMap = {}
  <1>1. DOMAIN EmptyMap = {} /\ EmptyMap \in [{} -> KindX] /\ {} \in SUBSET Tids
    BY DEF EmptyMap
  <1>2. EmptyMap \in UNION {[D -> KindX] : D \in SUBSET Tids}
    BY <1>1
  <1>3. EmptyMap \in TrackMaps
    BY <1>1, <1>2, FS_EmptySet DEF TrackMaps
  <1>4. {} \in Todos /\ << >> \in IdLists /\ << >> \in TargetLists
    BY DEF Todos, IdLists, TargetLists
  <1> QED  BY <1>1, <1>3, <1>4

LEMMA NoRequestType == NoRequest \in Requests
  BY Empties DEF NoRequest, Requests, SidX, RoomX, TidX, KindX, Ops

LEMMA NodeTypeInit == Init => NodeTypeOK
  <1> SUFFICES ASSUME Init PROVE NodeTypeOK
    OBVIOUS
  <1>1. WorkTypeOK
    BY NoRequestType DEF Init, WorkTypeOK, Labels, OpAt
  <1>2. TableTypeOK /\ RegistryTypeOK
    BY Empties DEF Init, NewSessionManager, NewStreamRegistry,
       NewRecordingManager, TableTypeOK, RegistryTypeOK
  <1>3. HandlerTypeOK
    BY DEF Init, HandlerTypeOK, HandlerAt, NoRequest
  <1> QED  BY <1>1, <1>2, <1>3 DEF NodeTypeOK

LEMMA TrackMapType ==
    ASSUME NEW m \in TrackMaps, NEW t, NEW kind \in KindX
    PROVE  (t \in Tids => Put(m, t, kind) \in TrackMaps) /\ Delete(m, t) \in TrackMaps
  <1>1. PICK D \in SUBSET Tids : m \in [D -> KindX] /\ IsFiniteSet(D)
    BY DEF TrackMaps
  <1>2. Put(m, t, kind) \in [D \cup {t} -> KindX]
    BY <1>1 DEF Put
  <1>3. Delete(m, t) \in [D \ {t} -> KindX] /\ D \ {t} \in SUBSET Tids
    BY <1>1 DEF Delete, Restrict
  <1>4. IsFiniteSet(D \cup {t}) /\ IsFiniteSet(D \ {t})
    BY <1>1, FS_AddElement, FS_RemoveElement
  <1>5. t \in Tids => Put(m, t, kind) \in UNION {[E -> KindX] : E \in SUBSET Tids}
    <2>1. t \in Tids => D \cup {t} \in SUBSET Tids
      OBVIOUS
    <2> QED  BY <1>2, <2>1
  <1>6. Delete(m, t) \in UNION {[E -> KindX] : E \in SUBSET Tids}
    BY <1>3
  <1> QED  BY <1>2, <1>3, <1>4, <1>5, <1>6 DEF TrackMaps

(* The steps of a worker: its label and its request, and nobody else's.    *)

OthersKept(k) ==
    \A l \in Workers \ {k} : pc'[l] = pc[l] /\ req'[l] = req[l]

LEMMA BeginType ==
    ASSUME WorkTypeOK, NEW k \in Workers, NEW op, NEW s, NEW at \in Labels,
           NEW r \in Requests, Begin(k, op, s, at, r)
    PROVE  /\ pc' \in [Workers -> Labels] /\ req' \in [Workers -> Requests]
           /\ OthersKept(k) /\ pc'[k] = at /\ req'[k] = r
           /\ pc[k] = "idle" /\ req[k] = NoRequest
  <1>1. /\ pc \in [Workers -> Labels] /\ req \in [Workers -> Requests]
        /\ pc' = [pc EXCEPT ![k] = at] /\ req' = [req EXCEPT ![k] = r]
        /\ pc[k] = "idle"
    BY DEF Begin, WorkTypeOK
  <1>2. req[k] = NoRequest
    BY <1>1 DEF WorkTypeOK, OpAt, DestroyLabels
  <1> QED  BY <1>1, <1>2 DEF OthersKept

LEMMA GotoType ==
    ASSUME WorkTypeOK, NEW k \in Workers, NEW from, NEW to \in Labels,
           Goto(k, from, to), UNCHANGED req
    PROVE  /\ pc' \in [Workers -> Labels] /\ req' \in [Workers -> Requests]
           /\ OthersKept(k) /\ pc[k] = from /\ pc'[k] = to /\ req'[k] = req[k]
  BY DEF Goto, WorkTypeOK, OthersKept

LEMMA GotoWithType ==
    ASSUME WorkTypeOK, NEW k \in Workers, NEW from, NEW to \in Labels,
           NEW r \in Requests,
           Goto(k, from, to), req' = [req EXCEPT ![k] = r]
    PROVE  /\ pc' \in [Workers -> Labels] /\ req' \in [Workers -> Requests]
           /\ OthersKept(k) /\ pc[k] = from /\ pc'[k] = to /\ req'[k] = r
  <1>1. /\ pc \in [Workers -> Labels] /\ req \in [Workers -> Requests]
        /\ pc' = [pc EXCEPT ![k] = to] /\ req' = [req EXCEPT ![k] = r]
        /\ pc[k] = from
    BY DEF Goto, WorkTypeOK
  <1> QED  BY <1>1 DEF OthersKept

LEMMA ReturnType ==
    ASSUME WorkTypeOK, NEW k \in Workers, NEW from, Return(k, from)
    PROVE  /\ pc' \in [Workers -> Labels] /\ req' \in [Workers -> Requests]
           /\ OthersKept(k) /\ pc[k] = from /\ pc'[k] = "idle"
           /\ req'[k] = NoRequest
  BY NoRequestType, GotoWithType DEF Return, Labels

(* A session the table names is an object of the node.                     *)
LEMMA TableEntry ==
    ASSUME NodeTypeOK, NEW s, ContainsKey(s)
    PROVE  /\ s \in Sids /\ s \in SidX
           /\ sessions[s] \in Nat /\ sessions[s] \in 1 .. Len(objects)
           /\ objects[sessions[s]] \in SessionObjects
           /\ objects[sessions[s]].sid = s /\ objects[sessions[s]].room \in RoomX
           /\ \A t \in DOMAIN objects[sessions[s]].tracks :
                  /\ t \in Tids /\ t \in TidX
                  /\ objects[sessions[s]].tracks[t] \in KindX
           /\ IsFiniteSet(DOMAIN objects[sessions[s]].tracks)
  <1>1. /\ s \in Sids /\ sessions[s] \in 1 .. Len(objects)
        /\ objects \in Seq(SessionObjects) /\ objects[sessions[s]].sid = s
    BY DEF NodeTypeOK, TableTypeOK, ContainsKey
  <1>2. objects[sessions[s]] \in SessionObjects /\ sessions[s] \in Nat
    BY <1>1
  <1>3. /\ objects[sessions[s]].room \in RoomX
        /\ objects[sessions[s]].tracks \in TrackMaps
    BY <1>2 DEF SessionObjects
  <1> QED  BY <1>1, <1>2, <1>3 DEF SidX, TidX, TrackMaps

LEMMA RecordingTodos ==
    ASSUME NodeTypeOK, NEW s
    PROVE  RecordingsOf(s) \in Todos /\ StreamsOf(s) \in Todos
  <1>1. RecordingsOf(s) \subseteq Nat
    BY DEF NodeTypeOK, RegistryTypeOK, RecordingsOf
  <1>2. StreamsOf(s) \subseteq StreamIds
    BY DEF NodeTypeOK, RegistryTypeOK, StreamsOf
  <1> QED  BY <1>1, <1>2 DEF Todos

Typed(k) ==
    /\ pc' \in [Workers -> Labels] /\ req' \in [Workers -> Requests]
    /\ OthersKept(k)
    /\ pc[k] \in Labels /\ req[k] \in Requests /\ req'[k] \in Requests

LEMMA RequestStep ==
    ASSUME NodeTypeOK, NEW k \in Workers
    PROVE
      /\ \A s \in Sids, r \in Rooms : CreateCheck(k, s, r) =>
             /\ Typed(k) /\ pc'[k] = "join"
             /\ req'[k] = [NoRequest EXCEPT !.op = "create", !.sid = s, !.room = r]
      /\ \A s \in Sids : DestroySession(k, s) =>
             /\ Typed(k) /\ pc'[k] = "stop"
             /\ req'[k] = [NoRequest EXCEPT !.op = "destroy", !.sid = s,
                                            !.todo = RecordingsOf(s)]
      /\ \A s \in Sids : StartRecording(k, s) =>
             /\ Typed(k) /\ pc'[k] = "files"
             /\ req'[k] = [NoRequest EXCEPT !.op = "startRecording", !.sid = s,
                               !.obj = sessions[s], !.rid = lastRecording + 1]
      /\ \A s \in Sids, t \in Tids : RemoveTrack(k, s, t) =>
             /\ Typed(k) /\ pc'[k] = "untrack"
             /\ req'[k] = [NoRequest EXCEPT !.op = "removeTrack", !.sid = s,
                               !.tid = t, !.obj = sessions[s], !.todo = {<<s, t>>}]
      /\ \A s \in Sids, t \in Tids : Push(k, s, t) =>
             /\ Typed(k) /\ pc'[k] = "room"
             /\ req'[k] = [NoRequest EXCEPT !.op = "push", !.sid = s, !.tid = t,
                               !.kind = objects[sessions[s]].tracks[t]]
      /\ \A s \in Sids, t \in Tids, kd \in Kinds : AddTrack(k, s, t, kd) =>
             /\ Typed(k) /\ pc'[k] = "track"
             /\ req'[k] = [NoRequest EXCEPT !.op = "addTrack", !.sid = s,
                               !.tid = t, !.kind = kd, !.obj = sessions[s],
                               !.room = objects[sessions[s]].room]
      /\ \A rid \in Answered : StopRecording(k, rid) =>
             /\ Typed(k) /\ pc'[k] = "stop"
             /\ req'[k] = [NoRequest EXCEPT !.op = "stopRecording",
                                            !.todo = {rid}]
  <1>1. WorkTypeOK /\ pc[k] \in Labels /\ req[k] \in Requests
    BY DEF NodeTypeOK, WorkTypeOK
  <1>2. /\ Sids \subseteq SidX /\ Rooms \subseteq RoomX /\ Tids \subseteq TidX
        /\ Kinds \subseteq KindX
        /\ {"join", "stop", "files", "untrack", "room", "track"} \subseteq Labels
    BY DEF SidX, RoomX, TidX, KindX, Labels
  <1>3. ASSUME NEW r \in Requests, NEW op, NEW s, NEW at \in Labels,
               Begin(k, op, s, at, r)
        PROVE  Typed(k) /\ pc'[k] = at /\ req'[k] = r
    BY <1>1, <1>3, BeginType DEF Typed
  <1>4. ASSUME NEW s \in Sids, NEW r \in Rooms, CreateCheck(k, s, r)
        PROVE  /\ Typed(k) /\ pc'[k] = "join"
               /\ req'[k] = [NoRequest EXCEPT !.op = "create", !.sid = s, !.room = r]
    <2> DEFINE q == [NoRequest EXCEPT !.op = "create", !.sid = s, !.room = r]
    <2>1. q \in Requests
      BY <1>2, NoRequestType DEF Requests, Ops
    <2>2. Begin(k, "create", s, "join", q)
      BY <1>4 DEF CreateCheck
    <2> HIDE DEF q
    <2>3. Typed(k) /\ pc'[k] = "join" /\ req'[k] = q
      BY <1>2, <1>3, <2>1, <2>2
    <2> QED  BY <2>3 DEF q
  <1>5. ASSUME NEW s \in Sids, DestroySession(k, s)
        PROVE  /\ Typed(k) /\ pc'[k] = "stop"
               /\ req'[k] = [NoRequest EXCEPT !.op = "destroy", !.sid = s,
                                              !.todo = RecordingsOf(s)]
    <2> DEFINE q == [NoRequest EXCEPT !.op = "destroy", !.sid = s,
                                      !.todo = RecordingsOf(s)]
    <2>1. q \in Requests
      BY <1>2, NoRequestType, RecordingTodos DEF Requests, Ops
    <2>2. Begin(k, "destroy", s, "stop", q)
      BY <1>5 DEF DestroySession
    <2> HIDE DEF q
    <2>3. Typed(k) /\ pc'[k] = "stop" /\ req'[k] = q
      BY <1>2, <1>3, <2>1, <2>2
    <2> QED  BY <2>3 DEF q
  <1>6. ASSUME NEW s \in Sids, StartRecording(k, s)
        PROVE  /\ Typed(k) /\ pc'[k] = "files"
               /\ req'[k] = [NoRequest EXCEPT !.op = "startRecording", !.sid = s,
                               !.obj = sessions[s], !.rid = lastRecording + 1]
    <2> DEFINE q == [NoRequest EXCEPT !.op = "startRecording", !.sid = s,
                               !.obj = sessions[s], !.rid = lastRecording + 1]
    <2>0. sessions[s] \in Nat /\ lastRecording + 1 \in Nat
      BY <1>6, TableEntry DEF StartRecording, NodeTypeOK, RegistryTypeOK
    <2>1. q \in Requests
      BY <1>2, <2>0, NoRequestType DEF Requests, Ops
    <2>2. Begin(k, "startRecording", s, "files", q)
      BY <1>6 DEF StartRecording
    <2> HIDE DEF q
    <2>3. Typed(k) /\ pc'[k] = "files" /\ req'[k] = q
      BY <1>2, <1>3, <2>1, <2>2
    <2> QED  BY <2>3 DEF q
  <1>7. ASSUME NEW s \in Sids, NEW t \in Tids, RemoveTrack(k, s, t)
        PROVE  /\ Typed(k) /\ pc'[k] = "untrack"
               /\ req'[k] = [NoRequest EXCEPT !.op = "removeTrack", !.sid = s,
                               !.tid = t, !.obj = sessions[s], !.todo = {<<s, t>>}]
    <2> DEFINE q == [NoRequest EXCEPT !.op = "removeTrack", !.sid = s,
                               !.tid = t, !.obj = sessions[s], !.todo = {<<s, t>>}]
    <2>0. sessions[s] \in Nat /\ {<<s, t>>} \in Todos
      <3>1. <<s, t>> \in StreamIds
        BY <1>2 DEF StreamIds
      <3> QED  BY <1>7, <3>1, TableEntry DEF RemoveTrack, Todos
    <2>1. q \in Requests
      BY <1>2, <2>0, NoRequestType DEF Requests, Ops
    <2>2. Begin(k, "removeTrack", s, "untrack", q)
      BY <1>7 DEF RemoveTrack
    <2> HIDE DEF q
    <2>3. Typed(k) /\ pc'[k] = "untrack" /\ req'[k] = q
      BY <1>2, <1>3, <2>1, <2>2
    <2> QED  BY <2>3 DEF q
  <1>8. ASSUME NEW s \in Sids, NEW t \in Tids, Push(k, s, t)
        PROVE  /\ Typed(k) /\ pc'[k] = "room"
               /\ req'[k] = [NoRequest EXCEPT !.op = "push", !.sid = s, !.tid = t,
                               !.kind = objects[sessions[s]].tracks[t]]
    <2> DEFINE q == [NoRequest EXCEPT !.op = "push", !.sid = s, !.tid = t,
                               !.kind = objects[sessions[s]].tracks[t]]
    <2>0. objects[sessions[s]].tracks[t] \in KindX
      BY <1>8, TableEntry DEF Push
    <2>1. q \in Requests
      BY <1>2, <2>0, NoRequestType DEF Requests, Ops
    <2>2. Begin(k, "push", s, "room", q)
      BY <1>8 DEF Push
    <2> HIDE DEF q
    <2>3. Typed(k) /\ pc'[k] = "room" /\ req'[k] = q
      BY <1>2, <1>3, <2>1, <2>2
    <2> QED  BY <2>3 DEF q
  <1>9. ASSUME NEW s \in Sids, NEW t \in Tids, NEW kd \in Kinds,
               AddTrack(k, s, t, kd)
        PROVE  /\ Typed(k) /\ pc'[k] = "track"
               /\ req'[k] = [NoRequest EXCEPT !.op = "addTrack", !.sid = s,
                               !.tid = t, !.kind = kd, !.obj = sessions[s],
                               !.room = objects[sessions[s]].room]
    <2> DEFINE q == [NoRequest EXCEPT !.op = "addTrack", !.sid = s,
                               !.tid = t, !.kind = kd, !.obj = sessions[s],
                               !.room = objects[sessions[s]].room]
    <2>0. sessions[s] \in Nat /\ objects[sessions[s]].room \in RoomX
      BY <1>9, TableEntry DEF AddTrack
    <2>1. q \in Requests
      BY <1>2, <2>0, NoRequestType DEF Requests, Ops
    <2>2. Begin(k, "addTrack", s, "track", q)
      BY <1>9 DEF AddTrack
    <2> HIDE DEF q
    <2>3. Typed(k) /\ pc'[k] = "track" /\ req'[k] = q
      BY <1>2, <1>3, <2>1, <2>2
    <2> QED  BY <2>3 DEF q
  <1>10. ASSUME NEW rid \in Answered, StopRecording(k, rid)
         PROVE  /\ Typed(k) /\ pc'[k] = "stop"
                /\ req'[k] = [NoRequest EXCEPT !.op = "stopRecording",
                                               !.todo = {rid}]
    <2> DEFINE q == [NoRequest EXCEPT !.op = "stopRecording", !.todo = {rid}]
    <2>0. {rid} \in Todos
      BY DEF Todos, Answered, NodeTypeOK, RegistryTypeOK
    <2>1. q \in Requests
      BY <1>2, <2>0, NoRequestType DEF Requests, Ops
    <2>2. Begin(k, "stopRecording", NoRequest.sid, "stop", q)
      BY <1>10 DEF StopRecording
    <2> HIDE DEF q
    <2>3. Typed(k) /\ pc'[k] = "stop" /\ req'[k] = q
      BY <1>2, <1>3, <2>1, <2>2
    <2> QED  BY <2>3 DEF q
  <1> QED  BY <1>4, <1>5, <1>6, <1>7, <1>8, <1>9, <1>10, Zenon

LEMMA ReturnStep ==
    ASSUME NodeTypeOK, NEW k \in Workers,
           \/ CreateInsert(k) \/ StopReturn(k) \/ Uncount(k) \/ AddTrackCount(k)
           \/ PushSend(k) \/ StartRecordingFails(k) \/ StartRecordingEntry(k)
    PROVE  Typed(k) /\ pc'[k] = "idle" /\ req'[k] = NoRequest
  <1>1. \E from : Return(k, from)
    BY DEF CreateInsert, StopReturn, Uncount, AddTrackCount, PushSend,
       StartRecordingFails, StartRecordingEntry
  <1>2. WorkTypeOK
    BY DEF NodeTypeOK
  <1> QED  BY <1>1, <1>2, ReturnType DEF Typed, WorkTypeOK

LEMMA GotoStep ==
    ASSUME NodeTypeOK, NEW k \in Workers
    PROVE  /\ CreateJoin(k) => Typed(k) /\ req'[k] = req[k] /\ pc'[k] = "insert"
           /\ StopForget(k) => Typed(k) /\ req'[k] = req[k] /\ pc'[k] = "stop"
           /\ DestroyLeave(k) => Typed(k) /\ req'[k] = req[k] /\ pc'[k] = "look"
           /\ DestroyLook(k) => Typed(k) /\ req'[k] = req[k]
                                /\ pc'[k] = IF RoomIsEmpty(req[k].room)
                                            THEN "drop" ELSE "collect"
           /\ DestroyDropRoom(k) => Typed(k) /\ req'[k] = req[k]
                                    /\ pc'[k] = "collect"
           /\ Unindex(k) => Typed(k) /\ req'[k] = req[k] /\ pc'[k] = "unregister"
           /\ AddTrackInsert(k) => Typed(k) /\ req'[k] = req[k]
                                   /\ pc'[k] = "stream"
           /\ AddTrackStream(k) => Typed(k) /\ req'[k] = req[k]
                                   /\ pc'[k] = "index"
           /\ AddTrackIndex(k) => Typed(k) /\ req'[k] = req[k]
                                  /\ pc'[k] = "count"
           /\ RemoveTrackEntry(k) => Typed(k) /\ req'[k] = req[k]
                                     /\ pc'[k] = "unregister"
           /\ StartRecordingTask(k) => Typed(k) /\ req'[k] = req[k]
                                       /\ pc'[k] = "recorded"
  <1>1. WorkTypeOK
    BY DEF NodeTypeOK
  <1>2. ASSUME NEW from, NEW to \in Labels, Goto(k, from, to), UNCHANGED req
        PROVE  Typed(k) /\ req'[k] = req[k] /\ pc'[k] = to
    BY <1>1, <1>2, GotoType DEF Typed, WorkTypeOK
  <1>3. {"insert", "stop", "look", "drop", "collect", "unregister", "stream",
         "index", "count", "recorded"} \subseteq Labels
    BY DEF Labels
  <1>4. CreateJoin(k) => Typed(k) /\ req'[k] = req[k] /\ pc'[k] = "insert"
    BY <1>2, <1>3 DEF CreateJoin
  <1>5. StopForget(k) => Typed(k) /\ req'[k] = req[k] /\ pc'[k] = "stop"
    BY <1>2, <1>3 DEF StopForget
  <1>6. DestroyLeave(k) => Typed(k) /\ req'[k] = req[k] /\ pc'[k] = "look"
    BY <1>2, <1>3 DEF DestroyLeave
  <1>7. ASSUME DestroyLook(k)
        PROVE  /\ Typed(k) /\ req'[k] = req[k]
               /\ pc'[k] = IF RoomIsEmpty(req[k].room) THEN "drop" ELSE "collect"
    <2> DEFINE to == IF RoomIsEmpty(req[k].room) THEN "drop" ELSE "collect"
    <2>1. to \in Labels
      BY <1>3
    <2>2. Goto(k, "look", to) /\ UNCHANGED req
      BY <1>7 DEF DestroyLook
    <2> HIDE DEF to
    <2>3. Typed(k) /\ req'[k] = req[k] /\ pc'[k] = to
      BY <1>2, <2>1, <2>2
    <2> QED  BY <2>3 DEF to
  <1>8. DestroyDropRoom(k) => Typed(k) /\ req'[k] = req[k] /\ pc'[k] = "collect"
    BY <1>2, <1>3 DEF DestroyDropRoom
  <1>9. Unindex(k) => Typed(k) /\ req'[k] = req[k] /\ pc'[k] = "unregister"
    BY <1>2, <1>3 DEF Unindex
  <1>10. AddTrackInsert(k) => Typed(k) /\ req'[k] = req[k] /\ pc'[k] = "stream"
    BY <1>2, <1>3 DEF AddTrackInsert
  <1>11. AddTrackStream(k) => Typed(k) /\ req'[k] = req[k] /\ pc'[k] = "index"
    BY <1>2, <1>3 DEF AddTrackStream
  <1>12. AddTrackIndex(k) => Typed(k) /\ req'[k] = req[k] /\ pc'[k] = "count"
    BY <1>2, <1>3 DEF AddTrackIndex
  <1>13. RemoveTrackEntry(k) => Typed(k) /\ req'[k] = req[k]
                                /\ pc'[k] = "unregister"
    BY <1>2, <1>3 DEF RemoveTrackEntry
  <1>14. StartRecordingTask(k) => Typed(k) /\ req'[k] = req[k]
                                  /\ pc'[k] = "recorded"
    BY <1>2, <1>3 DEF StartRecordingTask
  <1> QED  BY <1>4, <1>5, <1>6, <1>7, <1>8, <1>9, <1>10, <1>11, <1>12, <1>13,
              <1>14

LEMMA SeqWider ==
    ASSUME NEW A, NEW B, A \subseteq B, NEW q \in Seq(A)
    PROVE  q \in Seq(B)
  OBVIOUS

(* The room lists hold session ids, and so does what routing takes of them.*)
LEMMA PeerIdsType ==
    ASSUME NodeTypeOK, NEW r, NEW s
    PROVE  /\ PeerIds(r, s) \in Seq(Sids) /\ PeerIds(r, s) \in IdLists
           /\ \A x \in ToSet(PeerIds(r, s)) :
                  x # s /\ r \in DOMAIN rooms /\ x \in ToSet(rooms[r])
  <1>1. PeerIds(r, s) \in Seq(Sids)
        /\ \A x \in ToSet(PeerIds(r, s)) :
              x # s /\ r \in DOMAIN rooms /\ x \in ToSet(rooms[r])
    <2>1. CASE r \in DOMAIN rooms
      <3>1. rooms[r] \in Seq(Sids)
        BY <2>1 DEF NodeTypeOK, TableTypeOK
      <3>2. /\ Retain(rooms[r], s) \in Seq(Sids)
            /\ ToSet(Retain(rooms[r], s)) = ToSet(rooms[r]) \ {s}
        BY <3>1, RetainOthers
      <3> QED  BY <2>1, <3>2 DEF PeerIds
    <2>2. CASE r \notin DOMAIN rooms
      BY <2>2, ToSetEmpty DEF PeerIds
    <2> QED  BY <2>1, <2>2
  <1>2. Sids \subseteq SidX \cup StreamIds
    BY DEF SidX
  <1>3. PeerIds(r, s) \in IdLists
    BY <1>1, <1>2, SeqWider DEF IdLists
  <1> QED  BY <1>1, <1>3

(* The tracks of the session an id names.                                  *)
LEMMA TracksType ==
    ASSUME NodeTypeOK, NEW s, NEW kd \in KindX
    PROVE  /\ IsFiniteSet(TracksOfKind(s, kd))
           /\ TracksOfKind(s, kd) \subseteq Target
           /\ \A x \in TracksOfKind(s, kd) :
                  /\ ContainsKey(s) /\ x.obj = sessions[s]
                  /\ x.obj \in 1 .. Len(objects) /\ objects[x.obj].sid = s
  <1>1. CASE ContainsKey(s)
    <2> DEFINE o == sessions[s]
               D == {x \in DOMAIN objects[o].tracks : objects[o].tracks[x] = kd}
               F(t) == [obj |-> o, tid |-> t, kind |-> kd]
    <2>1. /\ o \in Nat /\ o \in 1 .. Len(objects) /\ objects[o].sid = s
          /\ \A t \in DOMAIN objects[o].tracks : t \in TidX
          /\ IsFiniteSet(DOMAIN objects[o].tracks)
      BY <1>1, TableEntry
    <2>2. TracksOfKind(s, kd) = {F(t) : t \in D}
      BY <1>1 DEF TracksOfKind
    <2>3. IsFiniteSet(D)
      BY <2>1, FS_Subset
    <2>4. D \subseteq TidX
      BY <2>1
    <2> HIDE DEF D, o
    <2>5. IsFiniteSet({F(t) : t \in D})
      <3> DEFINE f == [t \in D |-> F(t)]
                 T == {F(t) : t \in D}
      <3>1. f \in Surjection(D, T)
        BY DEF Surjection
      <3> HIDE DEF f, T
      <3>2. IsFiniteSet(T)
        BY <2>3, <3>1, FS_Surjection
      <3> QED  BY <3>2 DEF T
    <2> QED  BY <1>1, <2>1, <2>2, <2>4, <2>5 DEF Target, o
  <1>2. CASE ~ContainsKey(s)
    BY <1>2, FS_EmptySet DEF TracksOfKind
  <1> QED  BY <1>1, <1>2

(* One field of a request, the others as they were.                        *)
LEMMA FieldUpdate ==
    ASSUME WorkTypeOK, NEW k \in Workers, NEW from, NEW to \in Labels,
           NEW r \in Requests, Goto(k, from, to), req' = [req EXCEPT ![k] = r]
    PROVE  Typed(k) /\ pc'[k] = to /\ req'[k] = r
  BY GotoWithType DEF Typed, WorkTypeOK

LEMMA UpdateStep ==
    ASSUME NodeTypeOK, NEW k \in Workers
    PROVE
      /\ StopRemove(k) => \E rid \in req[k].todo :
             /\ Typed(k) /\ rid \in Nat /\ RemoveRecording(rid)
             /\ pc'[k] = IF rid \in DOMAIN recordings THEN "forget" ELSE "stop"
             /\ req'[k] = [req[k] EXCEPT !.rid = rid, !.todo = @ \ {rid}]
      /\ DestroyRemove(k) =>
             /\ Typed(k)
             /\ IF ContainsKey(req[k].sid)
                THEN /\ pc'[k] = "leave"
                     /\ req'[k] = [req[k] EXCEPT
                            !.room = objects[sessions[req[k].sid]].room]
                ELSE pc'[k] = "idle" /\ req'[k] = NoRequest
      /\ DestroyCollect(k) =>
             /\ Typed(k) /\ pc'[k] = "unregister"
             /\ req'[k] = [req[k] EXCEPT !.todo = StreamsOf(req[k].sid)]
      /\ Unregister(k) => \E id \in req[k].todo :
             /\ Typed(k) /\ id \in StreamIds /\ RemoveStream(id)
             /\ IF id \in DOMAIN streams
                THEN /\ pc'[k] = "unindex"
                     /\ req'[k] = [req[k] EXCEPT !.room = streams[id],
                                       !.ids = <<id>>, !.todo = @ \ {id}]
                ELSE /\ pc'[k] = "unregister"
                     /\ req'[k] = [req[k] EXCEPT !.todo = @ \ {id}]
      /\ PushRoom(k) =>
             /\ Typed(k)
             /\ IF ContainsKey(req[k].sid)
                THEN /\ pc'[k] = "members"
                     /\ req'[k] = [req[k] EXCEPT
                            !.room = objects[sessions[req[k].sid]].room]
                ELSE pc'[k] = "idle" /\ req'[k] = NoRequest
      /\ PushMembers(k) =>
             /\ Typed(k) /\ pc'[k] = "peers"
             /\ req'[k] = [req[k] EXCEPT
                               !.ids = PeerIds(req[k].room, req[k].sid)]
      /\ PushPeer(k) =>
             /\ Typed(k) /\ pc'[k] = "peers"
             /\ req'[k] = [req[k] EXCEPT
                    !.got = @ \o SetToSeq(TracksOfKind(Head(req[k].ids),
                                                       req[k].kind)),
                    !.ids = Tail(@)]
  <1>1. /\ WorkTypeOK /\ req[k] \in Requests /\ req \in [Workers -> Requests]
        /\ pc[k] \in Labels
    BY DEF NodeTypeOK, WorkTypeOK
  <1>2. {"forget", "stop", "leave", "idle", "unregister", "unindex", "members",
         "peers"} \subseteq Labels
    BY DEF Labels
  <1>3. ASSUME NEW from, NEW to \in Labels, NEW r \in Requests,
               Goto(k, from, to), req' = [req EXCEPT ![k] = r]
        PROVE  Typed(k) /\ pc'[k] = to /\ req'[k] = r
    BY <1>1, <1>3, FieldUpdate
  <1>4. ASSUME NEW from, Return(k, from)
        PROVE  Typed(k) /\ pc'[k] = "idle" /\ req'[k] = NoRequest
    BY <1>1, <1>4, ReturnType DEF Typed
  <1>5. /\ \A r \in RoomX : [req[k] EXCEPT !.room = r] \in Requests
        /\ \A d \in Todos : [req[k] EXCEPT !.todo = d] \in Requests
        /\ \A q \in IdLists : [req[k] EXCEPT !.ids = q] \in Requests
    BY <1>1 DEF Requests
  <1>6. req[k].todo \in Todos /\ req[k].kind \in KindX /\ req[k].got \in TargetLists
    BY <1>1 DEF Requests
  <1>7. \A x : req[k].todo \ {x} \in Todos
    BY <1>6 DEF Todos
  <1>8. ASSUME StopRemove(k)
        PROVE  \E rid \in req[k].todo :
             /\ Typed(k) /\ rid \in Nat /\ RemoveRecording(rid)
             /\ pc'[k] = IF rid \in DOMAIN recordings THEN "forget" ELSE "stop"
             /\ req'[k] = [req[k] EXCEPT !.rid = rid, !.todo = @ \ {rid}]
    <2>1. PICK rid \in req[k].todo :
              /\ Goto(k, "stop", IF rid \in DOMAIN recordings THEN "forget"
                                                              ELSE "stop")
              /\ req' = [req EXCEPT ![k].rid = rid, ![k].todo = @ \ {rid}]
              /\ RemoveRecording(rid)
      BY <1>8 DEF StopRemove
    <2> DEFINE q == [req[k] EXCEPT !.rid = rid, !.todo = @ \ {rid}]
               to == IF rid \in DOMAIN recordings THEN "forget" ELSE "stop"
    <2>2. pc[k] = "stop"
      BY <2>1 DEF Goto
    <2>3. rid \in Nat
      BY <2>2 DEF NodeTypeOK, HandlerTypeOK, HandlerAt
    <2>4. q \in Requests
      BY <1>1, <1>7, <2>3 DEF Requests
    <2>5. req' = [req EXCEPT ![k] = q]
      BY <1>1, <2>1
    <2>6. to \in Labels /\ Goto(k, "stop", to)
      BY <1>2, <2>1
    <2> HIDE DEF q, to
    <2>7. Typed(k) /\ pc'[k] = to /\ req'[k] = q
      BY <1>3, <2>4, <2>5, <2>6
    <2> QED  BY <2>1, <2>3, <2>7, Zenon DEF q, to
  <1>9. ASSUME DestroyRemove(k)
        PROVE  /\ Typed(k)
               /\ IF ContainsKey(req[k].sid)
                  THEN /\ pc'[k] = "leave"
                       /\ req'[k] = [req[k] EXCEPT
                              !.room = objects[sessions[req[k].sid]].room]
                  ELSE pc'[k] = "idle" /\ req'[k] = NoRequest
    <2>1. CASE ContainsKey(req[k].sid)
      <3> DEFINE r == objects[sessions[req[k].sid]].room
                 q == [req[k] EXCEPT !.room = r]
      <3>1. r \in RoomX
        BY <2>1, TableEntry
      <3>2. Goto(k, "stop", "leave") /\ req' = [req EXCEPT ![k].room = r]
        BY <1>9, <2>1 DEF DestroyRemove
      <3> HIDE DEF r
      <3>3. req' = [req EXCEPT ![k] = q] /\ q \in Requests
        BY <1>1, <1>5, <3>1, <3>2
      <3> HIDE DEF q
      <3>4. Typed(k) /\ pc'[k] = "leave" /\ req'[k] = q
        BY <1>2, <1>3, <3>2, <3>3
      <3> QED  BY <2>1, <3>4 DEF q, r
    <2>2. CASE ~ContainsKey(req[k].sid)
      BY <1>4, <1>9, <2>2 DEF DestroyRemove
    <2> QED  BY <2>1, <2>2
  <1>10. ASSUME DestroyCollect(k)
         PROVE  /\ Typed(k) /\ pc'[k] = "unregister"
                /\ req'[k] = [req[k] EXCEPT !.todo = StreamsOf(req[k].sid)]
    <2> DEFINE d == StreamsOf(req[k].sid)
               q == [req[k] EXCEPT !.todo = d]
    <2>1. d \in Todos
      BY RecordingTodos
    <2>2. Goto(k, "collect", "unregister") /\ req' = [req EXCEPT ![k].todo = d]
      BY <1>10 DEF DestroyCollect
    <2> HIDE DEF d
    <2>3. req' = [req EXCEPT ![k] = q] /\ q \in Requests
      BY <1>1, <1>5, <2>1, <2>2
    <2> HIDE DEF q
    <2>4. Typed(k) /\ pc'[k] = "unregister" /\ req'[k] = q
      BY <1>2, <1>3, <2>2, <2>3
    <2> QED  BY <2>4 DEF q, d
  <1>11. ASSUME Unregister(k)
         PROVE  \E id \in req[k].todo :
             /\ Typed(k) /\ id \in StreamIds /\ RemoveStream(id)
             /\ IF id \in DOMAIN streams
                THEN /\ pc'[k] = "unindex"
                     /\ req'[k] = [req[k] EXCEPT !.room = streams[id],
                                       !.ids = <<id>>, !.todo = @ \ {id}]
                ELSE /\ pc'[k] = "unregister"
                     /\ req'[k] = [req[k] EXCEPT !.todo = @ \ {id}]
    <2>1. PICK id \in req[k].todo :
            /\ IF id \in DOMAIN streams
               THEN /\ Goto(k, "unregister", "unindex")
                    /\ req' = [req EXCEPT ![k].room = streams[id],
                                          ![k].ids = <<id>>,
                                          ![k].todo = @ \ {id}]
               ELSE /\ Goto(k, "unregister", "unregister")
                    /\ req' = [req EXCEPT ![k].todo = @ \ {id}]
            /\ RemoveStream(id)
      BY <1>11, Zenon DEF Unregister
    <2>2. pc[k] = "unregister"
      BY <1>11 DEF Unregister
    <2>3. id \in StreamIds
      BY <2>2 DEF NodeTypeOK, HandlerTypeOK, HandlerAt
    <2>4. CASE id \in DOMAIN streams
      <3> DEFINE q == [req[k] EXCEPT !.room = streams[id], !.ids = <<id>>,
                                     !.todo = @ \ {id}]
      <3>1. streams[id] \in RoomX /\ <<id>> \in IdLists
        BY <2>3, <2>4 DEF NodeTypeOK, RegistryTypeOK, IdLists
      <3>2. q \in Requests
        BY <1>1, <1>7, <3>1 DEF Requests
      <3>3. req' = [req EXCEPT ![k] = q] /\ Goto(k, "unregister", "unindex")
        BY <1>1, <2>1, <2>4
      <3> HIDE DEF q
      <3>4. Typed(k) /\ pc'[k] = "unindex" /\ req'[k] = q
        BY <1>2, <1>3, <3>2, <3>3
      <3> QED  BY <2>1, <2>3, <2>4, <3>4, Zenon DEF q
    <2>5. CASE id \notin DOMAIN streams
      <3> DEFINE q == [req[k] EXCEPT !.todo = @ \ {id}]
      <3>1. req' = [req EXCEPT ![k] = q] /\ Goto(k, "unregister", "unregister")
        BY <1>1, <2>1, <2>5
      <3>2. q \in Requests
        BY <1>1, <1>7 DEF Requests
      <3> HIDE DEF q
      <3>3. Typed(k) /\ pc'[k] = "unregister" /\ req'[k] = q
        BY <1>2, <1>3, <3>1, <3>2
      <3> QED  BY <2>1, <2>3, <2>5, <3>3 DEF q
    <2> QED  BY <2>4, <2>5, Zenon
  <1>12. ASSUME PushRoom(k)
         PROVE  /\ Typed(k)
                /\ IF ContainsKey(req[k].sid)
                   THEN /\ pc'[k] = "members"
                        /\ req'[k] = [req[k] EXCEPT
                               !.room = objects[sessions[req[k].sid]].room]
                   ELSE pc'[k] = "idle" /\ req'[k] = NoRequest
    <2>1. CASE ContainsKey(req[k].sid)
      <3> DEFINE r == objects[sessions[req[k].sid]].room
                 q == [req[k] EXCEPT !.room = r]
      <3>1. r \in RoomX
        BY <2>1, TableEntry
      <3>2. Goto(k, "room", "members") /\ req' = [req EXCEPT ![k].room = r]
        BY <1>12, <2>1 DEF PushRoom
      <3> HIDE DEF r
      <3>3. req' = [req EXCEPT ![k] = q] /\ q \in Requests
        BY <1>1, <1>5, <3>1, <3>2
      <3> HIDE DEF q
      <3>4. Typed(k) /\ pc'[k] = "members" /\ req'[k] = q
        BY <1>2, <1>3, <3>2, <3>3
      <3> QED  BY <2>1, <3>4 DEF q, r
    <2>2. CASE ~ContainsKey(req[k].sid)
      BY <1>4, <1>12, <2>2 DEF PushRoom
    <2> QED  BY <2>1, <2>2
  <1>13. ASSUME PushMembers(k)
         PROVE  /\ Typed(k) /\ pc'[k] = "peers"
                /\ req'[k] = [req[k] EXCEPT
                                  !.ids = PeerIds(req[k].room, req[k].sid)]
    <2> DEFINE d == PeerIds(req[k].room, req[k].sid)
               q == [req[k] EXCEPT !.ids = d]
    <2>1. d \in IdLists
      BY PeerIdsType
    <2>2. Goto(k, "members", "peers") /\ req' = [req EXCEPT ![k].ids = d]
      BY <1>13 DEF PushMembers
    <2> HIDE DEF d
    <2>3. req' = [req EXCEPT ![k] = q] /\ q \in Requests
      BY <1>1, <1>5, <2>1, <2>2
    <2> HIDE DEF q
    <2>4. Typed(k) /\ pc'[k] = "peers" /\ req'[k] = q
      BY <1>2, <1>3, <2>2, <2>3
    <2> QED  BY <2>4 DEF q, d
  <1>14. ASSUME PushPeer(k)
         PROVE  /\ Typed(k) /\ pc'[k] = "peers"
                /\ req'[k] = [req[k] EXCEPT
                    !.got = @ \o SetToSeq(TracksOfKind(Head(req[k].ids),
                                                       req[k].kind)),
                    !.ids = Tail(@)]
    <2> DEFINE A == TracksOfKind(Head(req[k].ids), req[k].kind)
               add == SetToSeq(A)
               q == [req[k] EXCEPT !.got = @ \o add, !.ids = Tail(@)]
    <2>1. add \in Seq(Target)
      <3>1. IsFiniteSet(A) /\ A \subseteq Target
        BY <1>6, TracksType
      <3> HIDE DEF A
      <3>2. SetToSeq(A) \in Seq(A)
        BY <3>1, SetToSeqLists
      <3> QED  BY <3>1, <3>2, SeqWider
    <2>2. /\ Goto(k, "peers", "peers") /\ req[k].ids # << >>
          /\ req' = [req EXCEPT ![k].got = @ \o add, ![k].ids = Tail(@)]
      BY <1>14 DEF PushPeer
    <2> HIDE DEF add
    <2>3. req[k].got \o add \in TargetLists
      BY <1>6, <2>1, ToSetConcat DEF TargetLists
    <2>4. Tail(req[k].ids) \in IdLists
      <3>1. req[k].ids \in IdLists
        BY <1>1 DEF Requests
      <3> QED  BY <2>2, <3>1 DEF IdLists
    <2>5. q \in Requests
      BY <1>1, <2>3, <2>4 DEF Requests
    <2>6. req' = [req EXCEPT ![k] = q]
      BY <1>1, <2>2
    <2> HIDE DEF q
    <2>7. Typed(k) /\ pc'[k] = "peers" /\ req'[k] = q
      BY <1>2, <1>3, <2>2, <2>5, <2>6
    <2> QED  BY <2>7 DEF q, add
  <1> QED  BY <1>8, <1>9, <1>10, <1>11, <1>12, <1>13, <1>14, Zenon

(* A session object is never unmade, and keeps its id and its room.        *)
ObjectsKept ==
    /\ Len(objects) <= Len(objects')
    /\ \A o \in 1 .. Len(objects) : /\ objects'[o].sid = objects[o].sid
                                    /\ objects'[o].room = objects[o].room

(* The steps that leave the session table alone.                           *)
LEMMA TableKept ==
    ASSUME NodeTypeOK, UNCHANGED tableVars
    PROVE  TableTypeOK' /\ ObjectsKept
  <1>1. UNCHANGED <<sessions, rooms, objects>>
    BY DEF tableVars
  <1>2. objects \in Seq(SessionObjects)
    BY DEF NodeTypeOK, TableTypeOK
  <1>3. Len(objects) \in Nat
    BY <1>2
  <1>4. TableTypeOK'
    BY <1>1 DEF NodeTypeOK, TableTypeOK
  <1> QED  BY <1>1, <1>3, <1>4 DEF ObjectsKept

LEMMA RoomsChange ==
    ASSUME NodeTypeOK, UNCHANGED <<sessions, objects>>,
           \A r \in DOMAIN rooms' : r \in RoomX /\ rooms'[r] \in Seq(Sids)
    PROVE  TableTypeOK' /\ ObjectsKept
  <1>1. objects \in Seq(SessionObjects)
    BY DEF NodeTypeOK, TableTypeOK
  <1>2. Len(objects) \in Nat
    BY <1>1
  <1>3. TableTypeOK'
    BY DEF NodeTypeOK, TableTypeOK
  <1> QED  BY <1>2, <1>3 DEF ObjectsKept

(* The lists of the rooms after the steps that change them.                *)
Joined(r, s) == Append(Members(r), s)

LEMMA MembersType ==
    ASSUME NodeTypeOK, NEW r
    PROVE  /\ Members(r) \in Seq(Sids)
           /\ \A s \in ToSet(Members(r)) : r \in DOMAIN rooms /\ s \in ToSet(rooms[r])
  BY ToSetEmpty DEF Members, NodeTypeOK, TableTypeOK

LEMMA TracksChange ==
    ASSUME NodeTypeOK, NEW o \in 1 .. Len(objects), NEW m \in TrackMaps,
           UNCHANGED <<sessions, rooms>>,
           objects' = [objects EXCEPT ![o].tracks = m]
    PROVE  TableTypeOK' /\ ObjectsKept
  <1>1. /\ objects \in Seq(SessionObjects) /\ Len(objects) \in Nat
        /\ DOMAIN objects = 1 .. Len(objects)
    BY DEF NodeTypeOK, TableTypeOK
  <1>2. objects[o] \in SessionObjects
    BY <1>1
  <1> DEFINE v == [objects[o] EXCEPT !.tracks = m]
  <1>3. v \in SessionObjects /\ v.sid = objects[o].sid /\ v.room = objects[o].room
    BY <1>2 DEF SessionObjects
  <1>4. objects' = [objects EXCEPT ![o] = v]
    BY <1>1
  <1> HIDE DEF v
  <1>5. objects' \in Seq(SessionObjects) /\ Len(objects') = Len(objects)
    BY <1>1, <1>3, <1>4
  <1>6. \A p \in 1 .. Len(objects) : /\ objects'[p].sid = objects[p].sid
                                     /\ objects'[p].room = objects[p].room
    BY <1>1, <1>3, <1>4
  <1>7. ObjectsKept
    BY <1>1, <1>5, <1>6 DEF ObjectsKept
  <1>8. TableTypeOK'
    BY <1>1, <1>5, <1>6 DEF NodeTypeOK, TableTypeOK
  <1> QED  BY <1>7, <1>8

LEMMA TableStep ==
    ASSUME NodeTypeOK, NEW k \in Workers, Request(k) \/ Serve(k)
    PROVE  TableTypeOK' /\ ObjectsKept
  <1>1. /\ req[k] \in Requests /\ req[k].room \in RoomX /\ req[k].tid \in TidX
        /\ req[k].kind \in KindX
    BY DEF NodeTypeOK, WorkTypeOK, Requests
  <1>2. /\ objects \in Seq(SessionObjects) /\ Len(objects) \in Nat
        /\ DOMAIN objects = 1 .. Len(objects)
    BY DEF NodeTypeOK, TableTypeOK
  <1>3. CASE CreateJoin(k)
    <2> DEFINE r == req[k].room
               s == req[k].sid
               new == Append(Members(r), s)
    <2>1. s \in Sids
      BY <1>3 DEF CreateJoin, Goto, NodeTypeOK, HandlerTypeOK, HandlerAt
    <2>2. rooms' = Put(rooms, r, new) /\ UNCHANGED <<sessions, objects>>
      BY <1>3 DEF CreateJoin, JoinRoom, Members
    <2>3. Members(r) \in Seq(Sids)
      BY MembersType
    <2>4. new \in Seq(Sids)
      BY <2>1, <2>3
    <2> HIDE DEF new, s, r
    <2>5. r \in RoomX
      BY <1>1 DEF r
    <2>6. \A q \in DOMAIN rooms' : q \in RoomX /\ rooms'[q] \in Seq(Sids)
      BY <2>2, <2>4, <2>5 DEF Put, NodeTypeOK, TableTypeOK
    <2> QED  BY <2>2, <2>6, RoomsChange
  <1>4. CASE DestroyLeave(k)
    <2> DEFINE r == req[k].room
               s == req[k].sid
    <2>1. /\ rooms' = IF r \in DOMAIN rooms THEN Put(rooms, r, Retain(rooms[r], s))
                                            ELSE rooms
          /\ UNCHANGED <<sessions, objects>>
      BY <1>4 DEF DestroyLeave, LeaveRoom
    <2> HIDE DEF r, s
    <2>2. r \in DOMAIN rooms => Retain(rooms[r], s) \in Seq(Sids)
      BY RetainOthers DEF NodeTypeOK, TableTypeOK
    <2>3. \A q \in DOMAIN rooms' : q \in RoomX /\ rooms'[q] \in Seq(Sids)
      BY <2>1, <2>2 DEF Put, NodeTypeOK, TableTypeOK
    <2> QED  BY <2>1, <2>3, RoomsChange
  <1>5. CASE DestroyDropRoom(k)
    <2>1. rooms' = Delete(rooms, req[k].room) /\ UNCHANGED <<sessions, objects>>
      BY <1>5 DEF DestroyDropRoom, RemoveRoom
    <2>2. \A q \in DOMAIN rooms' : q \in RoomX /\ rooms'[q] \in Seq(Sids)
      BY <2>1 DEF Delete, Restrict, NodeTypeOK, TableTypeOK
    <2> QED  BY <2>1, <2>2, RoomsChange
  <1>6. CASE DestroyRemove(k)
    <2>1. sessions' = Delete(sessions, req[k].sid) /\ UNCHANGED <<rooms, objects>>
      BY <1>6 DEF DestroyRemove, RemoveSession
    <2>2. \A s \in DOMAIN sessions' : s \in DOMAIN sessions
                                      /\ sessions'[s] = sessions[s]
      BY <2>1 DEF Delete, Restrict
    <2>3. TableTypeOK'
      BY <2>1, <2>2 DEF NodeTypeOK, TableTypeOK
    <2> QED  BY <1>2, <2>1, <2>3 DEF ObjectsKept
  <1>7. CASE CreateInsert(k)
    <2> DEFINE s == req[k].sid
               v == [sid |-> s, room |-> req[k].room, tracks |-> EmptyMap]
    <2>1. s \in Sids
      BY <1>7 DEF CreateInsert, Return, Goto, NodeTypeOK, HandlerTypeOK, HandlerAt
    <2>2. v \in SessionObjects /\ v.sid = s
      BY <1>1, <2>1, Empties DEF SessionObjects
    <2>3. /\ objects' = Append(objects, v) /\ UNCHANGED rooms
          /\ sessions' = Put(sessions, s, Len(objects) + 1)
      BY <1>7 DEF CreateInsert, InsertSession
    <2> HIDE DEF v, s
    <2>4. /\ objects' \in Seq(SessionObjects) /\ Len(objects') = Len(objects) + 1
          /\ \A o \in 1 .. Len(objects) : objects'[o] = objects[o]
          /\ objects'[Len(objects) + 1] = v
      BY <1>2, <2>2, <2>3
    <2>5. ObjectsKept
      BY <1>2, <2>4 DEF ObjectsKept
    <2>6. ASSUME NEW x \in DOMAIN sessions'
          PROVE  /\ x \in Sids /\ sessions'[x] \in 1 .. Len(objects')
                 /\ objects'[sessions'[x]].sid = x
      <3>1. CASE x = s
        <4>1. sessions'[x] = Len(objects) + 1
          BY <2>3, <3>1 DEF Put
        <4> QED  BY <1>2, <2>1, <2>2, <2>4, <3>1, <4>1
      <3>2. CASE x # s
        <4>1. x \in DOMAIN sessions /\ sessions'[x] = sessions[x]
          BY <2>3, <3>2 DEF Put
        <4>2. x \in Sids /\ sessions[x] \in 1 .. Len(objects)
              /\ objects[sessions[x]].sid = x
          BY <4>1 DEF NodeTypeOK, TableTypeOK
        <4> QED  BY <1>2, <2>4, <4>1, <4>2
      <3> QED  BY <3>1, <3>2
    <2>7. TableTypeOK'
      BY <2>3, <2>4, <2>6 DEF NodeTypeOK, TableTypeOK
    <2> QED  BY <2>5, <2>7
  <1>8. CASE AddTrackInsert(k)
    <2> DEFINE o == req[k].obj
               m == Put(objects[o].tracks, req[k].tid, req[k].kind)
    <2>1. o \in 1 .. Len(objects)
      BY <1>8 DEF AddTrackInsert, Goto, NodeTypeOK, HandlerTypeOK, HandlerAt
    <2>2. objects[o].tracks \in TrackMaps
      <3>1. objects[o] \in SessionObjects
        BY <1>2, <2>1
      <3> QED  BY <3>1 DEF SessionObjects
    <2>3. m \in TrackMaps
      <3>1. req[k].tid \in Tids
        BY <1>8 DEF AddTrackInsert, Goto, NodeTypeOK, HandlerTypeOK, HandlerAt
      <3> QED  BY <1>1, <2>2, <3>1, TrackMapType
    <2>4. objects' = [objects EXCEPT ![o].tracks = m] /\ UNCHANGED <<sessions, rooms>>
      BY <1>2, <1>8, <2>1 DEF AddTrackInsert, InsertTrack
    <2> HIDE DEF o, m
    <2> QED  BY <2>1, <2>3, <2>4, TracksChange
  <1>9. CASE RemoveTrackEntry(k)
    <2> DEFINE o == req[k].obj
               m == Delete(objects[o].tracks, req[k].tid)
    <2>1. o \in 1 .. Len(objects)
      BY <1>9 DEF RemoveTrackEntry, Goto, NodeTypeOK, HandlerTypeOK, HandlerAt
    <2>2. objects[o].tracks \in TrackMaps
      <3>1. objects[o] \in SessionObjects
        BY <1>2, <2>1
      <3> QED  BY <3>1 DEF SessionObjects
    <2>3. m \in TrackMaps
      BY <1>1, <2>2, TrackMapType, Zenon DEF KindX
    <2>4. objects' = [objects EXCEPT ![o].tracks = m] /\ UNCHANGED <<sessions, rooms>>
      BY <1>2, <1>9, <2>1 DEF RemoveTrackEntry, RemoveTrackOf
    <2> HIDE DEF o, m
    <2> QED  BY <2>1, <2>3, <2>4, TracksChange
  <1>10. CASE Request(k)
    <2>1. UNCHANGED tableVars
      BY <1>10, Zenon DEF Request, CreateCheck, DestroySession, StartRecording,
         RemoveTrack, Push, AddTrack, StopRecording
    <2> QED  BY <2>1, TableKept
  <1>11. CASE \/ StopRemove(k) \/ StopForget(k) \/ StopReturn(k)
              \/ DestroyLook(k) \/ DestroyCollect(k)
              \/ Unregister(k) \/ Unindex(k) \/ Uncount(k)
              \/ AddTrackStream(k) \/ AddTrackIndex(k) \/ AddTrackCount(k)
              \/ PushRoom(k) \/ PushMembers(k) \/ PushPeer(k) \/ PushSend(k)
              \/ StartRecordingFails(k) \/ StartRecordingTask(k)
              \/ StartRecordingEntry(k)
    <2>1. UNCHANGED tableVars
      BY <1>11, Zenon DEF StopRemove, StopForget, StopReturn, DestroyLook,
         DestroyCollect, Unregister, Unindex, Uncount, AddTrackStream,
         AddTrackIndex, AddTrackCount, PushRoom, PushMembers, PushPeer, PushSend,
         StartRecordingFails, StartRecordingTask, StartRecordingEntry
    <2> QED  BY <2>1, TableKept
  <1> QED  BY <1>3, <1>4, <1>5, <1>6, <1>7, <1>8, <1>9, <1>10, <1>11 DEF Serve

LEMMA RegistryStep ==
    ASSUME NodeTypeOK, NEW k \in Workers, Request(k) \/ Serve(k)
    PROVE  RegistryTypeOK'
  <1>1. RegistryTypeOK /\ req[k] \in Requests
    BY DEF NodeTypeOK, WorkTypeOK
  <1>2. /\ req[k].room \in RoomX /\ req[k].rid \in Nat
        /\ <<req[k].sid, req[k].tid>> \in StreamIds
    BY <1>1 DEF Requests, StreamIds
  <1>3. CASE Request(k)
    <2>1. /\ UNCHANGED <<streams, roomStreams, sessionRecordings>>
          /\ lastRecording' \in {lastRecording, lastRecording + 1}
      BY <1>3, Zenon DEF Request, CreateCheck, DestroySession, StartRecording,
         RemoveTrack, Push, AddTrack, StopRecording, registryVars, recordingVars
    <2> QED  BY <1>1, <2>1 DEF RegistryTypeOK
  <1>4. CASE Unregister(k)
    <2>1. PICK id : RemoveStream(id)
      BY <1>4 DEF Unregister
    <2>2. \A x \in DOMAIN streams' : x \in DOMAIN streams /\ streams'[x] = streams[x]
      BY <2>1 DEF RemoveStream, Delete, Restrict
    <2>3. UNCHANGED <<roomStreams, sessionRecordings, lastRecording>>
      BY <1>4 DEF Unregister, recordingVars
    <2> QED  BY <1>1, <2>2, <2>3 DEF RegistryTypeOK
  <1>5. CASE AddTrackStream(k)
    <2> DEFINE id == <<req[k].sid, req[k].tid>>
    <2>1. /\ streams' = Put(streams, id, req[k].room)
          /\ UNCHANGED <<roomStreams, sessionRecordings, lastRecording>>
      BY <1>5 DEF AddTrackStream, InsertStream, recordingVars
    <2> HIDE DEF id
    <2>2. \A x \in DOMAIN streams' : x \in StreamIds /\ streams'[x] \in RoomX
      BY <1>1, <1>2, <2>1 DEF Put, RegistryTypeOK, id
    <2> QED  BY <1>1, <2>1, <2>2 DEF RegistryTypeOK
  <1>6. CASE AddTrackIndex(k)
    <2> DEFINE id == <<req[k].sid, req[k].tid>>
               r == req[k].room
               old == IF r \in DOMAIN roomStreams THEN roomStreams[r] ELSE << >>
               new == Append(old, id)
    <2>1. /\ roomStreams' = Put(roomStreams, r, new)
          /\ UNCHANGED <<streams, sessionRecordings, lastRecording>>
      BY <1>6 DEF AddTrackIndex, IndexStream, recordingVars
    <2>2. id \in StreamIds /\ old \in Seq(StreamIds)
      BY <1>1, <1>2 DEF RegistryTypeOK
    <2> HIDE DEF id, old, r
    <2>3. new \in Seq(StreamIds)
      BY <2>2
    <2> HIDE DEF new
    <2>4. \A x \in DOMAIN roomStreams' : roomStreams'[x] \in Seq(StreamIds)
      BY <1>1, <2>1, <2>3 DEF Put, RegistryTypeOK
    <2> QED  BY <1>1, <2>1, <2>4 DEF RegistryTypeOK
  <1>7. CASE Unindex(k)
    <2> DEFINE id == req[k].ids[1]
               r == req[k].room
               new == Retain(roomStreams[r], id)
    <2>1. /\ roomStreams' = IF r \in DOMAIN roomStreams
                            THEN Put(roomStreams, r, new) ELSE roomStreams
          /\ UNCHANGED <<streams, sessionRecordings, lastRecording>>
      BY <1>7 DEF Unindex, UnindexStream, recordingVars
    <2> HIDE DEF id, r
    <2>2. r \in DOMAIN roomStreams => new \in Seq(StreamIds)
      BY <1>1, RetainOthers DEF RegistryTypeOK
    <2> HIDE DEF new
    <2>3. \A x \in DOMAIN roomStreams' : roomStreams'[x] \in Seq(StreamIds)
      BY <1>1, <2>1, <2>2 DEF Put, RegistryTypeOK
    <2> QED  BY <1>1, <2>1, <2>3 DEF RegistryTypeOK
  <1>8. CASE StopForget(k)
    <2>1. \A s \in DOMAIN sessionRecordings' :
              s \in DOMAIN sessionRecordings
              /\ sessionRecordings'[s] = sessionRecordings[s]
      BY <1>8 DEF StopForget, ForgetRecording, Restrict
    <2>2. UNCHANGED <<streams, roomStreams, lastRecording>>
      BY <1>8 DEF StopForget, registryVars
    <2> QED  BY <1>1, <2>1, <2>2 DEF RegistryTypeOK
  <1>9. CASE StartRecordingEntry(k)
    <2>1. \A s \in DOMAIN sessionRecordings' : sessionRecordings'[s] \in Nat
      BY <1>1, <1>2, <1>9 DEF StartRecordingEntry, InsertSessionRecording, Put,
         RegistryTypeOK
    <2>2. UNCHANGED <<streams, roomStreams, lastRecording>>
      BY <1>9 DEF StartRecordingEntry, registryVars
    <2> QED  BY <1>1, <2>1, <2>2 DEF RegistryTypeOK
  <1>10. CASE \/ CreateJoin(k) \/ CreateInsert(k) \/ StopRemove(k) \/ StopReturn(k)
              \/ DestroyRemove(k) \/ DestroyLeave(k) \/ DestroyLook(k)
              \/ DestroyDropRoom(k) \/ DestroyCollect(k) \/ Uncount(k)
              \/ AddTrackInsert(k) \/ AddTrackCount(k) \/ RemoveTrackEntry(k)
              \/ PushRoom(k) \/ PushMembers(k) \/ PushPeer(k) \/ PushSend(k)
              \/ StartRecordingFails(k) \/ StartRecordingTask(k)
    <2>1. UNCHANGED <<streams, roomStreams, sessionRecordings, lastRecording>>
      BY <1>10 DEF CreateJoin, CreateInsert, StopRemove, StopReturn,
         DestroyRemove, DestroyLeave, DestroyLook, DestroyDropRoom,
         DestroyCollect, Uncount, AddTrackInsert, AddTrackCount,
         RemoveTrackEntry, PushRoom, PushMembers, PushPeer, PushSend,
         StartRecordingFails, StartRecordingTask, registryVars, recordingVars
    <2> QED  BY <1>1, <2>1 DEF RegistryTypeOK
  <1> QED  BY <1>3, <1>4, <1>5, <1>6, <1>7, <1>8, <1>9, <1>10 DEF Serve

LEMMA HandlerStep ==
    ASSUME NodeTypeOK, NEW k \in Workers, Request(k) \/ Serve(k)
    PROVE  Typed(k) /\ OpAt(k)' /\ HandlerAt(k)'
  <1>1. /\ OpAt(k) /\ HandlerAt(k) /\ req[k] \in Requests /\ Len(objects) \in Nat
        /\ objects \in Seq(SessionObjects)
    BY DEF NodeTypeOK, WorkTypeOK, HandlerTypeOK, TableTypeOK
  <1>2. Len(objects) <= Len(objects') /\ Len(objects') \in Nat
    <2>1. TableTypeOK' /\ ObjectsKept
      BY TableStep
    <2> QED  BY <2>1 DEF TableTypeOK, ObjectsKept
  <1>3. ASSUME NEW s \in Sids, NEW r \in Rooms, CreateCheck(k, s, r)
        PROVE  Typed(k) /\ OpAt(k)' /\ HandlerAt(k)'
    <2>1. /\ Typed(k) /\ pc'[k] = "join"
          /\ req'[k] = [NoRequest EXCEPT !.op = "create", !.sid = s, !.room = r]
      BY <1>3, RequestStep, Zenon
    <2> QED  BY <2>1 DEF OpAt, HandlerAt, NoRequest
  <1>4. ASSUME NEW s \in Sids, DestroySession(k, s)
        PROVE  Typed(k) /\ OpAt(k)' /\ HandlerAt(k)'
    <2>1. /\ Typed(k) /\ pc'[k] = "stop"
          /\ req'[k] = [NoRequest EXCEPT !.op = "destroy", !.sid = s,
                                         !.todo = RecordingsOf(s)]
      BY <1>4, RequestStep, Zenon
    <2>2. RecordingsOf(s) \subseteq Nat
      BY DEF RecordingsOf, NodeTypeOK, RegistryTypeOK
    <2> QED  BY <2>1, <2>2 DEF OpAt, HandlerAt, NoRequest, DestroyLabels
  <1>5. ASSUME NEW s \in Sids, StartRecording(k, s)
        PROVE  Typed(k) /\ OpAt(k)' /\ HandlerAt(k)'
    <2>1. /\ Typed(k) /\ pc'[k] = "files"
          /\ req'[k] = [NoRequest EXCEPT !.op = "startRecording", !.sid = s,
                            !.obj = sessions[s], !.rid = lastRecording + 1]
      BY <1>5, RequestStep, Zenon
    <2> QED  BY <2>1 DEF OpAt, HandlerAt, NoRequest
  <1>6. ASSUME NEW s \in Sids, NEW t \in Tids, RemoveTrack(k, s, t)
        PROVE  Typed(k) /\ OpAt(k)' /\ HandlerAt(k)'
    <2>1. /\ Typed(k) /\ pc'[k] = "untrack"
          /\ req'[k] = [NoRequest EXCEPT !.op = "removeTrack", !.sid = s,
                            !.tid = t, !.obj = sessions[s], !.todo = {<<s, t>>}]
      BY <1>6, RequestStep, Zenon
    <2>2. sessions[s] \in 1 .. Len(objects)
      BY <1>6, TableEntry DEF RemoveTrack
    <2>3. sessions[s] \in 1 .. Len(objects')
      BY <1>1, <1>2, <2>2
    <2>4. {<<s, t>>} \subseteq StreamIds
      BY DEF StreamIds, SidX, TidX
    <2> QED  BY <2>1, <2>3, <2>4 DEF OpAt, HandlerAt, NoRequest
  <1>7. ASSUME NEW s \in Sids, NEW t \in Tids, Push(k, s, t)
        PROVE  Typed(k) /\ OpAt(k)' /\ HandlerAt(k)'
    <2>1. /\ Typed(k) /\ pc'[k] = "room"
          /\ req'[k] = [NoRequest EXCEPT !.op = "push", !.sid = s, !.tid = t,
                            !.kind = objects[sessions[s]].tracks[t]]
      BY <1>7, RequestStep, Zenon
    <2> QED  BY <2>1 DEF OpAt, HandlerAt, NoRequest
  <1>8. ASSUME NEW s \in Sids, NEW t \in Tids, NEW kd \in Kinds,
               AddTrack(k, s, t, kd)
        PROVE  Typed(k) /\ OpAt(k)' /\ HandlerAt(k)'
    <2>1. /\ Typed(k) /\ pc'[k] = "track"
          /\ req'[k] = [NoRequest EXCEPT !.op = "addTrack", !.sid = s,
                            !.tid = t, !.kind = kd, !.obj = sessions[s],
                            !.room = objects[sessions[s]].room]
      BY <1>8, RequestStep, Zenon
    <2>2. sessions[s] \in 1 .. Len(objects)
      BY <1>8, TableEntry DEF AddTrack
    <2>3. sessions[s] \in 1 .. Len(objects')
      BY <1>1, <1>2, <2>2
    <2> QED  BY <2>1, <2>3 DEF OpAt, HandlerAt, NoRequest
  <1>9. ASSUME NEW rid \in Answered, StopRecording(k, rid)
        PROVE  Typed(k) /\ OpAt(k)' /\ HandlerAt(k)'
    <2>1. /\ Typed(k) /\ pc'[k] = "stop"
          /\ req'[k] = [NoRequest EXCEPT !.op = "stopRecording", !.todo = {rid}]
      BY <1>9, RequestStep, Zenon
    <2>2. rid \in Nat
      BY DEF Answered, NodeTypeOK, RegistryTypeOK
    <2> QED  BY <2>1, <2>2 DEF OpAt, HandlerAt, NoRequest
  <1>10. CASE \/ CreateInsert(k) \/ StopReturn(k) \/ Uncount(k) \/ AddTrackCount(k)
              \/ PushSend(k) \/ StartRecordingFails(k) \/ StartRecordingEntry(k)
    <2>1. Typed(k) /\ pc'[k] = "idle" /\ req'[k] = NoRequest
      BY <1>10, ReturnStep
    <2> QED  BY <2>1 DEF OpAt, HandlerAt, NoRequest
  <1>11. CASE CreateJoin(k)
    BY <1>1, <1>11, GotoStep DEF CreateJoin, Goto, OpAt, HandlerAt, DestroyLabels
  <1>12. CASE StopForget(k)
    BY <1>1, <1>12, GotoStep DEF StopForget, Goto, OpAt, HandlerAt, DestroyLabels
  <1>13. CASE DestroyLeave(k) \/ DestroyLook(k) \/ DestroyDropRoom(k)
    <2>1. /\ Typed(k) /\ req'[k] = req[k] /\ pc[k] \in {"leave", "look", "drop"}
          /\ pc'[k] \in {"look", "drop", "collect"}
      BY <1>13, GotoStep DEF DestroyLeave, DestroyLook, DestroyDropRoom, Goto
    <2> QED  BY <1>1, <2>1 DEF OpAt, HandlerAt, DestroyLabels
  <1>14. CASE Unindex(k)
    BY <1>1, <1>14, GotoStep DEF Unindex, Goto, OpAt, HandlerAt, DestroyLabels
  <1>15. CASE AddTrackInsert(k) \/ AddTrackStream(k) \/ AddTrackIndex(k)
    <2>1. /\ Typed(k) /\ req'[k] = req[k] /\ pc[k] \in {"track", "stream", "index"}
          /\ pc'[k] \in {"stream", "index", "count"}
      BY <1>15, GotoStep DEF AddTrackInsert, AddTrackStream, AddTrackIndex, Goto
    <2> QED  BY <1>1, <2>1 DEF OpAt, HandlerAt, DestroyLabels
  <1>16. CASE RemoveTrackEntry(k)
    BY <1>1, <1>16, GotoStep DEF RemoveTrackEntry, Goto, OpAt, HandlerAt,
       DestroyLabels
  <1>17. CASE StartRecordingTask(k)
    BY <1>1, <1>17, GotoStep DEF StartRecordingTask, Goto, OpAt, HandlerAt,
       DestroyLabels
  <1>18. CASE StopRemove(k)
    <2>1. PICK rid \in req[k].todo :
             /\ Typed(k)
             /\ pc'[k] = IF rid \in DOMAIN recordings THEN "forget" ELSE "stop"
             /\ req'[k] = [req[k] EXCEPT !.rid = rid, !.todo = @ \ {rid}]
      BY <1>18, UpdateStep, Zenon
    <2>2. /\ req'[k].todo = req[k].todo \ {rid} /\ req'[k].got = req[k].got
          /\ req'[k].op = req[k].op
      BY <1>1, <2>1 DEF Requests
    <2>3. pc[k] = "stop"
      BY <1>18 DEF StopRemove, Goto
    <2>4. pc'[k] \in {"stop", "forget"}
      BY <2>1
    <2> QED  BY <1>1, <2>1, <2>2, <2>3, <2>4 DEF OpAt, HandlerAt, DestroyLabels,
                NoRequest
  <1>19. CASE DestroyRemove(k)
    <2>1. /\ Typed(k)
          /\ IF ContainsKey(req[k].sid)
             THEN /\ pc'[k] = "leave"
                  /\ req'[k] = [req[k] EXCEPT
                         !.room = objects[sessions[req[k].sid]].room]
             ELSE pc'[k] = "idle" /\ req'[k] = NoRequest
      BY <1>19, UpdateStep, Zenon
    <2>2. pc[k] = "stop" /\ req[k].op = "destroy"
      BY <1>19 DEF DestroyRemove, Return, Goto
    <2>3. CASE ContainsKey(req[k].sid)
      <3>1. req'[k].got = req[k].got /\ req'[k].op = req[k].op
        BY <1>1, <2>1, <2>3 DEF Requests
      <3> QED  BY <1>1, <2>1, <2>2, <2>3, <3>1 DEF OpAt, HandlerAt, DestroyLabels
    <2>4. CASE ~ContainsKey(req[k].sid)
      BY <2>1, <2>4 DEF OpAt, HandlerAt, NoRequest
    <2> QED  BY <2>3, <2>4
  <1>20. CASE DestroyCollect(k)
    <2>1. /\ Typed(k) /\ pc'[k] = "unregister"
          /\ req'[k] = [req[k] EXCEPT !.todo = StreamsOf(req[k].sid)]
      BY <1>20, UpdateStep, Zenon
    <2>2. /\ req'[k].todo = StreamsOf(req[k].sid) /\ req'[k].got = req[k].got
          /\ req'[k].op = req[k].op
      BY <1>1, <2>1 DEF Requests
    <2>3. StreamsOf(req[k].sid) \subseteq StreamIds
      BY DEF StreamsOf, NodeTypeOK, RegistryTypeOK
    <2>4. pc[k] = "collect"
      BY <1>20 DEF DestroyCollect, Goto
    <2> QED  BY <1>1, <2>1, <2>2, <2>3, <2>4 DEF OpAt, HandlerAt, DestroyLabels
  <1>21. CASE Unregister(k)
    <2>1. PICK id \in req[k].todo :
             /\ Typed(k) /\ id \in StreamIds
             /\ IF id \in DOMAIN streams
                THEN /\ pc'[k] = "unindex"
                     /\ req'[k] = [req[k] EXCEPT !.room = streams[id],
                                       !.ids = <<id>>, !.todo = @ \ {id}]
                ELSE /\ pc'[k] = "unregister"
                     /\ req'[k] = [req[k] EXCEPT !.todo = @ \ {id}]
      BY <1>21, UpdateStep, Zenon
    <2>2. /\ req'[k].todo = req[k].todo \ {id} /\ req'[k].got = req[k].got
          /\ req'[k].op = req[k].op
      BY <1>1, <2>1 DEF Requests
    <2>3. pc'[k] = "unindex" => req'[k].ids = <<id>>
      BY <1>1, <2>1 DEF Requests
    <2>4. pc[k] = "unregister" /\ pc'[k] \in {"unregister", "unindex"}
      BY <1>21, <2>1 DEF Unregister
    <2> QED  BY <1>1, <2>1, <2>2, <2>3, <2>4 DEF OpAt, HandlerAt, DestroyLabels,
                NoRequest
  <1>22. CASE PushRoom(k)
    <2>1. /\ Typed(k)
          /\ IF ContainsKey(req[k].sid)
             THEN /\ pc'[k] = "members"
                  /\ req'[k] = [req[k] EXCEPT
                         !.room = objects[sessions[req[k].sid]].room]
             ELSE pc'[k] = "idle" /\ req'[k] = NoRequest
      BY <1>22, UpdateStep, Zenon
    <2>2. pc[k] = "room"
      BY <1>22 DEF PushRoom, Return, Goto
    <2>3. CASE ContainsKey(req[k].sid)
      <3>1. req'[k].got = req[k].got /\ req'[k].op = req[k].op
        BY <1>1, <2>1, <2>3 DEF Requests
      <3> QED  BY <1>1, <2>1, <2>2, <2>3, <3>1 DEF OpAt, HandlerAt, DestroyLabels
    <2>4. CASE ~ContainsKey(req[k].sid)
      BY <2>1, <2>4 DEF OpAt, HandlerAt, NoRequest
    <2> QED  BY <2>3, <2>4
  <1>23. CASE PushMembers(k)
    <2> DEFINE d == PeerIds(req[k].room, req[k].sid)
    <2>1. /\ Typed(k) /\ pc'[k] = "peers" /\ req'[k] = [req[k] EXCEPT !.ids = d]
      BY <1>23, UpdateStep, Zenon
    <2>2. d \in Seq(Sids)
      BY PeerIdsType
    <2> HIDE DEF d
    <2>3. req'[k].ids = d /\ req'[k].got = req[k].got /\ req'[k].op = req[k].op
      BY <1>1, <2>1 DEF Requests
    <2>4. pc[k] = "members"
      BY <1>23 DEF PushMembers, Goto
    <2>5. req[k].got = << >> /\ req[k].op = "push"
      BY <1>1, <2>4 DEF HandlerAt, OpAt, DestroyLabels
    <2> QED  BY <2>1, <2>2, <2>3, <2>5 DEF OpAt, HandlerAt, DestroyLabels
  <1>24. CASE PushPeer(k)
    <2> DEFINE A == TracksOfKind(Head(req[k].ids), req[k].kind)
               add == SetToSeq(A)
    <2>1. /\ Typed(k) /\ pc'[k] = "peers"
          /\ req'[k] = [req[k] EXCEPT !.got = @ \o add, !.ids = Tail(@)]
      BY <1>24, UpdateStep, Zenon
    <2>2. /\ IsFiniteSet(A) /\ A \subseteq Target
          /\ \A x \in A : x.obj \in 1 .. Len(objects)
      BY <1>1, TracksType DEF Requests
    <2> HIDE DEF A
    <2>3. add \in Seq(A) /\ ToSet(add) = A
      BY <2>2, SetToSeqLists
    <2> HIDE DEF add
    <2>4. /\ req'[k].ids = Tail(req[k].ids) /\ req'[k].got = req[k].got \o add
          /\ req'[k].op = req[k].op /\ req[k].got \in TargetLists
      BY <1>1, <2>1 DEF Requests
    <2>5. pc[k] = "peers" /\ req[k].ids # << >>
      BY <1>24 DEF PushPeer, Goto
    <2>6. /\ req[k].op = "push" /\ req[k].ids \in Seq(Sids)
          /\ \A i \in DOMAIN req[k].got : req[k].got[i].obj \in 1 .. Len(objects)
      BY <1>1, <2>5 DEF HandlerAt, OpAt, DestroyLabels
    <2>7. Tail(req[k].ids) \in Seq(Sids)
      BY <2>5, <2>6
    <2>8. ToSet(req'[k].got) = ToSet(req[k].got) \cup A
      <3>1. add \in Seq(Target)
        BY <2>2, <2>3, SeqWider
      <3> QED  BY <2>3, <2>4, <3>1, ToSetConcat DEF TargetLists
    <2>9. \A x \in ToSet(req'[k].got) : x.obj \in 1 .. Len(objects)
      BY <2>2, <2>6, <2>8 DEF ToSet
    <2>10. \A i \in DOMAIN req'[k].got : req'[k].got[i].obj \in 1 .. Len(objects)
      BY <2>9 DEF ToSet
    <2>11. UNCHANGED objects
      BY <1>24 DEF PushPeer, tableVars
    <2> QED  BY <2>1, <2>4, <2>6, <2>7, <2>10, <2>11 DEF OpAt, HandlerAt,
                DestroyLabels
  <1> QED  BY <1>3, <1>4, <1>5, <1>6, <1>7, <1>8, <1>9, <1>10, <1>11, <1>12,
              <1>13, <1>14, <1>15, <1>16, <1>17, <1>18, <1>19, <1>20, <1>21,
              <1>22, <1>23, <1>24 DEF Request, Serve

LEMMA NodeTypeNext == NodeTypeOK /\ [Next]_vars => NodeTypeOK'
  <1>1. ASSUME NodeTypeOK, NEW k \in Workers, Request(k) \/ Serve(k)
        PROVE  NodeTypeOK'
    <2>1. /\ Typed(k) /\ OpAt(k)' /\ HandlerAt(k)' /\ RegistryTypeOK'
          /\ TableTypeOK' /\ ObjectsKept
      BY <1>1, HandlerStep, RegistryStep, TableStep
    <2>2. lives' \in [Sids -> Nat]
      <3>1. lives \in [Sids -> Nat]
        BY <1>1 DEF NodeTypeOK, WorkTypeOK
      <3>2. \/ UNCHANGED lives
            \/ \E s \in Sids : lives' = [lives EXCEPT ![s] = @ + 1]
        <4>1. CASE Request(k)
          BY <4>1, Zenon DEF Request, CreateCheck, DestroySession, StartRecording,
             RemoveTrack, Push, AddTrack, StopRecording
        <4>2. CASE Serve(k)
          BY <4>2, Zenon DEF Serve, CreateJoin, CreateInsert, StopRemove, StopForget,
             StopReturn, DestroyRemove, DestroyLeave, DestroyLook,
             DestroyDropRoom, DestroyCollect, Unregister, Unindex, Uncount,
             AddTrackInsert, AddTrackStream, AddTrackIndex, AddTrackCount,
             RemoveTrackEntry, PushRoom, PushMembers, PushPeer, PushSend,
             StartRecordingFails, StartRecordingTask, StartRecordingEntry
        <4> QED  BY <1>1, <4>1, <4>2
      <3> QED  BY <3>1, <3>2
    <2>3. ASSUME NEW l \in Workers
          PROVE  OpAt(l)' /\ HandlerAt(l)'
      <3>1. CASE l = k
        BY <2>1, <3>1
      <3>2. CASE l # k
        <4>1. /\ pc'[l] = pc[l] /\ req'[l] = req[l]
              /\ OpAt(l) /\ HandlerAt(l)
          BY <1>1, <2>1, <3>2 DEF Typed, OthersKept, NodeTypeOK, WorkTypeOK,
             HandlerTypeOK
        <4>2. Len(objects) \in Nat /\ Len(objects') \in Nat
              /\ Len(objects) <= Len(objects')
          BY <1>1, <2>1 DEF NodeTypeOK, TableTypeOK, ObjectsKept
        <4>3. OpAt(l)'
          BY <4>1 DEF OpAt
        <4>4. HandlerAt(l)'
          BY <4>1, <4>2 DEF HandlerAt
        <4> QED  BY <4>3, <4>4
      <3> QED  BY <3>1, <3>2
    <2> QED  BY <2>1, <2>2, <2>3 DEF NodeTypeOK, WorkTypeOK, HandlerTypeOK, Typed
  <1>2. ASSUME NodeTypeOK, UNCHANGED vars
        PROVE  NodeTypeOK'
    BY <1>2 DEF vars, tableVars, registryVars, recordingVars, workVars,
       NodeTypeOK, WorkTypeOK, TableTypeOK, RegistryTypeOK, HandlerTypeOK, OpAt,
       HandlerAt
  <1> QED  BY <1>1, <1>2 DEF Next

----------------------------------------------------------------------------
(* Rooms.  A session id is mentioned in a room by an object, by a member   *)
(* list, by a creation under way, and by a packet being routed: as a peer  *)
(* still to be asked, or as a target found.                                *)

MentionedByWorker(k, s, r) ==
    /\ req[k].room = r
    /\ \/ pc[k] \in {"join", "insert"} /\ req[k].sid = s
       \/ pc[k] = "peers" /\ s \in ToSet(req[k].ids)
       \/ \E i \in DOMAIN req[k].got : objects[req[k].got[i].obj].sid = s

Mentioned(s, r) ==
    \/ \E o \in 1 .. Len(objects) : objects[o].sid = s /\ objects[o].room = r
    \/ r \in DOMAIN rooms /\ s \in ToSet(rooms[r])
    \/ \E k \in Workers : MentionedByWorker(k, s, r)

(* An id that was created once is mentioned in one room at most.           *)
OneRoom ==
    \A s \in Sids :
        /\ lives[s] = 0 => \A r : ~Mentioned(s, r)
        /\ lives[s] = 1 => \A q, r : Mentioned(s, q) /\ Mentioned(s, r) => q = r

RoomInv == NodeTypeOK /\ OneRoom

(* What a step of worker k leaves to others.                               *)
LEMMA OthersMention ==
    ASSUME NodeTypeOK, NEW k \in Workers, Typed(k), ObjectsKept,
           NEW l \in Workers \ {k}, NEW s, NEW r, MentionedByWorker(l, s, r)'
    PROVE  MentionedByWorker(l, s, r)
  <1>1. pc'[l] = pc[l] /\ req'[l] = req[l]
    BY DEF Typed, OthersKept
  <1>2. HandlerAt(l)
    BY DEF NodeTypeOK, HandlerTypeOK
  <1>3. \A i \in DOMAIN req[l].got : req[l].got[i].obj \in 1 .. Len(objects)
    BY <1>2 DEF HandlerAt
  <1>4. \A i \in DOMAIN req[l].got :
            objects'[req[l].got[i].obj].sid = objects[req[l].got[i].obj].sid
    BY <1>3 DEF ObjectsKept
  <1> QED  BY <1>1, <1>4 DEF MentionedByWorker

(* A worker that is neither routing nor creating mentions nobody.          *)
LEMMA SilentWorker ==
    ASSUME NodeTypeOK', NEW k \in Workers,
           pc'[k] \notin {"join", "insert", "peers"},
           NEW s, NEW r
    PROVE  ~MentionedByWorker(k, s, r)'
  <1>1. HandlerAt(k)'
    BY DEF NodeTypeOK, HandlerTypeOK
  <1>2. req'[k].got = << >>
    BY <1>1 DEF HandlerAt
  <1> QED  BY <1>2 DEF MentionedByWorker

(* No step but the first of a creation mentions an id in a new room.       *)
LEMMA MentionStep ==
    ASSUME NodeTypeOK, NodeTypeOK', NEW k \in Workers, Request(k) \/ Serve(k),
           NEW s, NEW r, Mentioned(s, r)',
           ~ \E x \in Sids, q \in Rooms : CreateCheck(k, x, q)
    PROVE  Mentioned(s, r)
  <1>1. /\ Typed(k) /\ OpAt(k)' /\ HandlerAt(k)' /\ TableTypeOK' /\ ObjectsKept
        /\ HandlerAt(k) /\ OpAt(k) /\ req[k] \in Requests
        /\ objects \in Seq(SessionObjects) /\ Len(objects) \in Nat
    BY HandlerStep, TableStep DEF NodeTypeOK, HandlerTypeOK, WorkTypeOK, TableTypeOK
  <1>2. ASSUME NEW o \in 1 .. Len(objects'),
               objects'[o].sid = s, objects'[o].room = r
        PROVE  Mentioned(s, r)
    <2>1. CASE o \in 1 .. Len(objects)
      BY <1>1, <1>2, <2>1 DEF ObjectsKept, Mentioned
    <2>2. CASE o \notin 1 .. Len(objects)
      <3>1. CreateInsert(k) \/ UNCHANGED objects \/ Len(objects') = Len(objects)
        <4>1. CASE Request(k)
          BY <4>1, Zenon DEF Request, CreateCheck, DestroySession, StartRecording,
             RemoveTrack, Push, AddTrack, StopRecording, tableVars
        <4>2. CASE AddTrackInsert(k) \/ RemoveTrackEntry(k)
          <5>1. \E p, f : objects' = [objects EXCEPT ![p] = f]
            BY <4>2, Zenon DEF AddTrackInsert, InsertTrack, RemoveTrackEntry,
               RemoveTrackOf
          <5> QED  BY <1>1, <5>1
        <4>3. CASE Serve(k) /\ ~(AddTrackInsert(k) \/ RemoveTrackEntry(k))
          BY <4>3, Zenon DEF Serve, CreateJoin, StopRemove, StopForget,
             StopReturn, DestroyRemove, DestroyLeave, DestroyLook,
             DestroyDropRoom, DestroyCollect, Unregister, Unindex, Uncount,
             AddTrackStream, AddTrackIndex, AddTrackCount,
             PushRoom, PushMembers, PushPeer, PushSend,
             StartRecordingFails, StartRecordingTask, StartRecordingEntry,
             tableVars
        <4> QED  BY <4>1, <4>2, <4>3
      <3>2. CreateInsert(k)
        BY <2>2, <3>1
      <3>3. /\ objects' = Append(objects, [sid |-> req[k].sid,
                                           room |-> req[k].room,
                                           tracks |-> EmptyMap])
            /\ pc[k] = "insert"
        BY <3>2 DEF CreateInsert, InsertSession, Return, Goto
      <3>4. Len(objects') = Len(objects) + 1
        BY <1>1, <3>3
      <3>5. o = Len(objects) + 1
        BY <1>1, <2>2, <3>4
      <3>6. req[k].sid = s /\ req[k].room = r
        BY <1>1, <1>2, <3>3, <3>5
      <3> QED  BY <3>3, <3>6 DEF Mentioned, MentionedByWorker
    <2> QED  BY <2>1, <2>2
  <1>3. ASSUME r \in DOMAIN rooms', s \in ToSet(rooms'[r])
        PROVE  Mentioned(s, r)
    <2>1. CASE CreateJoin(k)
      <3>1. /\ rooms' = Put(rooms, req[k].room,
                            Append(Members(req[k].room), req[k].sid))
            /\ pc[k] = "join"
        BY <2>1 DEF CreateJoin, JoinRoom, Goto, Members
      <3>2. CASE r = req[k].room
        <4>1. rooms'[r] = Append(Members(r), req[k].sid)
          BY <3>1, <3>2 DEF Put
        <4>2. Members(r) \in Seq(Sids) /\ req[k].sid \in Sids
          BY <1>1, <3>1, MembersType DEF HandlerAt
        <4>3. s \in ToSet(Members(r)) \/ s = req[k].sid
          BY <1>3, <4>1, <4>2, ToSetAppend
        <4> QED  BY <3>1, <3>2, <4>3, MembersType DEF Mentioned, MentionedByWorker
      <3>3. CASE r # req[k].room
        BY <1>3, <3>1, <3>3 DEF Put, Mentioned
      <3> QED  BY <3>2, <3>3
    <2>2. CASE DestroyLeave(k)
      <3> DEFINE q == req[k].room
                 x == req[k].sid
      <3>1. rooms' = IF q \in DOMAIN rooms THEN Put(rooms, q, Retain(rooms[q], x))
                                           ELSE rooms
        BY <2>2 DEF DestroyLeave, LeaveRoom
      <3> HIDE DEF q, x
      <3>2. CASE q \in DOMAIN rooms /\ r = q
        <4>1. rooms'[r] = Retain(rooms[r], x) /\ rooms[r] \in Seq(Sids)
          BY <3>1, <3>2 DEF Put, NodeTypeOK, TableTypeOK
        <4>2. s \in ToSet(rooms[r])
          BY <1>3, <4>1, RetainOthers
        <4> QED  BY <3>2, <4>2 DEF Mentioned
      <3>3. CASE ~(q \in DOMAIN rooms /\ r = q)
        BY <1>3, <3>1, <3>3 DEF Put, Mentioned
      <3> QED  BY <3>2, <3>3
    <2>3. CASE DestroyDropRoom(k)
      BY <1>3, <2>3 DEF DestroyDropRoom, RemoveRoom, Delete, Restrict, Mentioned
    <2>4. CASE ~(CreateJoin(k) \/ DestroyLeave(k) \/ DestroyDropRoom(k))
      <3>1. UNCHANGED rooms
        <4>1. CASE Request(k)
          BY <4>1, Zenon DEF Request, CreateCheck, DestroySession, StartRecording,
             RemoveTrack, Push, AddTrack, StopRecording, tableVars
        <4>2. CASE Serve(k)
          BY <2>4, <4>2, Zenon DEF Serve, CreateInsert, StopRemove, StopForget,
             StopReturn, DestroyRemove, DestroyLook,
             DestroyCollect, Unregister, Unindex, Uncount,
             AddTrackInsert, AddTrackStream, AddTrackIndex, AddTrackCount,
             RemoveTrackEntry, PushRoom, PushMembers, PushPeer, PushSend,
             StartRecordingFails, StartRecordingTask, StartRecordingEntry,
             tableVars
        <4> QED  BY <4>1, <4>2
      <3> QED  BY <1>3, <3>1 DEF Mentioned
    <2> QED  BY <2>1, <2>2, <2>3, <2>4
  <1>4. ASSUME MentionedByWorker(k, s, r)'
        PROVE  Mentioned(s, r)
    <2>1. pc'[k] \in {"join", "insert", "peers"}
      BY <1>4, SilentWorker
    <2>2. CreateJoin(k) \/ PushMembers(k) \/ PushPeer(k)
      <3>1. CASE Request(k)
        <4>1. pc'[k] \in {"stop", "files", "untrack", "room", "track"}
          BY <3>1, RequestStep, Zenon DEF Request
        <4> QED  BY <2>1, <4>1
      <3>2. CASE \/ CreateInsert(k) \/ StopReturn(k) \/ Uncount(k)
                 \/ AddTrackCount(k) \/ PushSend(k) \/ StartRecordingFails(k)
                 \/ StartRecordingEntry(k)
        BY <2>1, <3>2, ReturnStep
      <3>3. CASE \/ StopForget(k) \/ DestroyLeave(k) \/ DestroyLook(k)
                 \/ DestroyDropRoom(k) \/ Unindex(k) \/ AddTrackInsert(k)
                 \/ AddTrackStream(k) \/ AddTrackIndex(k) \/ RemoveTrackEntry(k)
                 \/ StartRecordingTask(k)
        <4>1. pc'[k] \in {"stop", "look", "drop", "collect", "unregister",
                          "stream", "index", "count", "recorded"}
          BY <3>3, GotoStep
        <4> QED  BY <2>1, <4>1
      <3>4. CASE \/ StopRemove(k) \/ DestroyRemove(k) \/ DestroyCollect(k)
                 \/ Unregister(k) \/ PushRoom(k)
        <4>1. pc'[k] \in {"forget", "stop", "leave", "idle", "unregister",
                          "unindex", "members"}
          BY <3>4, UpdateStep, Zenon
        <4> QED  BY <2>1, <4>1
      <3> QED  BY <3>1, <3>2, <3>3, <3>4 DEF Serve
    <2>3. CASE CreateJoin(k)
      <3>1. pc[k] = "join" /\ pc'[k] = "insert" /\ req'[k] = req[k]
        BY <2>3, GotoStep DEF CreateJoin, Goto
      <3>2. req[k].got = << >>
        BY <1>1, <3>1 DEF HandlerAt
      <3> QED  BY <1>4, <3>1, <3>2 DEF MentionedByWorker, Mentioned
    <2>4. CASE PushMembers(k)
      <3> DEFINE d == PeerIds(req[k].room, req[k].sid)
      <3>1. pc'[k] = "peers" /\ req'[k] = [req[k] EXCEPT !.ids = d]
        BY <2>4, UpdateStep, Zenon
      <3>2. \A x \in ToSet(d) : req[k].room \in DOMAIN rooms
                                /\ x \in ToSet(rooms[req[k].room])
        BY PeerIdsType
      <3> HIDE DEF d
      <3>3. /\ req'[k].ids = d /\ req'[k].got = req[k].got
            /\ req'[k].room = req[k].room
        BY <1>1, <3>1 DEF Requests
      <3>4. req[k].got = << >>
        BY <1>1, <2>4 DEF HandlerAt, PushMembers, Goto
      <3>5. pc'[k] = "peers"
        BY <3>1
      <3> QED  BY <1>4, <3>2, <3>3, <3>4, <3>5, SMTT(30) DEF MentionedByWorker, Mentioned
    <2>5. CASE PushPeer(k)
      <3> DEFINE h == Head(req[k].ids)
                 A == TracksOfKind(h, req[k].kind)
                 add == SetToSeq(A)
      <3>1. /\ pc'[k] = "peers"
            /\ req'[k] = [req[k] EXCEPT !.got = @ \o add, !.ids = Tail(@)]
        BY <2>5, UpdateStep, Zenon
      <3>2. pc[k] = "peers" /\ req[k].ids # << >> /\ UNCHANGED objects
        BY <2>5 DEF PushPeer, Goto, tableVars
      <3>3. /\ IsFiniteSet(A) /\ A \subseteq Target
            /\ \A x \in A : objects[x.obj].sid = h
        BY <1>1, TracksType DEF Requests
      <3>4. req[k].ids \in Seq(Sids)
        BY <1>1, <3>2 DEF HandlerAt
      <3>5. ToSet(req[k].ids) = ToSet(Tail(req[k].ids)) \cup {h}
        BY <3>2, <3>4, ToSetTail
      <3> HIDE DEF A
      <3>6. add \in Seq(A) /\ ToSet(add) = A
        BY <3>3, SetToSeqLists
      <3> HIDE DEF add, h
      <3>7. /\ req'[k].ids = Tail(req[k].ids) /\ req'[k].got = req[k].got \o add
            /\ req'[k].room = req[k].room /\ req[k].got \in Seq(Target)
        BY <1>1, <3>1 DEF Requests, TargetLists
      <3>8. add \in Seq(Target)
        BY <3>3, <3>6, SeqWider
      <3>9. ToSet(req'[k].got) = ToSet(req[k].got) \cup A
        BY <3>6, <3>7, <3>8, ToSetConcat
      <3>10. CASE s \in ToSet(req'[k].ids)
        BY <1>4, <3>2, <3>5, <3>7, <3>10, Zenon DEF MentionedByWorker, Mentioned
      <3>11. ASSUME NEW i \in DOMAIN req'[k].got,
                    objects[req'[k].got[i].obj].sid = s
             PROVE  Mentioned(s, r)
        <4>1. req'[k].got[i] \in ToSet(req[k].got) \cup A
          BY <3>9 DEF ToSet
        <4>2. CASE req'[k].got[i] \in A
          <5>1. s \in ToSet(req[k].ids)
            BY <3>3, <3>5, <3>11, <4>2
          <5> QED  BY <1>4, <3>2, <3>7, <5>1, Zenon DEF MentionedByWorker, Mentioned
        <4>3. CASE req'[k].got[i] \in ToSet(req[k].got)
          <5>1. PICK j \in DOMAIN req[k].got : req[k].got[j] = req'[k].got[i]
            BY <4>3 DEF ToSet
          <5> QED  BY <1>4, <3>7, <3>11, <5>1, Zenon DEF MentionedByWorker, Mentioned
        <4> QED  BY <4>1, <4>2, <4>3
      <3>12. \/ s \in ToSet(req'[k].ids)
             \/ \E i \in DOMAIN req'[k].got : objects[req'[k].got[i].obj].sid = s
        BY <1>4, <3>1, <3>2, Zenon DEF MentionedByWorker
      <3> QED  BY <3>10, <3>11, <3>12
    <2> QED  BY <2>2, <2>3, <2>4, <2>5
  <1>5. ASSUME NEW l \in Workers \ {k}, MentionedByWorker(l, s, r)'
        PROVE  Mentioned(s, r)
    BY <1>1, <1>5, OthersMention DEF Mentioned
  <1> QED  BY <1>2, <1>3, <1>4, <1>5 DEF Mentioned

LEMMA RoomInvInit == Init => RoomInv
  <1> SUFFICES ASSUME Init PROVE RoomInv
    OBVIOUS
  <1>1. NodeTypeOK
    BY NodeTypeInit
  <1>2. /\ objects = << >> /\ DOMAIN rooms = {}
        /\ \A k \in Workers : pc[k] = "idle" /\ req[k].got = << >>
    BY Empties DEF Init, NewSessionManager, NoRequest
  <1>3. \A s, r : ~Mentioned(s, r)
    BY <1>2 DEF Mentioned, MentionedByWorker
  <1> QED  BY <1>1, <1>3 DEF RoomInv, OneRoom

LEMMA RoomInvNext == RoomInv /\ [Next]_vars => RoomInv'
  <1> SUFFICES ASSUME RoomInv, [Next]_vars PROVE RoomInv'
    OBVIOUS
  <1>1. NodeTypeOK /\ NodeTypeOK' /\ OneRoom
    BY NodeTypeNext DEF RoomInv
  <1>2. CASE UNCHANGED vars
    <2>1. UNCHANGED <<sessions, rooms, objects, pc, req, lives>>
      BY <1>2 DEF vars, tableVars, workVars
    <2>2. \A s, r : Mentioned(s, r)' => Mentioned(s, r)
      BY <2>1 DEF Mentioned, MentionedByWorker
    <2>3. OneRoom'
      BY <1>1, <2>1, <2>2 DEF OneRoom
    <2> QED  BY <1>1, <2>3 DEF RoomInv
  <1>3. ASSUME NEW k \in Workers, Request(k) \/ Serve(k),
               ~ \E x \in Sids, q \in Rooms : CreateCheck(k, x, q)
        PROVE  OneRoom'
    <2>1. \A s, r : Mentioned(s, r)' => Mentioned(s, r)
      BY <1>1, <1>3, MentionStep
    <2>2. UNCHANGED lives
      <3>1. CASE Request(k)
        BY <1>3, <3>1, Zenon DEF Request, DestroySession, StartRecording,
           RemoveTrack, Push, AddTrack, StopRecording
      <3>2. CASE Serve(k)
        BY <3>2, Zenon DEF Serve, CreateJoin, CreateInsert, StopRemove, StopForget,
           StopReturn, DestroyRemove, DestroyLeave, DestroyLook,
           DestroyDropRoom, DestroyCollect, Unregister, Unindex, Uncount,
           AddTrackInsert, AddTrackStream, AddTrackIndex, AddTrackCount,
           RemoveTrackEntry, PushRoom, PushMembers, PushPeer, PushSend,
           StartRecordingFails, StartRecordingTask, StartRecordingEntry
      <3> QED  BY <1>3, <3>1, <3>2
    <2> QED  BY <1>1, <2>1, <2>2 DEF OneRoom
  <1>4. ASSUME NEW k \in Workers, NEW x \in Sids, NEW q \in Rooms,
               CreateCheck(k, x, q)
        PROVE  OneRoom'
    <2>1. /\ Typed(k) /\ pc'[k] = "join"
          /\ req'[k] = [NoRequest EXCEPT !.op = "create", !.sid = x, !.room = q]
      BY <1>1, <1>4, RequestStep, Zenon
    <2>2. /\ UNCHANGED <<sessions, rooms, objects>> /\ ObjectsKept
          /\ lives' = [lives EXCEPT ![x] = @ + 1] /\ lives \in [Sids -> Nat]
      BY <1>1, <1>4, TableKept DEF CreateCheck, tableVars, NodeTypeOK, WorkTypeOK
    <2>3. ASSUME NEW s, NEW r, Mentioned(s, r)'
          PROVE  Mentioned(s, r) \/ (s = x /\ r = q)
      <3>1. ASSUME MentionedByWorker(k, s, r)'
            PROVE  s = x /\ r = q
        BY <2>1, <3>1 DEF MentionedByWorker, NoRequest
      <3>2. ASSUME NEW l \in Workers \ {k}, MentionedByWorker(l, s, r)'
            PROVE  Mentioned(s, r)
        BY <1>1, <2>1, <2>2, <3>2, OthersMention DEF Mentioned
      <3> QED  BY <2>2, <2>3, <3>1, <3>2 DEF Mentioned
    <2> QED  BY <1>1, <2>2, <2>3 DEF OneRoom
  <1> QED  BY <1>1, <1>2, <1>3, <1>4 DEF RoomInv, Next

(* A packet reaches no session of another room, whatever requests run      *)
(* meanwhile, unless the id was created again (session.rs:176-209).        *)
THEOREM DeliveryStaysInRoomCorrect == Spec => []DeliveryStaysInRoom
  <1>1. RoomInv => DeliveryStaysInRoom
    <2> SUFFICES ASSUME RoomInv, NEW k \in Workers, NEW i \in DOMAIN req[k].got,
                        lives[objects[req[k].got[i].obj].sid] = 1
                 PROVE  objects[req[k].got[i].obj].room = req[k].room
      BY DEF DeliveryStaysInRoom
    <2> DEFINE o == req[k].got[i].obj
               s == objects[o].sid
    <2>1. HandlerAt(k) /\ objects \in Seq(SessionObjects)
      BY DEF RoomInv, NodeTypeOK, HandlerTypeOK, TableTypeOK
    <2>2. o \in 1 .. Len(objects)
      BY <2>1 DEF HandlerAt
    <2>3. objects[o] \in SessionObjects
      BY <2>1, <2>2
    <2>4. s \in Sids
      BY <2>3 DEF SessionObjects
    <2>5. Mentioned(s, objects[o].room)
      BY <2>2 DEF Mentioned
    <2>6. Mentioned(s, req[k].room)
      BY DEF Mentioned, MentionedByWorker
    <2> QED  BY <2>4, <2>5, <2>6 DEF RoomInv, OneRoom
  <1> QED  BY <1>1, RoomInvInit, RoomInvNext, PTL DEF Spec

----------------------------------------------------------------------------
(* Once each, when the clients serialise the control requests of a         *)
(* session.  Then a room list names nobody twice: who is listed is being   *)
(* created, is in the table, or is about to leave the list, and whoever    *)
(* joins is none of these.                                                 *)

(* A request keeps what it was called with until it returns.               *)
LEMMA ServeKeeps ==
    ASSUME NodeTypeOK, NEW k \in Workers, Serve(k)
    PROVE  /\ Typed(k)
           /\ \/ pc'[k] = "idle" /\ req'[k] = NoRequest
              \/ /\ req'[k].op = req[k].op /\ req'[k].sid = req[k].sid
                 /\ req'[k].tid = req[k].tid /\ req'[k].kind = req[k].kind
                 /\ req'[k].obj = req[k].obj
  <1>1. req[k] \in Requests
    BY DEF NodeTypeOK, WorkTypeOK
  <1>2. CASE \/ CreateInsert(k) \/ StopReturn(k) \/ Uncount(k) \/ AddTrackCount(k)
             \/ PushSend(k) \/ StartRecordingFails(k) \/ StartRecordingEntry(k)
    BY <1>2, ReturnStep
  <1>3. CASE \/ CreateJoin(k) \/ StopForget(k) \/ DestroyLeave(k) \/ DestroyLook(k)
             \/ DestroyDropRoom(k) \/ Unindex(k) \/ AddTrackInsert(k)
             \/ AddTrackStream(k) \/ AddTrackIndex(k) \/ RemoveTrackEntry(k)
             \/ StartRecordingTask(k)
    <2>1. Typed(k) /\ req'[k] = req[k]
      BY <1>3, GotoStep
    <2> QED  BY <2>1
  <1>4. CASE StopRemove(k)
    <2>1. PICK rid : Typed(k) /\ req'[k] = [req[k] EXCEPT !.rid = rid,
                                                !.todo = @ \ {rid}]
      BY <1>4, UpdateStep, Zenon
    <2> QED  BY <1>1, <2>1 DEF Requests
  <1>5. CASE DestroyRemove(k) \/ PushRoom(k)
    <2>1. /\ Typed(k)
          /\ \/ pc'[k] = "idle" /\ req'[k] = NoRequest
             \/ req'[k] = [req[k] EXCEPT
                               !.room = objects[sessions[req[k].sid]].room]
      BY <1>5, UpdateStep, Zenon
    <2> QED  BY <1>1, <2>1 DEF Requests
  <1>6. CASE DestroyCollect(k)
    <2>1. Typed(k) /\ req'[k] = [req[k] EXCEPT !.todo = StreamsOf(req[k].sid)]
      BY <1>6, UpdateStep, Zenon
    <2> QED  BY <1>1, <2>1 DEF Requests
  <1>7. CASE Unregister(k)
    <2>1. PICK id : /\ Typed(k)
                    /\ \/ req'[k] = [req[k] EXCEPT !.room = streams[id],
                                         !.ids = <<id>>, !.todo = @ \ {id}]
                       \/ req'[k] = [req[k] EXCEPT !.todo = @ \ {id}]
      BY <1>7, UpdateStep, Zenon
    <2> QED  BY <1>1, <2>1, Zenon DEF Requests
  <1>8. CASE PushMembers(k)
    <2>1. Typed(k) /\ req'[k] = [req[k] EXCEPT
                                    !.ids = PeerIds(req[k].room, req[k].sid)]
      BY <1>8, UpdateStep, Zenon
    <2> QED  BY <1>1, <2>1 DEF Requests
  <1>9. CASE PushPeer(k)
    <2>1. /\ Typed(k)
          /\ req'[k] = [req[k] EXCEPT
                    !.got = @ \o SetToSeq(TracksOfKind(Head(req[k].ids),
                                                       req[k].kind)),
                    !.ids = Tail(@)]
      BY <1>9, UpdateStep, Zenon
    <2> QED  BY <1>1, <2>1 DEF Requests
  <1> QED  BY <1>2, <1>3, <1>4, <1>5, <1>6, <1>7, <1>8, <1>9 DEF Serve

LEMMA RequestBegins ==
    ASSUME NodeTypeOK, NEW k \in Workers, Request(k)
    PROVE  /\ Typed(k) /\ pc[k] = "idle" /\ req[k] = NoRequest
           /\ pc'[k] \in {"join", "stop", "files", "untrack", "room", "track"}
           /\ UNCHANGED tableVars
           /\ SerialPerSession /\ req'[k].op \in Control => ~Busy(req'[k].sid)
  <1>1. /\ Typed(k) /\ UNCHANGED tableVars
        /\ pc'[k] \in {"join", "stop", "files", "untrack", "room", "track"}
    BY RequestStep, Zenon DEF Request, CreateCheck, DestroySession, StartRecording,
       RemoveTrack, Push, AddTrack, StopRecording
  <1>2. pc[k] = "idle"
    BY Zenon DEF Request, CreateCheck, DestroySession, StartRecording, RemoveTrack,
       Push, AddTrack, StopRecording, Begin
  <1>3. req[k] = NoRequest
    BY <1>2 DEF NodeTypeOK, WorkTypeOK, OpAt, DestroyLabels
  <1>4. ASSUME SerialPerSession, req'[k].op \in Control
        PROVE  ~Busy(req'[k].sid)
    <2>1. ASSUME NEW s \in Sids, NEW r \in Rooms, CreateCheck(k, s, r)
          PROVE  ~Busy(req'[k].sid)
      <3>1. req'[k] = [NoRequest EXCEPT !.op = "create", !.sid = s, !.room = r]
        BY <2>1, RequestStep, Zenon
      <3>2. req'[k].sid = s
        BY <3>1 DEF NoRequest
      <3> QED  BY <1>4, <2>1, <3>2 DEF CreateCheck, Begin, Control
    <2>2. ASSUME NEW s \in Sids, DestroySession(k, s)
          PROVE  ~Busy(req'[k].sid)
      <3>1. req'[k] = [NoRequest EXCEPT !.op = "destroy", !.sid = s,
                                        !.todo = RecordingsOf(s)]
        BY <2>2, RequestStep, Zenon
      <3>2. req'[k].sid = s
        BY <3>1 DEF NoRequest
      <3> QED  BY <1>4, <2>2, <3>2 DEF DestroySession, Begin, Control
    <2>3. ASSUME NEW s \in Sids, StartRecording(k, s)
          PROVE  ~Busy(req'[k].sid)
      <3>1. req'[k] = [NoRequest EXCEPT !.op = "startRecording", !.sid = s,
                               !.obj = sessions[s], !.rid = lastRecording + 1]
        BY <2>3, RequestStep, Zenon
      <3>2. req'[k].sid = s
        BY <3>1 DEF NoRequest
      <3> QED  BY <1>4, <2>3, <3>2 DEF StartRecording, Begin, Control
    <2>4. ASSUME NEW s \in Sids, NEW t \in Tids, RemoveTrack(k, s, t)
          PROVE  ~Busy(req'[k].sid)
      <3>1. /\ Typed(k) /\ pc'[k] = "untrack"
            /\ req'[k] = [NoRequest EXCEPT !.op = "removeTrack", !.sid = s,
                               !.tid = t, !.obj = sessions[s], !.todo = {<<s, t>>}]
        BY <2>4, RequestStep, Zenon
      <3>2. req'[k].sid = s
        BY <3>1 DEF NoRequest
      <3> QED  BY <1>4, <2>4, <3>2 DEF RemoveTrack, Begin, Control
    <2>5. ASSUME NEW s \in Sids, NEW t \in Tids, NEW kd \in Kinds,
                 AddTrack(k, s, t, kd)
          PROVE  ~Busy(req'[k].sid)
      <3>1. req'[k] = [NoRequest EXCEPT !.op = "addTrack", !.sid = s,
                               !.tid = t, !.kind = kd, !.obj = sessions[s],
                               !.room = objects[sessions[s]].room]
        BY <2>5, RequestStep, ZenonT(60)
      <3>2. req'[k].sid = s
        BY <3>1 DEF NoRequest
      <3> QED  BY <1>4, <2>5, <3>2 DEF AddTrack, Begin, Control
    <2>6. ASSUME NEW s \in Sids, NEW t \in Tids, Push(k, s, t)
          PROVE  FALSE
      <3>1. req'[k] = [NoRequest EXCEPT !.op = "push", !.sid = s, !.tid = t,
                               !.kind = objects[sessions[s]].tracks[t]]
        BY <2>6, RequestStep, ZenonT(60)
      <3> QED  BY <1>4, <3>1 DEF NoRequest, Control
    <2>7. ASSUME NEW rid \in Answered, StopRecording(k, rid)
          PROVE  FALSE
      <3>1. req'[k] = [NoRequest EXCEPT !.op = "stopRecording", !.todo = {rid}]
        BY <2>7, RequestStep, Zenon
      <3> QED  BY <1>4, <3>1 DEF NoRequest, Control
    <2> QED  BY <2>1, <2>2, <2>3, <2>4, <2>5, <2>6, <2>7 DEF Request
  <1> QED  BY <1>1, <1>2, <1>3, <1>4

SingleWorker == \E k \in Workers : Workers = {k}

(* What the clients may do to keep the control requests of a session apart.*)
Serialised == SerialPerSession \/ SingleWorker

OneControl ==
    \A k, l \in Workers :
        /\ req[k].op \in Control /\ req[l].op \in Control
        /\ req[k].sid = req[l].sid
        => k = l

CreatorIsFirst ==
    \A k \in Workers : pc[k] \in {"join", "insert"} => ~ContainsKey(req[k].sid)

(* Why a room list names a session.                                        *)
Reason(s, r) ==
    \/ \E k \in Workers : pc[k] = "insert" /\ req[k].sid = s /\ req[k].room = r
    \/ ContainsKey(s) /\ RoomOf(s) = r
    \/ \E k \in Workers : pc[k] = "leave" /\ req[k].sid = s /\ req[k].room = r

MembersHaveReason ==
    \A r \in DOMAIN rooms : \A s \in ToSet(rooms[r]) : Reason(s, r)

MembersOnce == \A r \in DOMAIN rooms : Distinct(rooms[r])

(* A peer still to be asked has no target yet.                             *)
RoutesOnce ==
    \A k \in Workers :
        /\ Distinct(req[k].got)
        /\ pc[k] = "peers" =>
               /\ Distinct(req[k].ids)
               /\ \A x \in ToSet(req[k].got) :
                      objects[x.obj].sid \notin ToSet(req[k].ids)

OnceInv ==
    NodeTypeOK /\ OneControl /\ CreatorIsFirst /\ MembersHaveReason
    /\ MembersOnce /\ RoutesOnce

LEMMA OneControlStep ==
    ASSUME Serialised, NodeTypeOK, OneControl, NEW k \in Workers,
           Request(k) \/ Serve(k)
    PROVE  OneControl'
  <1>1. ASSUME NEW l \in Workers \ {k},
               req'[k].op \in Control, req'[l].op \in Control,
               req'[k].sid = req'[l].sid
        PROVE  FALSE
    <2>1. CASE Request(k)
      <3>0. SerialPerSession
        BY DEF Serialised, SingleWorker
      <3>1. Typed(k) /\ ~Busy(req'[k].sid)
        BY <1>1, <2>1, <3>0, RequestBegins
      <3>2. req'[l] = req[l]
        BY <3>1 DEF Typed, OthersKept
      <3> QED  BY <1>1, <3>1, <3>2 DEF Busy
    <2>2. CASE Serve(k)
      <3>1. /\ Typed(k)
            /\ \/ req'[k] = NoRequest
               \/ req'[k].op = req[k].op /\ req'[k].sid = req[k].sid
        BY <2>2, ServeKeeps
      <3>2. req'[k].op = req[k].op /\ req'[k].sid = req[k].sid
        BY <1>1, <3>1 DEF NoRequest, Control
      <3>3. req'[l] = req[l]
        BY <3>1 DEF Typed, OthersKept
      <3> QED  BY <1>1, <3>2, <3>3 DEF OneControl
    <2> QED  BY <2>1, <2>2
  <1>2. Typed(k)
    BY HandlerStep
  <1>3. ASSUME NEW l \in Workers \ {k}, NEW m \in Workers \ {k},
               req'[l].op \in Control, req'[m].op \in Control,
               req'[l].sid = req'[m].sid
        PROVE  l = m
    <2>1. req'[l] = req[l] /\ req'[m] = req[m]
      BY <1>2 DEF Typed, OthersKept
    <2> QED  BY <1>3, <2>1 DEF OneControl
  <1> QED  BY <1>1, <1>3 DEF OneControl

(* The table gains an entry when a creation ends, and loses one when a     *)
(* destruction removes it.                                                 *)
LEMMA SessionsStep ==
    ASSUME NodeTypeOK, NEW k \in Workers, Request(k) \/ Serve(k)
    PROVE  \/ UNCHANGED sessions
           \/ CreateInsert(k)
           \/ DestroyRemove(k)
  <1>1. CASE Request(k)
    BY <1>1, RequestBegins DEF tableVars
  <1>2. CASE Serve(k)
    BY <1>2, Zenon DEF Serve, CreateJoin, StopRemove, StopForget,
       StopReturn, DestroyLeave, DestroyLook,
       DestroyDropRoom, DestroyCollect, Unregister, Unindex, Uncount,
       AddTrackInsert, AddTrackStream, AddTrackIndex, AddTrackCount,
       RemoveTrackEntry, PushRoom, PushMembers, PushPeer, PushSend,
       StartRecordingFails, StartRecordingTask, StartRecordingEntry, tableVars
  <1> QED  BY <1>1, <1>2

LEMMA CreatorStep ==
    ASSUME NodeTypeOK, NodeTypeOK', OneControl, CreatorIsFirst, NEW k \in Workers,
           Request(k) \/ Serve(k)
    PROVE  CreatorIsFirst'
  <1> SUFFICES ASSUME NEW l \in Workers, pc'[l] \in {"join", "insert"},
                      req'[l].sid \in DOMAIN sessions'
               PROVE  FALSE
    BY DEF CreatorIsFirst, ContainsKey
  <1>1. Typed(k)
    BY HandlerStep
  <1>2. CASE l # k
    <2>1. pc'[l] = pc[l] /\ req'[l] = req[l]
      BY <1>1, <1>2 DEF Typed, OthersKept
    <2>2. req[l].sid \notin DOMAIN sessions
      BY <2>1 DEF CreatorIsFirst, ContainsKey
    <2>3. CASE CreateInsert(k)
      <3>1. pc[k] = "insert" /\ sessions' = Put(sessions, req[k].sid, Len(objects) + 1)
        BY <2>3 DEF CreateInsert, InsertSession, Return, Goto
      <3>2. req[k].op = "create" /\ req[l].op = "create"
        BY <2>1, <3>1 DEF NodeTypeOK, WorkTypeOK, OpAt, DestroyLabels
      <3>3. req[l].sid = req[k].sid
        BY <2>1, <2>2, <3>1 DEF Put
      <3> QED  BY <1>2, <3>2, <3>3 DEF OneControl, Control
    <2>4. CASE UNCHANGED sessions \/ DestroyRemove(k)
      BY <2>1, <2>2, <2>4 DEF DestroyRemove, RemoveSession, Delete, Restrict
    <2> QED  BY <2>3, <2>4, SessionsStep
  <1>3. CASE l = k
    <2>1. CASE Request(k)
      <3>1. /\ UNCHANGED sessions /\ pc'[k] = "join"
        BY <1>3, <2>1, RequestBegins DEF tableVars
      <3>2. PICK s \in Sids, r \in Rooms : CreateCheck(k, s, r)
        BY <2>1, <3>1, RequestStep, Zenon DEF Request
      <3>3. req'[k] = [NoRequest EXCEPT !.op = "create", !.sid = s, !.room = r]
        BY <3>2, RequestStep, ZenonT(30)
      <3>4. req'[k].sid = s
        BY <3>3 DEF NoRequest
      <3> QED  BY <1>3, <3>1, <3>2, <3>4 DEF CreateCheck, ContainsKey
    <2>2. CASE Serve(k)
      <3>1. /\ req'[k].op = req[k].op /\ req'[k].sid = req[k].sid
        BY <1>3, <2>2, ServeKeeps
      <3>2. OpAt(k)'
        BY DEF NodeTypeOK, WorkTypeOK
      <3>3. req[k].op = "create"
        BY <1>3, <3>1, <3>2 DEF OpAt, DestroyLabels
      <3>4. pc[k] \in {"join", "insert"}
        <4>1. OpAt(k)
          BY DEF NodeTypeOK, WorkTypeOK
        <4> QED  BY <3>3, <4>1 DEF OpAt, NoRequest
      <3>5. req[k].sid \notin DOMAIN sessions
        BY <3>4 DEF CreatorIsFirst, ContainsKey
      <3>6. UNCHANGED sessions
        BY <1>3, <3>4, SessionsStep, ReturnStep DEF DestroyRemove, Return, Goto
      <3> QED  BY <1>3, <3>1, <3>5, <3>6
    <2> QED  BY <2>1, <2>2
  <1> QED  BY <1>2, <1>3

LEMMA RoomOfKept ==
    ASSUME NodeTypeOK, ObjectsKept, NEW s, ContainsKey(s), ContainsKey(s)',
           sessions'[s] = sessions[s]
    PROVE  RoomOf(s)' = RoomOf(s)
  <1>1. sessions[s] \in 1 .. Len(objects)
    BY TableEntry
  <1> QED  BY <1>1 DEF ObjectsKept, RoomOf

(* A reason that does not rest on worker k stays.                          *)
LEMMA ReasonKept ==
    ASSUME NodeTypeOK, NEW k \in Workers, Typed(k), ObjectsKept,
           NEW s, NEW r, Reason(s, r),
           pc[k] \in {"insert", "leave"} => req[k].sid # s \/ req[k].room # r,
           s \in DOMAIN sessions =>
               s \in DOMAIN sessions' /\ sessions'[s] = sessions[s]
    PROVE  Reason(s, r)'
  <1>1. ASSUME NEW l \in Workers, pc[l] \in {"insert", "leave"},
               req[l].sid = s, req[l].room = r
        PROVE  pc'[l] = pc[l] /\ req'[l] = req[l]
    <2>1. l # k
      BY <1>1
    <2> QED  BY <2>1 DEF Typed, OthersKept
  <1>2. CASE ContainsKey(s) /\ RoomOf(s) = r
    <2>1. ContainsKey(s)' /\ sessions'[s] = sessions[s]
      BY <1>2 DEF ContainsKey
    <2>2. RoomOf(s)' = r
      BY <1>2, <2>1, RoomOfKept
    <2> QED  BY <2>1, <2>2 DEF Reason
  <1>3. CASE ~(ContainsKey(s) /\ RoomOf(s) = r)
    <2>1. PICK l \in Workers : /\ pc[l] \in {"insert", "leave"}
                               /\ req[l].sid = s /\ req[l].room = r
      BY <1>3 DEF Reason
    <2> QED  BY <1>1, <2>1 DEF Reason
  <1> QED  BY <1>2, <1>3

(* The three steps that change a room list.                                *)
LEMMA RoomsStep ==
    ASSUME NodeTypeOK, NEW k \in Workers, Request(k) \/ Serve(k)
    PROVE  \/ UNCHANGED rooms
           \/ CreateJoin(k) \/ DestroyLeave(k) \/ DestroyDropRoom(k)
  <1>1. CASE Request(k)
    BY <1>1, RequestBegins DEF tableVars
  <1>2. CASE Serve(k)
    BY <1>2, Zenon DEF Serve, CreateInsert, StopRemove, StopForget,
       StopReturn, DestroyRemove, DestroyLook,
       DestroyCollect, Unregister, Unindex, Uncount,
       AddTrackInsert, AddTrackStream, AddTrackIndex, AddTrackCount,
       RemoveTrackEntry, PushRoom, PushMembers, PushPeer, PushSend,
       StartRecordingFails, StartRecordingTask, StartRecordingEntry, tableVars
  <1> QED  BY <1>1, <1>2

(* What each of them does to a list.                                       *)
LEMMA JoinList ==
    ASSUME NodeTypeOK, NEW k \in Workers, CreateJoin(k)
    PROVE  /\ pc[k] = "join" /\ UNCHANGED <<sessions, objects>>
           /\ req[k].sid \in Sids
           /\ DOMAIN rooms' = DOMAIN rooms \cup {req[k].room}
           /\ rooms'[req[k].room] = Append(Members(req[k].room), req[k].sid)
           /\ ToSet(rooms'[req[k].room])
                  = ToSet(Members(req[k].room)) \cup {req[k].sid}
           /\ \A r \in DOMAIN rooms \ {req[k].room} : rooms'[r] = rooms[r]
  <1> DEFINE q == req[k].room
             s == req[k].sid
             new == Append(Members(q), s)
  <1>1. /\ rooms' = Put(rooms, q, new) /\ pc[k] = "join"
        /\ UNCHANGED <<sessions, objects>>
    BY DEF CreateJoin, JoinRoom, Goto, Members
  <1>2. s \in Sids /\ Members(q) \in Seq(Sids)
    BY <1>1, MembersType DEF NodeTypeOK, HandlerTypeOK, HandlerAt
  <1> HIDE DEF q, s
  <1>3. ToSet(new) = ToSet(Members(q)) \cup {s}
    BY <1>2, ToSetAppend
  <1> HIDE DEF new
  <1>4. /\ DOMAIN rooms' = DOMAIN rooms \cup {q} /\ rooms'[q] = new
        /\ \A r \in DOMAIN rooms \ {q} : rooms'[r] = rooms[r]
    BY <1>1 DEF Put
  <1> QED  BY <1>1, <1>2, <1>3, <1>4 DEF q, s, new

LEMMA LeaveList ==
    ASSUME NodeTypeOK, NEW k \in Workers, DestroyLeave(k)
    PROVE  /\ pc[k] = "leave" /\ UNCHANGED <<sessions, objects>>
           /\ DOMAIN rooms' = DOMAIN rooms
           /\ \A r \in DOMAIN rooms : r # req[k].room => rooms'[r] = rooms[r]
           /\ req[k].room \in DOMAIN rooms =>
                  /\ ToSet(rooms'[req[k].room])
                        = ToSet(rooms[req[k].room]) \ {req[k].sid}
                  /\ Distinct(rooms[req[k].room]) => Distinct(rooms'[req[k].room])
  <1> DEFINE q == req[k].room
             s == req[k].sid
  <1>1. /\ rooms' = IF q \in DOMAIN rooms THEN Put(rooms, q, Retain(rooms[q], s))
                                          ELSE rooms
        /\ pc[k] = "leave" /\ UNCHANGED <<sessions, objects>>
    BY DEF DestroyLeave, LeaveRoom, Goto
  <1> HIDE DEF q, s
  <1>2. /\ DOMAIN rooms' = DOMAIN rooms
        /\ \A r \in DOMAIN rooms : r # q => rooms'[r] = rooms[r]
        /\ q \in DOMAIN rooms => rooms'[q] = Retain(rooms[q], s)
    BY <1>1 DEF Put
  <1>3. ASSUME q \in DOMAIN rooms
        PROVE  /\ ToSet(Retain(rooms[q], s)) = ToSet(rooms[q]) \ {s}
               /\ Distinct(rooms[q]) => Distinct(Retain(rooms[q], s))
    <2>1. rooms[q] \in Seq(Sids)
      BY <1>3 DEF NodeTypeOK, TableTypeOK
    <2> QED  BY <2>1, RetainOthers
  <1> QED  BY <1>1, <1>2, <1>3 DEF q, s

LEMMA DropList ==
    ASSUME NEW k \in Workers, DestroyDropRoom(k)
    PROVE  /\ pc[k] = "drop" /\ UNCHANGED <<sessions, objects>>
           /\ DOMAIN rooms' = DOMAIN rooms \ {req[k].room}
           /\ \A r \in DOMAIN rooms' : rooms'[r] = rooms[r]
  BY DEF DestroyDropRoom, RemoveRoom, Delete, Restrict, Goto

LEMMA InsertEntry ==
    ASSUME NodeTypeOK, NEW k \in Workers, CreateInsert(k)
    PROVE  /\ pc[k] = "insert" /\ UNCHANGED rooms
           /\ DOMAIN sessions' = DOMAIN sessions \cup {req[k].sid}
           /\ \A s \in DOMAIN sessions \ {req[k].sid} : sessions'[s] = sessions[s]
           /\ objects'[sessions'[req[k].sid]].room = req[k].room
           /\ sessions'[req[k].sid] = Len(objects) + 1
           /\ objects'[Len(objects) + 1].tracks = EmptyMap
  <1> DEFINE v == [sid |-> req[k].sid, room |-> req[k].room, tracks |-> EmptyMap]
  <1>1. /\ pc[k] = "insert" /\ UNCHANGED rooms
        /\ objects' = Append(objects, v)
        /\ sessions' = Put(sessions, req[k].sid, Len(objects) + 1)
    BY DEF CreateInsert, InsertSession, Return, Goto
  <1>2. v.room = req[k].room /\ v.tracks = EmptyMap
    OBVIOUS
  <1> HIDE DEF v
  <1>3. objects \in Seq(SessionObjects)
    BY DEF NodeTypeOK, TableTypeOK
  <1>4. objects'[Len(objects) + 1] = v
    BY <1>1, <1>3
  <1>5. /\ DOMAIN sessions' = DOMAIN sessions \cup {req[k].sid}
        /\ \A s \in DOMAIN sessions \ {req[k].sid} : sessions'[s] = sessions[s]
        /\ sessions'[req[k].sid] = Len(objects) + 1
    BY <1>1 DEF Put
  <1> QED  BY <1>1, <1>2, <1>4, <1>5

LEMMA RemoveEntry ==
    ASSUME NodeTypeOK, NEW k \in Workers, DestroyRemove(k)
    PROVE  /\ pc[k] = "stop" /\ req[k].op = "destroy" /\ req[k].todo = {}
           /\ UNCHANGED <<rooms, objects>>
           /\ DOMAIN sessions' = DOMAIN sessions \ {req[k].sid}
           /\ \A s \in DOMAIN sessions' : sessions'[s] = sessions[s]
           /\ ContainsKey(req[k].sid) =>
                  /\ pc'[k] = "leave" /\ req'[k].sid = req[k].sid
                  /\ req'[k].room = RoomOf(req[k].sid)
           /\ ~ContainsKey(req[k].sid) => pc'[k] = "idle"
  <1>1. /\ pc[k] = "stop" /\ req[k].op = "destroy" /\ req[k].todo = {}
        /\ UNCHANGED <<rooms, objects>>
        /\ sessions' = Delete(sessions, req[k].sid)
    BY DEF DestroyRemove, RemoveSession, Return, Goto
  <1>2. /\ DOMAIN sessions' = DOMAIN sessions \ {req[k].sid}
        /\ \A s \in DOMAIN sessions' : sessions'[s] = sessions[s]
    BY <1>1 DEF Delete, Restrict
  <1>3. ASSUME ContainsKey(req[k].sid)
        PROVE  /\ pc'[k] = "leave" /\ req'[k].sid = req[k].sid
               /\ req'[k].room = RoomOf(req[k].sid)
    <2>1. req[k] \in Requests
      BY DEF NodeTypeOK, WorkTypeOK
    <2>2. /\ pc'[k] = "leave"
          /\ req'[k] = [req[k] EXCEPT !.room = objects[sessions[req[k].sid]].room]
      BY <1>3, UpdateStep, Zenon
    <2> QED  BY <2>1, <2>2 DEF Requests, RoomOf
  <1>4. ~ContainsKey(req[k].sid) => pc'[k] = "idle"
    BY UpdateStep, Zenon
  <1> QED  BY <1>1, <1>2, <1>3, <1>4

LEMMA ReasonStep ==
    ASSUME NodeTypeOK, OneControl, CreatorIsFirst, MembersHaveReason,
           NEW k \in Workers, Request(k) \/ Serve(k)
    PROVE  MembersHaveReason'
  <1>1. Typed(k) /\ ObjectsKept
    BY HandlerStep, TableStep
  <1>2. CASE CreateJoin(k)
    <2> SUFFICES ASSUME NEW r \in DOMAIN rooms', NEW s \in ToSet(rooms'[r])
                 PROVE  Reason(s, r)'
      BY DEF MembersHaveReason
    <2>1. CASE r = req[k].room /\ s = req[k].sid
      <3>1. pc'[k] = "insert" /\ req'[k] = req[k]
        BY <1>2, GotoStep
      <3> QED  BY <2>1, <3>1 DEF Reason
    <2>2. CASE ~(r = req[k].room /\ s = req[k].sid)
      <3>1. r \in DOMAIN rooms /\ s \in ToSet(rooms[r])
        <4>1. CASE r = req[k].room
          <5>1. s \in ToSet(Members(r))
            BY <1>2, <2>2, <4>1, JoinList
          <5> QED  BY <5>1, MembersType
        <4>2. CASE r # req[k].room
          BY <1>2, <4>2, JoinList, ZenonT(30)
        <4> QED  BY <4>1, <4>2
      <3>2. Reason(s, r)
        BY <3>1 DEF MembersHaveReason
      <3> QED  BY <1>1, <1>2, <3>2, JoinList, ReasonKept
    <2> QED  BY <2>1, <2>2
  <1>3. CASE CreateInsert(k)
    <2> SUFFICES ASSUME NEW r \in DOMAIN rooms, NEW s \in ToSet(rooms[r])
                 PROVE  Reason(s, r)'
      BY <1>3, InsertEntry DEF MembersHaveReason
    <2>1. Reason(s, r)
      BY DEF MembersHaveReason
    <2>2. pc[k] = "insert" /\ req[k].sid \notin DOMAIN sessions
      BY <1>3, InsertEntry DEF CreatorIsFirst, ContainsKey
    <2>3. CASE s = req[k].sid /\ r = req[k].room
      BY <1>3, <2>3, InsertEntry DEF Reason, ContainsKey, RoomOf
    <2>4. CASE ~(s = req[k].sid /\ r = req[k].room)
      <3>1. s \in DOMAIN sessions =>
               s \in DOMAIN sessions' /\ sessions'[s] = sessions[s]
        BY <1>3, <2>2, InsertEntry
      <3> QED  BY <1>1, <2>1, <2>4, <3>1, ReasonKept
    <2> QED  BY <2>3, <2>4
  <1>4. CASE DestroyRemove(k)
    <2> SUFFICES ASSUME NEW r \in DOMAIN rooms, NEW s \in ToSet(rooms[r])
                 PROVE  Reason(s, r)'
      BY <1>4, RemoveEntry DEF MembersHaveReason
    <2>1. Reason(s, r) /\ pc[k] = "stop"
      BY <1>4, RemoveEntry DEF MembersHaveReason
    <2>2. CASE s = req[k].sid /\ ContainsKey(s) /\ RoomOf(s) = r
      BY <1>4, <2>2, RemoveEntry DEF Reason
    <2>3. CASE s = req[k].sid /\ ~(ContainsKey(s) /\ RoomOf(s) = r)
      <3>1. PICK l \in Workers : /\ pc[l] \in {"insert", "leave"}
                                 /\ req[l].sid = s /\ req[l].room = r
        BY <2>1, <2>3 DEF Reason
      <3>2. l # k
        BY <2>1, <3>1
      <3>3. pc'[l] = pc[l] /\ req'[l] = req[l]
        BY <1>1, <3>2 DEF Typed, OthersKept
      <3> QED  BY <3>1, <3>3 DEF Reason
    <2>4. CASE s # req[k].sid
      <3>1. s \in DOMAIN sessions =>
               s \in DOMAIN sessions' /\ sessions'[s] = sessions[s]
        BY <1>4, <2>4, RemoveEntry
      <3> QED  BY <1>1, <2>1, <3>1, ReasonKept
    <2> QED  BY <2>2, <2>3, <2>4
  <1>5. CASE DestroyLeave(k)
    <2> SUFFICES ASSUME NEW r \in DOMAIN rooms', NEW s \in ToSet(rooms'[r])
                 PROVE  Reason(s, r)'
      BY DEF MembersHaveReason
    <2>1. /\ r \in DOMAIN rooms /\ s \in ToSet(rooms[r])
          /\ ~(s = req[k].sid /\ r = req[k].room)
      BY <1>5, LeaveList
    <2>2. Reason(s, r)
      BY <2>1 DEF MembersHaveReason
    <2> QED  BY <1>1, <1>5, <2>1, <2>2, LeaveList, ReasonKept
  <1>6. CASE ~(CreateJoin(k) \/ CreateInsert(k) \/ DestroyRemove(k)
               \/ DestroyLeave(k))
    <2> SUFFICES ASSUME NEW r \in DOMAIN rooms', NEW s \in ToSet(rooms'[r])
                 PROVE  Reason(s, r)'
      BY DEF MembersHaveReason
    <2>1. UNCHANGED sessions
      BY <1>6, SessionsStep
    <2>2. r \in DOMAIN rooms /\ s \in ToSet(rooms[r])
      BY <1>6, RoomsStep, DropList, Zenon
    <2>3. Reason(s, r)
      BY <2>2 DEF MembersHaveReason
    <2>4. pc[k] \notin {"insert", "leave"}
      <3>1. CASE Request(k)
        BY <3>1, RequestBegins
      <3>2. CASE Serve(k)
        BY <1>6, <3>2, Zenon DEF Serve, StopRemove, StopForget,
           StopReturn, DestroyLook, DestroyDropRoom, DestroyCollect, Unregister,
           Unindex, Uncount, AddTrackInsert, AddTrackStream, AddTrackIndex,
           AddTrackCount, RemoveTrackEntry, PushRoom, PushMembers, PushPeer,
           PushSend, StartRecordingFails, StartRecordingTask,
           StartRecordingEntry, Return, Goto
      <3> QED  BY <3>1, <3>2
    <2> QED  BY <1>1, <2>1, <2>3, <2>4, ReasonKept
  <1> QED  BY <1>2, <1>3, <1>4, <1>5, <1>6

LEMMA MembersOnceStep ==
    ASSUME NodeTypeOK, OneControl, CreatorIsFirst, MembersHaveReason, MembersOnce,
           NEW k \in Workers, Request(k) \/ Serve(k)
    PROVE  MembersOnce'
  <1> SUFFICES ASSUME NEW r \in DOMAIN rooms'
               PROVE  Distinct(rooms'[r])
    BY DEF MembersOnce
  <1>1. CASE CreateJoin(k)
    <2>1. CASE r # req[k].room
      BY <1>1, <2>1, JoinList, ZenonT(30) DEF MembersOnce
    <2>2. CASE r = req[k].room
      <3> DEFINE s == req[k].sid
      <3>1. s \notin ToSet(Members(r))
        <4>1. SUFFICES ASSUME s \in ToSet(Members(r)) PROVE FALSE
          OBVIOUS
        <4>2. r \in DOMAIN rooms /\ s \in ToSet(rooms[r])
          BY <4>1, MembersType
        <4>3. Reason(s, r) /\ pc[k] = "join"
          BY <1>1, <4>2, JoinList DEF MembersHaveReason
        <4>4. ~ContainsKey(s)
          BY <4>3 DEF CreatorIsFirst
        <4>5. PICK l \in Workers : pc[l] \in {"insert", "leave"} /\ req[l].sid = s
          BY <4>3, <4>4 DEF Reason
        <4>6. req[k].op \in Control /\ req[l].op \in Control
          BY <4>3, <4>5 DEF NodeTypeOK, WorkTypeOK, OpAt, DestroyLabels, Control
        <4>7. l = k
          BY <4>5, <4>6 DEF OneControl
        <4> QED  BY <4>3, <4>5, <4>7
      <3>2. Members(r) \in Seq(Sids) /\ s \in Sids
        BY <1>1, JoinList, MembersType
      <3>3. Distinct(Members(r))
        BY ToSetEmpty DEF Members, MembersOnce
      <3>4. rooms'[r] = Append(Members(r), s)
        BY <1>1, <2>2, JoinList
      <3> HIDE DEF s
      <3> QED  BY <3>1, <3>2, <3>3, <3>4, ToSetAppend
    <2> QED  BY <2>1, <2>2
  <1>2. CASE DestroyLeave(k)
    BY <1>2, LeaveList DEF MembersOnce
  <1>3. CASE DestroyDropRoom(k)
    BY <1>3, DropList DEF MembersOnce
  <1>4. CASE UNCHANGED rooms
    BY <1>4 DEF MembersOnce
  <1> QED  BY <1>1, <1>2, <1>3, <1>4, RoomsStep

(* Routing one peer: its tracks of the packet's kind join the targets.     *)
LEMMA PeerStep ==
    ASSUME NodeTypeOK, NEW k \in Workers, PushPeer(k)
    PROVE  /\ pc[k] = "peers" /\ pc'[k] = "peers"
           /\ UNCHANGED <<sessions, rooms, objects>>
           /\ req[k].ids \in Seq(Sids) /\ req[k].ids # << >>
           /\ req'[k].ids = Tail(req[k].ids)
           /\ req'[k].room = req[k].room
           /\ ToSet(req'[k].got) = ToSet(req[k].got)
                 \cup TracksOfKind(Head(req[k].ids), req[k].kind)
           /\ /\ Distinct(req[k].got)
              /\ \A x \in ToSet(req[k].got) :
                     objects[x.obj].sid # Head(req[k].ids)
              => Distinct(req'[k].got)
  <1> DEFINE h == Head(req[k].ids)
             A == TracksOfKind(h, req[k].kind)
             add == SetToSeq(A)
  <1>1. req[k] \in Requests /\ HandlerAt(k)
    BY DEF NodeTypeOK, WorkTypeOK, HandlerTypeOK
  <1>2. /\ pc'[k] = "peers"
        /\ req'[k] = [req[k] EXCEPT !.got = @ \o add, !.ids = Tail(@)]
    BY UpdateStep, Zenon
  <1>3. /\ pc[k] = "peers" /\ req[k].ids # << >>
        /\ UNCHANGED <<sessions, rooms, objects>>
    BY DEF PushPeer, Goto, tableVars
  <1>4. /\ IsFiniteSet(A) /\ A \subseteq Target
        /\ \A x \in A : objects[x.obj].sid = h
    BY <1>1, TracksType DEF Requests
  <1>5. req[k].ids \in Seq(Sids)
    BY <1>1, <1>3 DEF HandlerAt
  <1> HIDE DEF A
  <1>6. add \in Seq(A) /\ ToSet(add) = A /\ Distinct(add)
    BY <1>4, SetToSeqLists
  <1> HIDE DEF add, h
  <1>7. /\ req'[k].ids = Tail(req[k].ids) /\ req'[k].got = req[k].got \o add
        /\ req'[k].room = req[k].room /\ req[k].got \in Seq(Target)
    BY <1>1, <1>2 DEF Requests, TargetLists
  <1>8. add \in Seq(Target)
    BY <1>4, <1>6, SeqWider
  <1>9. ToSet(req'[k].got) = ToSet(req[k].got) \cup A
    BY <1>6, <1>7, <1>8, ToSetConcat
  <1>10. ASSUME Distinct(req[k].got),
                \A x \in ToSet(req[k].got) : objects[x.obj].sid # h
         PROVE  Distinct(req'[k].got)
    <2>1. ToSet(req[k].got) \cap ToSet(add) = {}
      BY <1>4, <1>6, <1>10
    <2> QED  BY <1>6, <1>7, <1>8, <1>10, <2>1, ToSetConcat
  <1> QED  BY <1>2, <1>3, <1>5, <1>7, <1>9, <1>10 DEF h, A

LEMMA MembersRoute ==
    ASSUME NodeTypeOK, NEW k \in Workers, PushMembers(k)
    PROVE  /\ pc[k] = "members" /\ pc'[k] = "peers"
           /\ UNCHANGED <<sessions, rooms, objects>>
           /\ req'[k].ids = PeerIds(req[k].room, req[k].sid)
           /\ req'[k].room = req[k].room /\ req'[k].got = << >>
  <1>1. req[k] \in Requests /\ HandlerAt(k)
    BY DEF NodeTypeOK, WorkTypeOK, HandlerTypeOK
  <1>2. pc[k] = "members" /\ UNCHANGED <<sessions, rooms, objects>>
    BY DEF PushMembers, Goto, tableVars
  <1>3. /\ pc'[k] = "peers"
        /\ req'[k] = [req[k] EXCEPT !.ids = PeerIds(req[k].room, req[k].sid)]
    BY UpdateStep, Zenon
  <1>4. req[k].got = << >>
    BY <1>1, <1>2 DEF HandlerAt
  <1> QED  BY <1>1, <1>2, <1>3, <1>4 DEF Requests

(* A packet is routed by three steps only.                                 *)
LEMMA RoutingStep ==
    ASSUME NodeTypeOK, NodeTypeOK', NEW k \in Workers, Request(k) \/ Serve(k),
           pc'[k] = "peers"
    PROVE  PushMembers(k) \/ PushPeer(k)
  <1>1. CASE Request(k)
    BY <1>1, RequestBegins
  <1>2. CASE \/ CreateInsert(k) \/ StopReturn(k) \/ Uncount(k) \/ AddTrackCount(k)
             \/ PushSend(k) \/ StartRecordingFails(k) \/ StartRecordingEntry(k)
    BY <1>2, ReturnStep
  <1>3. CASE \/ CreateJoin(k) \/ StopForget(k) \/ DestroyLeave(k) \/ DestroyLook(k)
             \/ DestroyDropRoom(k) \/ Unindex(k) \/ AddTrackInsert(k)
             \/ AddTrackStream(k) \/ AddTrackIndex(k) \/ RemoveTrackEntry(k)
             \/ StartRecordingTask(k)
    <2>1. pc'[k] \in {"insert", "stop", "look", "drop", "collect", "unregister",
                      "stream", "index", "count", "recorded"}
      BY <1>3, GotoStep
    <2> QED  BY <2>1
  <1>4. CASE \/ StopRemove(k) \/ DestroyRemove(k) \/ DestroyCollect(k)
             \/ Unregister(k) \/ PushRoom(k)
    <2>1. pc'[k] \in {"forget", "stop", "leave", "idle", "unregister",
                      "unindex", "members"}
      BY <1>4, UpdateStep, Zenon
    <2> QED  BY <2>1
  <1> QED  BY <1>1, <1>2, <1>3, <1>4 DEF Serve

LEMMA RoutesOnceStep ==
    ASSUME NodeTypeOK, NodeTypeOK', MembersOnce, RoutesOnce, NEW k \in Workers,
           Request(k) \/ Serve(k)
    PROVE  RoutesOnce'
  <1>1. Typed(k) /\ ObjectsKept
    BY HandlerStep, TableStep
  <1>2. ASSUME NEW l \in Workers \ {k}
        PROVE  /\ Distinct(req'[l].got)
               /\ pc'[l] = "peers" =>
                      /\ Distinct(req'[l].ids)
                      /\ \A x \in ToSet(req'[l].got) :
                             objects'[x.obj].sid \notin ToSet(req'[l].ids)
    <2>1. pc'[l] = pc[l] /\ req'[l] = req[l]
      BY <1>1 DEF Typed, OthersKept
    <2>2. HandlerAt(l)
      BY DEF NodeTypeOK, HandlerTypeOK
    <2>3. \A x \in ToSet(req[l].got) : x.obj \in 1 .. Len(objects)
      BY <2>2 DEF HandlerAt, ToSet
    <2>4. \A x \in ToSet(req[l].got) : objects'[x.obj].sid = objects[x.obj].sid
      BY <1>1, <2>3 DEF ObjectsKept
    <2> QED  BY <2>1, <2>4 DEF RoutesOnce
  <1>3. /\ Distinct(req'[k].got)
        /\ pc'[k] = "peers" =>
               /\ Distinct(req'[k].ids)
               /\ \A x \in ToSet(req'[k].got) :
                      objects'[x.obj].sid \notin ToSet(req'[k].ids)
    <2>1. CASE pc'[k] # "peers"
      <3>1. HandlerAt(k)'
        BY DEF NodeTypeOK, HandlerTypeOK
      <3>2. req'[k].got = << >>
        BY <2>1, <3>1 DEF HandlerAt
      <3> QED  BY <2>1, <3>2, ToSetEmpty
    <2>2. CASE PushMembers(k)
      <3> DEFINE r == req[k].room
                 s == req[k].sid
      <3>1. req'[k].ids = PeerIds(r, s) /\ req'[k].got = << >>
        BY <2>2, MembersRoute
      <3> HIDE DEF r, s
      <3>2. Distinct(PeerIds(r, s))
        <4>1. CASE r \in DOMAIN rooms
          <5>1. rooms[r] \in Seq(Sids) /\ Distinct(rooms[r])
            BY <4>1 DEF NodeTypeOK, TableTypeOK, MembersOnce
          <5> QED  BY <4>1, <5>1, RetainOthers DEF PeerIds
        <4>2. CASE r \notin DOMAIN rooms
          BY <4>2, ToSetEmpty DEF PeerIds
        <4> QED  BY <4>1, <4>2
      <3> QED  BY <3>1, <3>2, ToSetEmpty
    <2>3. CASE PushPeer(k)
      <3> DEFINE h == Head(req[k].ids)
                 A == TracksOfKind(h, req[k].kind)
      <3>1. /\ pc[k] = "peers" /\ UNCHANGED objects
            /\ req[k].ids \in Seq(Sids) /\ req[k].ids # << >>
            /\ req'[k].ids = Tail(req[k].ids)
            /\ ToSet(req'[k].got) = ToSet(req[k].got) \cup A
            /\ /\ Distinct(req[k].got)
               /\ \A x \in ToSet(req[k].got) : objects[x.obj].sid # h
               => Distinct(req'[k].got)
        BY <2>3, PeerStep
      <3>2. \A x \in A : objects[x.obj].sid = h
        <4>1. req[k].kind \in KindX
          BY DEF NodeTypeOK, WorkTypeOK, Requests
        <4> QED  BY <4>1, TracksType
      <3>3. /\ ToSet(req[k].ids) = ToSet(Tail(req[k].ids)) \cup {h}
            /\ Distinct(req[k].ids) =>
                  Distinct(Tail(req[k].ids)) /\ h \notin ToSet(Tail(req[k].ids))
        BY <3>1, ToSetTail
      <3>4. /\ Distinct(req[k].got) /\ Distinct(req[k].ids)
            /\ \A x \in ToSet(req[k].got) :
                   objects[x.obj].sid \notin ToSet(req[k].ids)
        BY <3>1 DEF RoutesOnce
      <3> HIDE DEF h, A
      <3>5. Distinct(req'[k].got)
        BY <3>1, <3>3, <3>4
      <3>6. Distinct(req'[k].ids)
        BY <3>1, <3>3, <3>4
      <3>7. \A x \in ToSet(req'[k].got) :
                objects'[x.obj].sid \notin ToSet(req'[k].ids)
        BY <3>1, <3>2, <3>3, <3>4
      <3> QED  BY <3>5, <3>6, <3>7
    <2> QED  BY <2>1, <2>2, <2>3, RoutingStep
  <1> QED  BY <1>2, <1>3 DEF RoutesOnce

LEMMA OnceInvInit == Init => OnceInv
  <1> SUFFICES ASSUME Init PROVE OnceInv
    OBVIOUS
  <1>1. NodeTypeOK
    BY NodeTypeInit
  <1>2. /\ DOMAIN rooms = {}
        /\ \A k \in Workers : pc[k] = "idle" /\ req[k] = NoRequest
    BY Empties DEF Init, NewSessionManager
  <1>3. OneControl /\ CreatorIsFirst /\ MembersHaveReason /\ MembersOnce
    BY <1>2 DEF OneControl, CreatorIsFirst, MembersHaveReason, MembersOnce,
       NoRequest, Control
  <1>4. RoutesOnce
    BY <1>2, ToSetEmpty DEF RoutesOnce, NoRequest
  <1> QED  BY <1>1, <1>3, <1>4 DEF OnceInv

LEMMA OnceInvNext ==
    ASSUME Serialised
    PROVE  OnceInv /\ [Next]_vars => OnceInv'
  <1> SUFFICES ASSUME OnceInv, [Next]_vars PROVE OnceInv'
    OBVIOUS
  <1>1. NodeTypeOK /\ NodeTypeOK'
    BY NodeTypeNext DEF OnceInv
  <1>2. ASSUME NEW k \in Workers, Request(k) \/ Serve(k)
        PROVE  OnceInv'
    BY <1>1, <1>2, OneControlStep, CreatorStep, ReasonStep, MembersOnceStep,
       RoutesOnceStep DEF OnceInv
  <1>3. CASE UNCHANGED vars
    <2>1. UNCHANGED <<sessions, rooms, objects, pc, req>>
      BY <1>3 DEF vars, tableVars, workVars
    <2>2. \A s, r : Reason(s, r) => Reason(s, r)'
      BY <2>1 DEF Reason, ContainsKey, RoomOf
    <2>3. MembersHaveReason'
      BY <2>1, <2>2 DEF OnceInv, MembersHaveReason
    <2>4. OneControl' /\ CreatorIsFirst'
      BY <2>1 DEF OnceInv, OneControl, CreatorIsFirst, ContainsKey
    <2>5. MembersOnce' /\ RoutesOnce'
      BY <2>1 DEF OnceInv, MembersOnce, RoutesOnce
    <2> QED  BY <1>1, <2>3, <2>4, <2>5 DEF OnceInv
  <1> QED  BY <1>2, <1>3 DEF Next

(* No packet is sent to one track twice, whatever requests run meanwhile,  *)
(* when the control requests of each session come one after the other      *)
(* (session.rs:132-150, 176-209).                                          *)
THEOREM DeliveredOnceCorrect ==
    ASSUME Serialised
    PROVE  Spec => []DeliveredOnce
  <1>1. OnceInv => DeliveredOnce
    BY DEF OnceInv, RoutesOnce, DeliveredOnce
  <1> QED  BY <1>1, OnceInvInit, OnceInvNext, PTL DEF Spec

----------------------------------------------------------------------------
(* One request at a time: the rooms mirror the session table.              *)

LEMMA Alone ==
    ASSUME SingleWorker, NEW k \in Workers, NEW l \in Workers
    PROVE  l = k
  BY DEF SingleWorker

SessionsListed ==
    \A s \in DOMAIN sessions :
        RoomOf(s) \in DOMAIN rooms /\ s \in ToSet(rooms[RoomOf(s)])

TableAt(k) ==
    /\ pc[k] = "insert" => /\ req[k].room \in DOMAIN rooms
                           /\ req[k].sid \in ToSet(rooms[req[k].room])
    /\ pc[k] = "leave" => ~ContainsKey(req[k].sid)
    /\ pc[k] = "drop" => RoomIsEmpty(req[k].room)

(* An empty room is one that its last member's destruction is looking at.  *)
EmptyIsSeen ==
    \A r \in DOMAIN rooms : rooms[r] = << >> =>
        \E k \in Workers : pc[k] \in {"look", "drop"} /\ req[k].room = r

MirrorInv ==
    /\ OnceInv /\ SessionsListed /\ EmptyIsSeen
    /\ \A k \in Workers : TableAt(k)

(* The steps that concern neither the table nor the rooms.                 *)
LEMMA OtherStep ==
    ASSUME NodeTypeOK, NEW k \in Workers, Request(k) \/ Serve(k),
           ~(CreateJoin(k) \/ CreateInsert(k) \/ DestroyRemove(k)
             \/ DestroyLeave(k) \/ DestroyLook(k) \/ DestroyDropRoom(k))
    PROVE  /\ pc[k] \notin {"join", "insert", "leave", "look", "drop"}
           /\ pc'[k] \notin {"insert", "leave", "look", "drop"}
           /\ UNCHANGED <<sessions, rooms>>
  <1>1. UNCHANGED <<sessions, rooms>>
    BY SessionsStep, RoomsStep
  <1>2. CASE Request(k)
    BY <1>1, <1>2, RequestBegins
  <1>3. CASE \/ StopReturn(k) \/ Uncount(k) \/ AddTrackCount(k)
             \/ PushSend(k) \/ StartRecordingFails(k) \/ StartRecordingEntry(k)
    <2>1. pc'[k] = "idle"
      BY <1>3, ReturnStep
    <2>2. pc[k] \in {"stop", "unregister", "count", "peers", "files", "recorded"}
      BY <1>3 DEF StopReturn, Uncount, AddTrackCount, PushSend,
         StartRecordingFails, StartRecordingEntry, Return, Goto
    <2> QED  BY <1>1, <2>1, <2>2
  <1>4. CASE \/ StopForget(k) \/ Unindex(k) \/ AddTrackInsert(k)
             \/ AddTrackStream(k) \/ AddTrackIndex(k) \/ RemoveTrackEntry(k)
             \/ StartRecordingTask(k)
    <2>1. pc'[k] \in {"stop", "unregister", "stream", "index", "count",
                      "recorded"}
      BY <1>4, GotoStep
    <2>2. pc[k] \in {"forget", "unindex", "track", "stream", "index", "untrack",
                     "files"}
      BY <1>4 DEF StopForget, Unindex, AddTrackInsert, AddTrackStream,
         AddTrackIndex, RemoveTrackEntry, StartRecordingTask, Goto
    <2> QED  BY <1>1, <2>1, <2>2
  <1>5. CASE \/ StopRemove(k) \/ DestroyCollect(k) \/ Unregister(k) \/ PushRoom(k)
             \/ PushMembers(k) \/ PushPeer(k)
    <2>1. pc'[k] \in {"forget", "stop", "idle", "unregister", "unindex",
                      "members", "peers"}
      BY <1>5, UpdateStep, Zenon
    <2>2. pc[k] \in {"stop", "collect", "unregister", "room", "members", "peers"}
      BY <1>5, Zenon DEF StopRemove, DestroyCollect, Unregister, PushRoom, PushMembers,
         PushPeer, Return, Goto
    <2> QED  BY <1>1, <2>1, <2>2
  <1> QED  BY <1>2, <1>3, <1>4, <1>5 DEF Serve

(* The table entries that a step leaves alone keep their rooms.            *)
LEMMA ListedKept ==
    ASSUME NodeTypeOK, ObjectsKept, SessionsListed,
           NEW s, s \in DOMAIN sessions, s \in DOMAIN sessions',
           sessions'[s] = sessions[s]
    PROVE  /\ RoomOf(s)' = RoomOf(s)
           /\ RoomOf(s) \in DOMAIN rooms /\ s \in ToSet(rooms[RoomOf(s)])
  BY RoomOfKept DEF ContainsKey, SessionsListed

LEMMA MirrorStep ==
    ASSUME SingleWorker, MirrorInv, OnceInv', NEW k \in Workers,
           Request(k) \/ Serve(k)
    PROVE  MirrorInv'
  <1>1. /\ NodeTypeOK /\ NodeTypeOK' /\ CreatorIsFirst /\ SessionsListed
        /\ EmptyIsSeen /\ TableAt(k) /\ Typed(k) /\ ObjectsKept
    BY HandlerStep, TableStep DEF MirrorInv, OnceInv
  <1>2. \A l \in Workers : l = k
    BY Alone
  <1>3. ASSUME pc[k] \notin {"look", "drop"}
        PROVE  \A r \in DOMAIN rooms : rooms[r] # << >>
    BY <1>1, <1>2, <1>3 DEF EmptyIsSeen
  <1>4. SUFFICES SessionsListed' /\ EmptyIsSeen' /\ TableAt(k)'
    BY <1>2 DEF MirrorInv
  <1>5. CASE CreateJoin(k)
    <2> DEFINE q == req[k].room
               x == req[k].sid
    <2>1. /\ pc[k] = "join" /\ UNCHANGED <<sessions, objects>>
          /\ DOMAIN rooms' = DOMAIN rooms \cup {q}
          /\ ToSet(rooms'[q]) = ToSet(Members(q)) \cup {x}
          /\ \A r \in DOMAIN rooms \ {q} : rooms'[r] = rooms[r]
          /\ pc'[k] = "insert" /\ req'[k] = req[k]
      BY <1>1, <1>5, JoinList, GotoStep
    <2>2. ASSUME NEW s \in DOMAIN sessions'
          PROVE  RoomOf(s)' \in DOMAIN rooms' /\ s \in ToSet(rooms'[RoomOf(s)'])
      <3>1. /\ RoomOf(s)' = RoomOf(s) /\ RoomOf(s) \in DOMAIN rooms
            /\ s \in ToSet(rooms[RoomOf(s)])
        BY <1>1, <2>1, ListedKept
      <3>2. RoomOf(s) = q => s \in ToSet(Members(q))
        BY <3>1 DEF Members
      <3> QED  BY <2>1, <3>1, <3>2
    <2>3. SessionsListed'
      BY <2>2 DEF SessionsListed
    <2>4. EmptyIsSeen'
      <3>1. \A r \in DOMAIN rooms' : rooms'[r] # << >>
        BY <1>3, <2>1, ToSetEmpty
      <3> QED  BY <3>1 DEF EmptyIsSeen
    <2>5. TableAt(k)'
      BY <2>1 DEF TableAt
    <2> QED  BY <2>3, <2>4, <2>5
  <1>6. CASE CreateInsert(k)
    <2> DEFINE x == req[k].sid
    <2>1. /\ pc[k] = "insert" /\ UNCHANGED rooms
          /\ DOMAIN sessions' = DOMAIN sessions \cup {x}
          /\ \A s \in DOMAIN sessions \ {x} : sessions'[s] = sessions[s]
          /\ objects'[sessions'[x]].room = req[k].room
          /\ pc'[k] = "idle"
      BY <1>1, <1>6, InsertEntry, ReturnStep
    <2>2. ASSUME NEW s \in DOMAIN sessions'
          PROVE  RoomOf(s)' \in DOMAIN rooms' /\ s \in ToSet(rooms'[RoomOf(s)'])
      <3>1. CASE s = x
        BY <1>1, <2>1, <3>1 DEF RoomOf, TableAt
      <3>2. CASE s # x
        <4>1. /\ RoomOf(s)' = RoomOf(s) /\ RoomOf(s) \in DOMAIN rooms
              /\ s \in ToSet(rooms[RoomOf(s)])
          BY <1>1, <2>1, <3>2, ListedKept
        <4> QED  BY <2>1, <4>1
      <3> QED  BY <3>1, <3>2
    <2>3. SessionsListed'
      BY <2>2 DEF SessionsListed
    <2>4. EmptyIsSeen' /\ TableAt(k)'
      BY <1>3, <2>1 DEF EmptyIsSeen, TableAt
    <2> QED  BY <2>3, <2>4
  <1>7. CASE DestroyRemove(k)
    <2> DEFINE x == req[k].sid
    <2>1. /\ pc[k] = "stop" /\ UNCHANGED <<rooms, objects>>
          /\ DOMAIN sessions' = DOMAIN sessions \ {x}
          /\ \A s \in DOMAIN sessions' : sessions'[s] = sessions[s]
          /\ (pc'[k] = "leave" /\ req'[k].sid = x) \/ pc'[k] = "idle"
      BY <1>1, <1>7, RemoveEntry
    <2>2. ASSUME NEW s \in DOMAIN sessions'
          PROVE  RoomOf(s)' \in DOMAIN rooms' /\ s \in ToSet(rooms'[RoomOf(s)'])
      <3>1. /\ RoomOf(s)' = RoomOf(s) /\ RoomOf(s) \in DOMAIN rooms
            /\ s \in ToSet(rooms[RoomOf(s)])
        BY <1>1, <2>1, ListedKept
      <3> QED  BY <2>1, <3>1
    <2>3. SessionsListed'
      BY <2>2 DEF SessionsListed
    <2>4. EmptyIsSeen' /\ TableAt(k)'
      BY <1>3, <2>1 DEF EmptyIsSeen, TableAt, ContainsKey
    <2> QED  BY <2>3, <2>4
  <1>8. CASE DestroyLeave(k)
    <2> DEFINE q == req[k].room
               x == req[k].sid
    <2>1. /\ pc[k] = "leave" /\ UNCHANGED <<sessions, objects>>
          /\ DOMAIN rooms' = DOMAIN rooms
          /\ \A r \in DOMAIN rooms : r # q => rooms'[r] = rooms[r]
          /\ q \in DOMAIN rooms => ToSet(rooms'[q]) = ToSet(rooms[q]) \ {x}
          /\ pc'[k] = "look" /\ req'[k] = req[k]
      BY <1>1, <1>8, LeaveList, GotoStep
    <2>2. x \notin DOMAIN sessions
      BY <1>1, <2>1 DEF TableAt, ContainsKey
    <2>3. ASSUME NEW s \in DOMAIN sessions'
          PROVE  RoomOf(s)' \in DOMAIN rooms' /\ s \in ToSet(rooms'[RoomOf(s)'])
      <3>1. /\ RoomOf(s)' = RoomOf(s) /\ RoomOf(s) \in DOMAIN rooms
            /\ s \in ToSet(rooms[RoomOf(s)])
        BY <1>1, <2>1, ListedKept
      <3> QED  BY <2>1, <2>2, <3>1
    <2>4. SessionsListed'
      BY <2>3 DEF SessionsListed
    <2>5. EmptyIsSeen'
      BY <1>3, <2>1 DEF EmptyIsSeen
    <2>6. TableAt(k)'
      BY <2>1 DEF TableAt
    <2> QED  BY <2>4, <2>5, <2>6
  <1>9. CASE DestroyLook(k)
    <2>1. /\ pc[k] = "look" /\ UNCHANGED <<sessions, rooms, objects>>
          /\ req'[k] = req[k]
          /\ pc'[k] = IF RoomIsEmpty(req[k].room) THEN "drop" ELSE "collect"
      BY <1>1, <1>9, GotoStep DEF DestroyLook, Goto, tableVars
    <2>2. SessionsListed'
      BY <1>1, <2>1 DEF SessionsListed, RoomOf
    <2>3. TableAt(k)'
      BY <2>1 DEF TableAt, RoomIsEmpty
    <2>4. EmptyIsSeen'
      BY <1>1, <1>2, <2>1 DEF EmptyIsSeen, RoomIsEmpty
    <2> QED  BY <2>2, <2>3, <2>4
  <1>10. CASE DestroyDropRoom(k)
    <2> DEFINE q == req[k].room
    <2>1. /\ pc[k] = "drop" /\ UNCHANGED <<sessions, objects>>
          /\ DOMAIN rooms' = DOMAIN rooms \ {q}
          /\ \A r \in DOMAIN rooms' : rooms'[r] = rooms[r]
          /\ pc'[k] = "collect"
      BY <1>1, <1>10, DropList, GotoStep
    <2>2. rooms[q] = << >>
      BY <1>1, <2>1 DEF TableAt, RoomIsEmpty
    <2>3. ASSUME NEW s \in DOMAIN sessions'
          PROVE  RoomOf(s)' \in DOMAIN rooms' /\ s \in ToSet(rooms'[RoomOf(s)'])
      <3>1. /\ RoomOf(s)' = RoomOf(s) /\ RoomOf(s) \in DOMAIN rooms
            /\ s \in ToSet(rooms[RoomOf(s)])
        BY <1>1, <2>1, ListedKept
      <3>2. RoomOf(s) # q
        BY <2>2, <3>1, ToSetEmpty
      <3> QED  BY <2>1, <3>1, <3>2
    <2>4. SessionsListed'
      BY <2>3 DEF SessionsListed
    <2>5. EmptyIsSeen' /\ TableAt(k)'
      BY <1>1, <1>2, <2>1 DEF EmptyIsSeen, TableAt
    <2> QED  BY <2>4, <2>5
  <1>11. CASE ~(CreateJoin(k) \/ CreateInsert(k) \/ DestroyRemove(k)
             \/ DestroyLeave(k) \/ DestroyLook(k) \/ DestroyDropRoom(k))
    <2>1. /\ pc[k] \notin {"join", "insert", "leave", "look", "drop"}
          /\ pc'[k] \notin {"insert", "leave", "look", "drop"}
          /\ UNCHANGED <<sessions, rooms>>
      BY <1>1, <1>11, OtherStep
    <2>2. ASSUME NEW s \in DOMAIN sessions'
          PROVE  RoomOf(s)' \in DOMAIN rooms' /\ s \in ToSet(rooms'[RoomOf(s)'])
      <3>1. /\ RoomOf(s)' = RoomOf(s) /\ RoomOf(s) \in DOMAIN rooms
            /\ s \in ToSet(rooms[RoomOf(s)])
        BY <1>1, <2>1, ListedKept
      <3> QED  BY <2>1, <3>1
    <2>3. SessionsListed'
      BY <2>2 DEF SessionsListed
    <2>4. EmptyIsSeen' /\ TableAt(k)'
      BY <1>3, <2>1 DEF EmptyIsSeen, TableAt
    <2> QED  BY <2>3, <2>4
  <1> QED  BY <1>5, <1>6, <1>7, <1>8, <1>9, <1>10, <1>11

LEMMA MirrorInvInit == Init => MirrorInv
  <1> SUFFICES ASSUME Init PROVE MirrorInv
    OBVIOUS
  <1>1. OnceInv
    BY OnceInvInit
  <1>2. /\ DOMAIN rooms = {} /\ DOMAIN sessions = {}
        /\ \A k \in Workers : pc[k] = "idle"
    BY Empties DEF Init, NewSessionManager
  <1> QED  BY <1>1, <1>2 DEF MirrorInv, SessionsListed, EmptyIsSeen, TableAt

LEMMA MirrorInvNext ==
    ASSUME SingleWorker
    PROVE  MirrorInv /\ [Next]_vars => MirrorInv'
  <1> SUFFICES ASSUME MirrorInv, [Next]_vars PROVE MirrorInv'
    OBVIOUS
  <1>1. OnceInv'
    BY OnceInvNext DEF MirrorInv, Serialised
  <1>2. ASSUME NEW k \in Workers, Request(k) \/ Serve(k)
        PROVE  MirrorInv'
    BY <1>1, <1>2, MirrorStep
  <1>3. CASE UNCHANGED vars
    <2>1. UNCHANGED <<sessions, rooms, objects, pc, req>>
      BY <1>3 DEF vars, tableVars, workVars
    <2>2. SessionsListed' /\ EmptyIsSeen'
      BY <2>1 DEF MirrorInv, SessionsListed, EmptyIsSeen, RoomOf
    <2>3. \A k \in Workers : TableAt(k)'
      BY <2>1 DEF MirrorInv, TableAt, ContainsKey, RoomIsEmpty
    <2> QED  BY <1>1, <2>2, <2>3 DEF MirrorInv
  <1> QED  BY <1>2, <1>3 DEF Next

(* Who a room lists, when the worker is neither inserting nor leaving.     *)
LEMMA MembersAre ==
    ASSUME SingleWorker, MirrorInv, NEW k \in Workers,
           pc[k] \notin {"insert", "leave"}, NEW r
    PROVE  ToSet(Members(r)) = {s \in DOMAIN sessions : RoomOf(s) = r}
  <1>1. NodeTypeOK /\ MembersHaveReason /\ SessionsListed
    BY DEF MirrorInv, OnceInv
  <1>2. \A l \in Workers : l = k
    BY Alone
  <1>3. ASSUME NEW s \in ToSet(Members(r))
        PROVE  s \in DOMAIN sessions /\ RoomOf(s) = r
    <2>1. r \in DOMAIN rooms /\ s \in ToSet(rooms[r])
      BY <1>1, MembersType
    <2>2. Reason(s, r)
      BY <1>1, <2>1 DEF MembersHaveReason
    <2> QED  BY <1>2, <2>2 DEF Reason, ContainsKey
  <1>4. ASSUME NEW s \in DOMAIN sessions, RoomOf(s) = r
        PROVE  s \in ToSet(Members(r))
    BY <1>1, <1>4 DEF SessionsListed, Members
  <1> QED  BY <1>3, <1>4

(* Between requests, served one at a time, each room lists exactly its     *)
(* live sessions, each once, and no empty room is kept (session.rs:132-173)*)
THEOREM RoomsMirrorSessionsCorrect ==
    ASSUME SingleWorker
    PROVE  Spec => []RoomsMirrorSessions
  <1>1. MirrorInv => RoomsMirrorSessions
    <2> SUFFICES ASSUME MirrorInv, Quiet, NEW r \in Rooms
                 PROVE  /\ ToSet(Members(r)) = {s \in DOMAIN sessions : RoomOf(s) = r}
                        /\ Distinct(Members(r))
                        /\ ~RoomIsEmpty(r)
      BY DEF RoomsMirrorSessions
    <2>1. PICK k \in Workers : TRUE
      BY DEF SingleWorker
    <2>2. \A l \in Workers : pc[l] = "idle"
      BY DEF Quiet
    <2>3. ToSet(Members(r)) = {s \in DOMAIN sessions : RoomOf(s) = r}
      BY <2>1, <2>2, MembersAre
    <2>4. Distinct(Members(r))
      BY ToSetEmpty DEF MirrorInv, OnceInv, MembersOnce, Members
    <2>5. ~RoomIsEmpty(r)
      BY <2>2 DEF MirrorInv, EmptyIsSeen, RoomIsEmpty
    <2> QED  BY <2>3, <2>4, <2>5
  <1> QED  BY <1>1, MirrorInvInit, MirrorInvNext, PTL DEF Spec

----------------------------------------------------------------------------
(* Requests in any interleaving: an empty room is always on its way out,   *)
(* whoever joins and leaves between the look and the removal.              *)

LEMMA EmptySeenStep ==
    ASSUME NodeTypeOK, EmptyIsSeen, NEW k \in Workers, Request(k) \/ Serve(k)
    PROVE  EmptyIsSeen'
  <1>1. Typed(k)
    BY HandlerStep
  <1>2. \A l \in Workers : l # k => pc'[l] = pc[l] /\ req'[l] = req[l]
    BY <1>1 DEF Typed, OthersKept
  <1>3. CASE CreateJoin(k)
    <2> DEFINE q == req[k].room
    <2>1. /\ pc[k] = "join" /\ DOMAIN rooms' = DOMAIN rooms \cup {q}
          /\ req[k].sid \in ToSet(rooms'[q])
          /\ \A r \in DOMAIN rooms \ {q} : rooms'[r] = rooms[r]
      BY <1>3, JoinList
    <2>2. rooms'[q] # << >>
      BY <2>1, ToSetEmpty
    <2> QED  BY <1>2, <2>1, <2>2 DEF EmptyIsSeen
  <1>4. CASE DestroyLeave(k)
    <2> DEFINE q == req[k].room
    <2>1. /\ pc[k] = "leave" /\ DOMAIN rooms' = DOMAIN rooms
          /\ \A r \in DOMAIN rooms : r # q => rooms'[r] = rooms[r]
          /\ pc'[k] = "look" /\ req'[k].room = q
      BY <1>4, LeaveList, GotoStep
    <2> QED  BY <1>2, <2>1 DEF EmptyIsSeen
  <1>5. CASE DestroyLook(k)
    <2>1. /\ pc[k] = "look" /\ UNCHANGED rooms /\ req'[k] = req[k]
          /\ pc'[k] = IF RoomIsEmpty(req[k].room) THEN "drop" ELSE "collect"
      BY <1>5, GotoStep DEF DestroyLook, Goto, tableVars
    <2> QED  BY <1>2, <2>1 DEF EmptyIsSeen, RoomIsEmpty
  <1>6. CASE DestroyDropRoom(k)
    <2>1. /\ pc[k] = "drop" /\ DOMAIN rooms' = DOMAIN rooms \ {req[k].room}
          /\ \A r \in DOMAIN rooms' : rooms'[r] = rooms[r]
      BY <1>6, DropList
    <2> QED  BY <1>2, <2>1 DEF EmptyIsSeen
  <1>7. CASE CreateInsert(k) \/ DestroyRemove(k)
    <2>1. pc[k] \in {"insert", "stop"} /\ UNCHANGED rooms
      BY <1>7 DEF CreateInsert, DestroyRemove, Return, Goto
    <2> QED  BY <1>2, <2>1 DEF EmptyIsSeen
  <1>8. CASE ~(CreateJoin(k) \/ CreateInsert(k) \/ DestroyRemove(k)
             \/ DestroyLeave(k) \/ DestroyLook(k) \/ DestroyDropRoom(k))
    <2>1. pc[k] \notin {"look", "drop"} /\ UNCHANGED rooms
      BY <1>8, OtherStep
    <2> QED  BY <1>2, <2>1 DEF EmptyIsSeen
  <1> QED  BY <1>3, <1>4, <1>5, <1>6, <1>7, <1>8

LEMMA EmptySeenNext == NodeTypeOK /\ EmptyIsSeen /\ [Next]_vars => EmptyIsSeen'
  <1> SUFFICES ASSUME NodeTypeOK, EmptyIsSeen, [Next]_vars PROVE EmptyIsSeen'
    OBVIOUS
  <1>1. CASE UNCHANGED vars
    BY <1>1 DEF vars, tableVars, workVars, EmptyIsSeen
  <1> QED  BY <1>1, EmptySeenStep DEF Next

(* Between requests a room lists only its live sessions, each once, and no *)
(* empty room is kept, for any number of requests in flight, when the      *)
(* control requests of each session come one after the other               *)
(* (session.rs:132-173).                                                   *)
THEOREM RoomsListLiveSessionsCorrect ==
    ASSUME Serialised
    PROVE  Spec => []RoomsListLiveSessions
  <1>1. OnceInv /\ EmptyIsSeen => RoomsListLiveSessions
    <2> SUFFICES ASSUME OnceInv, EmptyIsSeen, Quiet, NEW r \in Rooms
                 PROVE  /\ ToSet(Members(r))
                              \subseteq {s \in DOMAIN sessions : RoomOf(s) = r}
                        /\ Distinct(Members(r))
                        /\ ~RoomIsEmpty(r)
      BY DEF RoomsListLiveSessions
    <2>1. \A l \in Workers : pc[l] = "idle"
      BY DEF Quiet
    <2>2. ASSUME NEW s \in ToSet(Members(r))
          PROVE  s \in DOMAIN sessions /\ RoomOf(s) = r
      <3>1. r \in DOMAIN rooms /\ s \in ToSet(rooms[r])
        BY ToSetEmpty DEF Members
      <3>2. Reason(s, r)
        BY <3>1 DEF OnceInv, MembersHaveReason
      <3> QED  BY <2>1, <3>2 DEF Reason, ContainsKey
    <2>3. Distinct(Members(r))
      BY ToSetEmpty DEF OnceInv, MembersOnce, Members
    <2>4. ~RoomIsEmpty(r)
      BY <2>1 DEF EmptyIsSeen, RoomIsEmpty
    <2> QED  BY <2>2, <2>3, <2>4
  <1>2. Init => EmptyIsSeen
    BY Empties DEF Init, NewSessionManager, EmptyIsSeen
  <1>3. OnceInv => NodeTypeOK
    BY DEF OnceInv
  <1> QED  BY <1>1, <1>2, <1>3, OnceInvInit, OnceInvNext, EmptySeenNext, PTL
              DEF Spec

----------------------------------------------------------------------------
(* One request at a time: a packet is routed to all its audience.          *)

LEMMA AudienceIs ==
    ASSUME NodeTypeOK, NEW src, NEW x
    PROVE  x \in Audience(src) <=>
               \E s \in DOMAIN sessions \ {src.sid} :
                   RoomOf(s) = src.room /\ x \in TracksOfKind(s, src.kind)
  <1> DEFINE Tr(s) == objects[sessions[s]].tracks
             kd == src.kind
  <1>1. \A s \in DOMAIN sessions : \A t \in DOMAIN Tr(s) : t \in Tids
    BY TableEntry DEF ContainsKey
  <1>2. ASSUME x \in Audience(src)
        PROVE  \E s \in DOMAIN sessions \ {src.sid} :
                   RoomOf(s) = src.room /\ x \in TracksOfKind(s, kd)
    <2>1. PICK p \in (DOMAIN sessions \ {src.sid}) \X Tids :
             /\ RoomOf(p[1]) = src.room
             /\ <<p[2], kd>> \in {<<t, Tr(p[1])[t]>> : t \in DOMAIN Tr(p[1])}
             /\ x = [obj |-> sessions[p[1]], tid |-> p[2], kind |-> kd]
      BY <1>2 DEF Audience
    <2>2. p[1] \in DOMAIN sessions \ {src.sid}
      OBVIOUS
    <2>3. p[2] \in DOMAIN Tr(p[1]) /\ Tr(p[1])[p[2]] = kd
      BY <2>1
    <2>4. x \in TracksOfKind(p[1], kd)
      BY <2>1, <2>2, <2>3 DEF TracksOfKind, ContainsKey
    <2> QED  BY <2>1, <2>2, <2>4
  <1>3. ASSUME NEW s \in DOMAIN sessions \ {src.sid}, RoomOf(s) = src.room,
               x \in TracksOfKind(s, kd)
        PROVE  x \in Audience(src)
    <2>1. PICK t \in DOMAIN Tr(s) :
              Tr(s)[t] = kd /\ x = [obj |-> sessions[s], tid |-> t, kind |-> kd]
      BY <1>3 DEF TracksOfKind, ContainsKey
    <2> DEFINE p == <<s, t>>
    <2>2. /\ p \in (DOMAIN sessions \ {src.sid}) \X Tids /\ p[1] = s /\ p[2] = t
      BY <1>1, <2>1
    <2>3. <<t, kd>> \in {<<u, Tr(s)[u]>> : u \in DOMAIN Tr(s)}
      BY <2>1
    <2> HIDE DEF p
    <2>4. p \in {q \in (DOMAIN sessions \ {src.sid}) \X Tids :
                    /\ RoomOf(q[1]) = src.room
                    /\ <<q[2], kd>> \in {<<u, Tr(q[1])[u]>> : u \in DOMAIN Tr(q[1])}}
      BY <1>3, <2>2, <2>3
    <2>5. x = [obj |-> sessions[p[1]], tid |-> p[2], kind |-> kd]
      BY <2>1, <2>2
    <2> QED  BY <2>4, <2>5 DEF Audience
  <1> QED  BY <1>2, <1>3

(* The targets found and those of the peers still to be asked.             *)
ExactSoFar(k) ==
    pc[k] = "peers" =>
        \A x : (\E s \in DOMAIN sessions \ {req[k].sid} :
                    RoomOf(s) = req[k].room /\ x \in TracksOfKind(s, req[k].kind))
               <=> \/ x \in ToSet(req[k].got)
                   \/ \E s \in ToSet(req[k].ids) : x \in TracksOfKind(s, req[k].kind)

ExactInv == MirrorInv /\ \A k \in Workers : ExactSoFar(k)

LEMMA ExactStep ==
    ASSUME SingleWorker, ExactInv, MirrorInv', NEW k \in Workers,
           Request(k) \/ Serve(k)
    PROVE  ExactInv'
  <1>1. NodeTypeOK /\ NodeTypeOK' /\ MirrorInv /\ ExactSoFar(k)
    BY DEF ExactInv, MirrorInv, OnceInv
  <1>2. SUFFICES ASSUME pc'[k] = "peers" PROVE ExactSoFar(k)'
    BY Alone DEF ExactInv, ExactSoFar
  <1>3. PushMembers(k) \/ PushPeer(k)
    BY <1>1, <1>2, RoutingStep
  <1>4. req'[k].sid = req[k].sid /\ req'[k].kind = req[k].kind
    BY <1>1, <1>2, <1>3, ServeKeeps DEF Serve
  <1> DEFINE Mine(s, x) == x \in TracksOfKind(s, req[k].kind)
             Peer(s) == s \in DOMAIN sessions \ {req[k].sid} /\ RoomOf(s) = req[k].room
  <1>5. ASSUME UNCHANGED <<sessions, objects>>, req'[k].room = req[k].room,
               \A x : (\E s : Peer(s) /\ Mine(s, x))
                      <=> \/ x \in ToSet(req'[k].got)
                          \/ \E s \in ToSet(req'[k].ids) : Mine(s, x)
        PROVE  ExactSoFar(k)'
    <2>1. \A s : Peer(s)' <=> Peer(s)
      BY <1>4, <1>5 DEF RoomOf
    <2>2. \A s, x : Mine(s, x)' <=> Mine(s, x)
      BY <1>4, <1>5 DEF TracksOfKind, ContainsKey
    <2>3. \A x : (\E s : Peer(s)' /\ Mine(s, x)')
                 <=> \/ x \in ToSet(req'[k].got)
                     \/ \E s \in ToSet(req'[k].ids) : Mine(s, x)'
      BY <1>5, <2>1, <2>2
    <2> QED  BY <2>3 DEF ExactSoFar
  <1>6. CASE PushMembers(k)
    <2>1. /\ pc[k] = "members" /\ UNCHANGED <<sessions, objects>>
          /\ req'[k].ids = PeerIds(req[k].room, req[k].sid)
          /\ req'[k].room = req[k].room /\ req'[k].got = << >>
      BY <1>1, <1>6, MembersRoute
    <2>2. ToSet(Members(req[k].room))
              = {s \in DOMAIN sessions : RoomOf(s) = req[k].room}
      BY <1>1, <2>1, MembersAre
    <2>3. ToSet(PeerIds(req[k].room, req[k].sid))
              = ToSet(Members(req[k].room)) \ {req[k].sid}
      <3> DEFINE r == req[k].room
                 s == req[k].sid
      <3> HIDE DEF r, s
      <3>1. CASE r \in DOMAIN rooms
        <4>1. rooms[r] \in Seq(Sids)
          BY <1>1, <3>1 DEF NodeTypeOK, TableTypeOK
        <4>2. ToSet(Retain(rooms[r], s)) = ToSet(rooms[r]) \ {s}
          BY <4>1, RetainOthers
        <4> QED  BY <3>1, <4>2 DEF PeerIds, Members, r, s
      <3>2. CASE r \notin DOMAIN rooms
        BY <3>2, ToSetEmpty DEF PeerIds, Members, r, s
      <3> QED  BY <3>1, <3>2
    <2>4. \A s : s \in ToSet(req'[k].ids) <=> Peer(s)
      BY <2>1, <2>2, <2>3
    <2>5. ToSet(req'[k].got) = {}
      BY <2>1, ToSetEmpty
    <2> HIDE DEF Peer, Mine
    <2>6. \A x : (\E s : Peer(s) /\ Mine(s, x))
                 <=> \/ x \in ToSet(req'[k].got)
                     \/ \E s \in ToSet(req'[k].ids) : Mine(s, x)
      BY <2>4, <2>5
    <2> QED  BY <1>5, <2>1, <2>6
  <1>7. CASE PushPeer(k)
    <2> DEFINE h == Head(req[k].ids)
    <2>1. /\ pc[k] = "peers" /\ UNCHANGED <<sessions, objects>>
          /\ req[k].ids \in Seq(Sids) /\ req[k].ids # << >>
          /\ req'[k].ids = Tail(req[k].ids) /\ req'[k].room = req[k].room
          /\ ToSet(req'[k].got) = ToSet(req[k].got) \cup TracksOfKind(h, req[k].kind)
      BY <1>1, <1>7, PeerStep
    <2>2. ToSet(req[k].ids) = ToSet(Tail(req[k].ids)) \cup {h}
      BY <2>1, ToSetTail
    <2>3. \A x : (\E s : Peer(s) /\ Mine(s, x))
                 <=> \/ x \in ToSet(req[k].got)
                     \/ \E s \in ToSet(req[k].ids) : Mine(s, x)
      BY <1>1, <2>1 DEF ExactSoFar
    <2>4. \A x : x \in ToSet(req'[k].got) <=> x \in ToSet(req[k].got) \/ Mine(h, x)
      BY <2>1
    <2>5. \A s : s \in ToSet(req[k].ids) <=> s \in ToSet(req'[k].ids) \/ s = h
      BY <2>1, <2>2
    <2> HIDE DEF Peer, Mine, h
    <2>6. \A x : (\E s : Peer(s) /\ Mine(s, x))
                 <=> \/ x \in ToSet(req'[k].got)
                     \/ \E s \in ToSet(req'[k].ids) : Mine(s, x)
      BY <2>3, <2>4, <2>5
    <2> QED  BY <1>5, <2>1, <2>6
  <1> QED  BY <1>3, <1>6, <1>7

LEMMA ExactInvNext ==
    ASSUME SingleWorker
    PROVE  ExactInv /\ [Next]_vars => ExactInv'
  <1> SUFFICES ASSUME ExactInv, [Next]_vars PROVE ExactInv'
    OBVIOUS
  <1>1. MirrorInv'
    BY MirrorInvNext DEF ExactInv
  <1>2. ASSUME NEW k \in Workers, Request(k) \/ Serve(k)
        PROVE  ExactInv'
    BY <1>1, <1>2, ExactStep
  <1>3. CASE UNCHANGED vars
    <2>1. UNCHANGED <<sessions, rooms, objects, pc, req>>
      BY <1>3 DEF vars, tableVars, workVars
    <2>2. \A k \in Workers : ExactSoFar(k)'
      BY <2>1 DEF ExactInv, ExactSoFar, RoomOf, TracksOfKind, ContainsKey
    <2> QED  BY <1>1, <2>2 DEF ExactInv
  <1> QED  BY <1>2, <1>3 DEF Next

(* With requests served one at a time, a packet is sent to every track of  *)
(* its kind in the room, except its own session's, and to each one once    *)
(* (session.rs:185-209).                                                   *)
THEOREM DeliveryIsExactCorrect ==
    ASSUME SingleWorker
    PROVE  Spec => []DeliveryIsExact
  <1>1. ExactInv => DeliveryIsExact
    <2> SUFFICES ASSUME ExactInv, NEW k \in Workers,
                        pc[k] = "peers", req[k].ids = << >>
                 PROVE  /\ Distinct(req[k].got)
                        /\ ToSet(req[k].got) = Audience(req[k])
      BY DEF DeliveryIsExact
    <2>1. NodeTypeOK /\ RoutesOnce /\ ExactSoFar(k)
      BY DEF ExactInv, MirrorInv, OnceInv
    <2>2. \A x : x \in Audience(req[k]) <=> x \in ToSet(req[k].got)
      <3> TAKE x
      <3>1. x \in Audience(req[k]) <=>
               \E s \in DOMAIN sessions \ {req[k].sid} :
                   RoomOf(s) = req[k].room /\ x \in TracksOfKind(s, req[k].kind)
        BY <2>1, AudienceIs
      <3> QED  BY <2>1, <3>1, ToSetEmpty DEF ExactSoFar
    <2>3. Distinct(req[k].got)
      BY <2>1 DEF RoutesOnce
    <2> QED  BY <2>2, <2>3
  <1>2. Init => ExactInv
    <2>1. ASSUME Init PROVE \A k \in Workers : ExactSoFar(k)
      BY <2>1 DEF Init, ExactSoFar
    <2> QED  BY <2>1, MirrorInvInit DEF ExactInv
  <1> QED  BY <1>1, <1>2, ExactInvNext, PTL DEF Spec

----------------------------------------------------------------------------
(* One request at a time: the recording started last can be found through  *)
(* its session until the session's destruction has it in hand.             *)

RecordingAt(k) ==
    /\ pc[k] \in {"files", "recorded"} =>
           /\ req[k].rid = lastRecording /\ lastRecording # 0
           /\ ContainsKey(req[k].sid)
    /\ pc[k] = "files" => req[k].rid \notin DOMAIN recordings
    /\ pc[k] = "forget" => req[k].rid \notin DOMAIN recordings

LatestAt(k, s) ==
    /\ \/ pc[k] = "recorded" /\ req[k].sid = s
       \/ s \in DOMAIN sessionRecordings /\ sessionRecordings[s] = lastRecording
    /\ pc[k] = "recorded" => req[k].sid = s
    /\ req[k].op = "destroy" /\ pc[k] \in {"stop", "forget"} /\ req[k].sid = s =>
           lastRecording \in req[k].todo

RecordingInv ==
    /\ NodeTypeOK
    /\ \A rid \in DOMAIN recordings : rid \in 1 .. lastRecording
    /\ \A k \in Workers : RecordingAt(k)
    /\ lastRecording \in DOMAIN recordings =>
           /\ ContainsKey(recordings[lastRecording])
           /\ \A k \in Workers : LatestAt(k, recordings[lastRecording])

(* The steps that are about no recording.                                  *)
LEMMA RecordingOther ==
    ASSUME NodeTypeOK, NodeTypeOK', NEW k \in Workers, Request(k) \/ Serve(k),
           ~ \E s \in Sids : StartRecording(k, s) \/ DestroySession(k, s),
           ~(StopRemove(k) \/ StopForget(k) \/ StartRecordingTask(k)
             \/ StartRecordingEntry(k))
    PROVE  /\ UNCHANGED <<recordings, sessionRecordings, lastRecording>>
           /\ pc[k] \notin {"forget", "recorded"}
           /\ pc'[k] \notin {"files", "recorded", "forget"}
           /\ pc'[k] = "stop" => req'[k].op = "stopRecording"
  <1>1. CASE Request(k)
    <2>1. UNCHANGED <<recordings, sessionRecordings, lastRecording>>
      BY <1>1, Zenon DEF Request, CreateCheck, RemoveTrack, Push, AddTrack,
         StopRecording, recordingVars
    <2>2. pc[k] = "idle" /\ pc'[k] \in {"join", "untrack", "room", "track", "stop"}
      <3>1. pc[k] = "idle"
        BY <1>1, RequestBegins
      <3>2. pc'[k] \in {"join", "untrack", "room", "track", "stop"}
        BY <1>1, RequestStep, Zenon DEF Request
      <3> QED  BY <3>1, <3>2
    <2>3. ASSUME pc'[k] = "stop"
          PROVE  req'[k].op = "stopRecording"
      <3>1. PICK rid \in Answered : StopRecording(k, rid)
        BY <1>1, <2>3, RequestStep, Zenon DEF Request
      <3>2. req'[k] = [NoRequest EXCEPT !.op = "stopRecording", !.todo = {rid}]
        BY <3>1, RequestStep, Zenon
      <3> QED  BY <3>2 DEF NoRequest
    <2> QED  BY <2>1, <2>2, <2>3
  <1>2. CASE \/ CreateInsert(k) \/ StopReturn(k) \/ Uncount(k) \/ AddTrackCount(k)
             \/ PushSend(k) \/ StartRecordingFails(k)
    <2>1. pc'[k] = "idle"
      BY <1>2, ReturnStep
    <2>2. /\ UNCHANGED <<recordings, sessionRecordings, lastRecording>>
          /\ pc[k] \in {"insert", "stop", "unregister", "count", "peers", "files"}
      BY <1>2 DEF CreateInsert, StopReturn, Uncount, AddTrackCount, PushSend,
         StartRecordingFails, Return, Goto, recordingVars
    <2> QED  BY <2>1, <2>2
  <1>3. CASE \/ CreateJoin(k) \/ DestroyLeave(k) \/ DestroyLook(k)
             \/ DestroyDropRoom(k) \/ Unindex(k) \/ AddTrackInsert(k)
             \/ AddTrackStream(k) \/ AddTrackIndex(k) \/ RemoveTrackEntry(k)
    <2>1. pc'[k] \in {"insert", "look", "drop", "collect", "unregister",
                      "stream", "index", "count"}
      BY <1>3, GotoStep
    <2>2. /\ UNCHANGED <<recordings, sessionRecordings, lastRecording>>
          /\ pc[k] \in {"join", "leave", "look", "drop", "unindex", "track",
                        "stream", "index", "untrack"}
      BY <1>3 DEF CreateJoin, DestroyLeave, DestroyLook, DestroyDropRoom,
         Unindex, AddTrackInsert, AddTrackStream, AddTrackIndex,
         RemoveTrackEntry, Goto, recordingVars
    <2> QED  BY <2>1, <2>2
  <1>4. CASE \/ DestroyRemove(k) \/ DestroyCollect(k) \/ Unregister(k)
             \/ PushRoom(k) \/ PushMembers(k) \/ PushPeer(k)
    <2>1. pc'[k] \in {"leave", "idle", "unregister", "unindex", "members",
                      "peers"}
      BY <1>4, UpdateStep, Zenon
    <2>2. /\ UNCHANGED <<recordings, sessionRecordings, lastRecording>>
          /\ pc[k] \in {"stop", "collect", "unregister", "room", "members",
                        "peers"}
      BY <1>4, Zenon DEF DestroyRemove, DestroyCollect, Unregister, PushRoom,
         PushMembers, PushPeer, Return, Goto, recordingVars
    <2> QED  BY <2>1, <2>2
  <1> QED  BY <1>1, <1>2, <1>3, <1>4 DEF Serve

LEMMA RecordingStep ==
    ASSUME SingleWorker, RecordingInv, NodeTypeOK', NEW k \in Workers,
           Request(k) \/ Serve(k)
    PROVE  RecordingInv'
  <1> DEFINE R == lastRecording
             s == recordings[R]
  <1>1. /\ NodeTypeOK /\ RecordingAt(k) /\ R \in Nat /\ OpAt(k)
        /\ req[k] \in Requests
        /\ \A rid \in DOMAIN recordings : rid \in 1 .. R
        /\ R \in DOMAIN recordings => ContainsKey(s) /\ LatestAt(k, s)
    BY DEF RecordingInv, NodeTypeOK, RegistryTypeOK, WorkTypeOK
  <1>2. \A l \in Workers : l = k
    BY Alone
  <1>3. SUFFICES /\ \A rid \in DOMAIN recordings' : rid \in 1 .. R'
                 /\ RecordingAt(k)'
                 /\ R' \in DOMAIN recordings' => ContainsKey(s)' /\ LatestAt(k, s)'
    BY <1>2 DEF RecordingInv
  <1>4. ASSUME NEW x \in Sids, StartRecording(k, x)
        PROVE  /\ \A rid \in DOMAIN recordings' : rid \in 1 .. R'
               /\ RecordingAt(k)'
               /\ R' \in DOMAIN recordings' => ContainsKey(s)' /\ LatestAt(k, s)'
    <2>1. /\ UNCHANGED <<recordings, sessions>> /\ R' = R + 1 /\ ContainsKey(x)
      BY <1>4 DEF StartRecording, tableVars
    <2>2. /\ pc'[k] = "files"
          /\ req'[k] = [NoRequest EXCEPT !.op = "startRecording", !.sid = x,
                            !.obj = sessions[x], !.rid = lastRecording + 1]
      BY <1>1, <1>4, RequestStep, Zenon
    <2>3. req'[k].sid = x /\ req'[k].rid = R + 1
      BY <2>2 DEF NoRequest
    <2>4. R + 1 \notin DOMAIN recordings
      BY <1>1
    <2>5. \A rid \in DOMAIN recordings' : rid \in 1 .. R'
      BY <1>1, <2>1
    <2>6. RecordingAt(k)'
      BY <1>1, <2>1, <2>2, <2>3, <2>4 DEF RecordingAt, ContainsKey
    <2> QED  BY <2>1, <2>4, <2>5, <2>6
  <1>5. ASSUME NEW x \in Sids, DestroySession(k, x)
        PROVE  /\ \A rid \in DOMAIN recordings' : rid \in 1 .. R'
               /\ RecordingAt(k)'
               /\ R' \in DOMAIN recordings' => ContainsKey(s)' /\ LatestAt(k, s)'
    <2>1. UNCHANGED <<recordings, sessions, lastRecording, sessionRecordings>>
      BY <1>5 DEF DestroySession, tableVars, recordingVars
    <2>2. /\ pc'[k] = "stop"
          /\ req'[k] = [NoRequest EXCEPT !.op = "destroy", !.sid = x,
                                         !.todo = RecordingsOf(x)]
      BY <1>1, <1>5, RequestStep, Zenon
    <2>3. req'[k].sid = x /\ req'[k].todo = RecordingsOf(x)
      BY <2>2 DEF NoRequest
    <2>4. pc[k] = "idle"
      BY <1>1, <1>5, RequestBegins DEF Request
    <2>5. R \in DOMAIN recordings =>
              s \in DOMAIN sessionRecordings /\ sessionRecordings[s] = R
      BY <1>1, <2>4 DEF LatestAt
    <2>6. R \in DOMAIN recordings => LatestAt(k, s)'
      BY <2>1, <2>2, <2>3, <2>5 DEF LatestAt, RecordingsOf
    <2>7. RecordingAt(k)'
      BY <2>2 DEF RecordingAt
    <2>8. \A rid \in DOMAIN recordings' : rid \in 1 .. R'
      BY <1>1, <2>1
    <2> QED  BY <1>1, <2>1, <2>6, <2>7, <2>8 DEF ContainsKey
  <1>6. CASE StopRemove(k)
    <2>1. PICK rid \in req[k].todo :
             /\ RemoveRecording(rid)
             /\ pc'[k] = IF rid \in DOMAIN recordings THEN "forget" ELSE "stop"
             /\ req'[k] = [req[k] EXCEPT !.rid = rid, !.todo = @ \ {rid}]
      BY <1>1, <1>6, UpdateStep, Zenon
    <2>2. /\ UNCHANGED <<sessions, lastRecording, sessionRecordings>>
          /\ pc[k] = "stop"
      BY <1>6 DEF StopRemove, Goto, tableVars
    <2>3. /\ DOMAIN recordings' = DOMAIN recordings \ {rid}
          /\ \A x \in DOMAIN recordings' : recordings'[x] = recordings[x]
      BY <2>1 DEF RemoveRecording, Delete, Restrict
    <2>4. /\ req'[k].rid = rid /\ req'[k].todo = req[k].todo \ {rid}
          /\ req'[k].op = req[k].op /\ req'[k].sid = req[k].sid
      BY <1>1, <2>1 DEF Requests
    <2>5. pc'[k] \in {"stop", "forget"}
      BY <2>1
    <2>6. RecordingAt(k)'
      BY <2>3, <2>4, <2>5 DEF RecordingAt
    <2>7. ASSUME R \in DOMAIN recordings'
          PROVE  ContainsKey(s)' /\ LatestAt(k, s)'
      <3>1. R \in DOMAIN recordings /\ R # rid /\ s' = s
        BY <2>2, <2>3, <2>7
      <3>2. s \in DOMAIN sessionRecordings /\ sessionRecordings[s] = R
        BY <1>1, <2>2, <3>1 DEF LatestAt
      <3>3. LatestAt(k, s)'
        BY <1>1, <2>2, <2>4, <2>5, <3>1, <3>2 DEF LatestAt
      <3> QED  BY <1>1, <2>2, <3>1, <3>3 DEF ContainsKey
    <2> QED  BY <1>1, <2>2, <2>3, <2>6, <2>7
  <1>7. CASE StopForget(k)
    <2>1. /\ UNCHANGED <<sessions, recordings, lastRecording>>
          /\ pc[k] = "forget" /\ pc'[k] = "stop" /\ req'[k] = req[k]
      BY <1>1, <1>7, GotoStep DEF StopForget, Goto, tableVars
    <2>2. /\ \A x \in DOMAIN sessionRecordings : sessionRecordings[x] # req[k].rid =>
                 x \in DOMAIN sessionRecordings'
                 /\ sessionRecordings'[x] = sessionRecordings[x]
      BY <1>7 DEF StopForget, ForgetRecording, Restrict
    <2>3. req[k].rid \notin DOMAIN recordings
      BY <1>1, <2>1 DEF RecordingAt
    <2>4. RecordingAt(k)'
      BY <2>1 DEF RecordingAt
    <2>5. ASSUME R \in DOMAIN recordings
          PROVE  LatestAt(k, s)'
      <3>1. s \in DOMAIN sessionRecordings /\ sessionRecordings[s] = R
        BY <1>1, <2>1, <2>5 DEF LatestAt
      <3>2. s \in DOMAIN sessionRecordings' /\ sessionRecordings'[s] = R
        BY <2>2, <2>3, <2>5, <3>1
      <3> QED  BY <1>1, <2>1, <2>5, <3>2 DEF LatestAt
    <2> QED  BY <1>1, <2>1, <2>4, <2>5 DEF ContainsKey
  <1>8. CASE StartRecordingTask(k)
    <2>1. /\ UNCHANGED <<sessions, lastRecording, sessionRecordings>>
          /\ recordings' = Put(recordings, req[k].rid, req[k].sid)
          /\ pc[k] = "files" /\ pc'[k] = "recorded" /\ req'[k] = req[k]
      BY <1>1, <1>8, GotoStep DEF StartRecordingTask, InsertRecording, Goto,
         tableVars
    <2>2. req[k].rid = R /\ R # 0 /\ ContainsKey(req[k].sid)
      BY <1>1, <2>1 DEF RecordingAt
    <2>3. DOMAIN recordings' = DOMAIN recordings \cup {R} /\ recordings'[R] = req[k].sid
      BY <2>1, <2>2 DEF Put
    <2>4. \A rid \in DOMAIN recordings' : rid \in 1 .. R'
      BY <1>1, <2>1, <2>2, <2>3
    <2>5. RecordingAt(k)'
      BY <2>1, <2>2 DEF RecordingAt, ContainsKey
    <2>6. req[k].op = "startRecording"
      BY <1>1, <2>1 DEF OpAt, DestroyLabels
    <2>7. s' = req[k].sid
      BY <2>1, <2>3
    <2>8. LatestAt(k, s)'
      BY <2>1, <2>6, <2>7 DEF LatestAt
    <2> QED  BY <2>1, <2>2, <2>4, <2>5, <2>7, <2>8 DEF ContainsKey
  <1>9. CASE StartRecordingEntry(k)
    <2>1. /\ UNCHANGED <<sessions, lastRecording, recordings>>
          /\ sessionRecordings' = Put(sessionRecordings, req[k].sid, req[k].rid)
          /\ pc[k] = "recorded" /\ pc'[k] = "idle" /\ req'[k] = NoRequest
      BY <1>1, <1>9, ReturnStep DEF StartRecordingEntry, InsertSessionRecording,
         Return, Goto, tableVars
    <2>2. req[k].rid = R
      BY <1>1, <2>1 DEF RecordingAt
    <2>3. req[k].sid \in DOMAIN sessionRecordings' /\ sessionRecordings'[req[k].sid] = R
      BY <2>1, <2>2 DEF Put
    <2>4. RecordingAt(k)'
      BY <2>1 DEF RecordingAt
    <2>5. ASSUME R \in DOMAIN recordings
          PROVE  LatestAt(k, s)'
      <3>1. req[k].sid = s
        BY <1>1, <2>1, <2>5 DEF LatestAt
      <3> QED  BY <2>1, <2>3, <3>1 DEF LatestAt
    <2> QED  BY <1>1, <2>1, <2>4, <2>5 DEF ContainsKey
  <1>10. CASE /\ ~ \E x \in Sids : StartRecording(k, x) \/ DestroySession(k, x)
              /\ ~(StopRemove(k) \/ StopForget(k) \/ StartRecordingTask(k)
                   \/ StartRecordingEntry(k))
    <2>1. /\ UNCHANGED <<recordings, sessionRecordings, lastRecording>>
          /\ pc[k] \notin {"forget", "recorded"}
          /\ pc'[k] \notin {"files", "recorded", "forget"}
          /\ pc'[k] = "stop" => req'[k].op = "stopRecording"
      BY <1>1, <1>10, RecordingOther
    <2>2. RecordingAt(k)'
      BY <2>1 DEF RecordingAt
    <2>3. ASSUME R \in DOMAIN recordings
          PROVE  ContainsKey(s)' /\ LatestAt(k, s)'
      <3>1. s \in DOMAIN sessionRecordings /\ sessionRecordings[s] = R
        BY <1>1, <2>1, <2>3 DEF LatestAt
      <3>2. LatestAt(k, s)'
        BY <2>1, <3>1 DEF LatestAt
      <3>3. s \in DOMAIN sessions
        BY <1>1, <2>3 DEF ContainsKey
      <3>4. CASE DestroyRemove(k)
        <4>1. /\ pc[k] = "stop" /\ req[k].op = "destroy" /\ req[k].todo = {}
              /\ DOMAIN sessions' = DOMAIN sessions \ {req[k].sid}
          BY <1>1, <3>4, RemoveEntry
        <4>2. s # req[k].sid
          BY <1>1, <2>3, <4>1 DEF LatestAt
        <4> QED  BY <2>1, <3>2, <3>3, <4>1, <4>2 DEF ContainsKey
      <3>5. CASE CreateInsert(k)
        BY <1>1, <2>1, <3>2, <3>3, <3>5, InsertEntry DEF ContainsKey
      <3>6. CASE UNCHANGED sessions
        BY <2>1, <3>2, <3>3, <3>6 DEF ContainsKey
      <3> QED  BY <1>1, <3>4, <3>5, <3>6, SessionsStep
    <2> QED  BY <1>1, <2>1, <2>2, <2>3
  <1> QED  BY <1>4, <1>5, <1>6, <1>7, <1>8, <1>9, <1>10

LEMMA RecordingInvNext ==
    ASSUME SingleWorker
    PROVE  RecordingInv /\ [Next]_vars => RecordingInv'
  <1> SUFFICES ASSUME RecordingInv, [Next]_vars PROVE RecordingInv'
    OBVIOUS
  <1>1. NodeTypeOK'
    BY NodeTypeNext DEF RecordingInv
  <1>2. ASSUME NEW k \in Workers, Request(k) \/ Serve(k)
        PROVE  RecordingInv'
    BY <1>1, <1>2, RecordingStep
  <1>3. CASE UNCHANGED vars
    <2>1. UNCHANGED <<sessions, pc, req, recordings, sessionRecordings,
                      lastRecording>>
      BY <1>3 DEF vars, tableVars, workVars, recordingVars
    <2> QED  BY <1>1, <2>1 DEF RecordingInv, RecordingAt, LatestAt, ContainsKey
  <1> QED  BY <1>2, <1>3 DEF Next

(* The recording started last does not outlive its session, when requests  *)
(* are served one at a time (service.rs:172-176, recorder.rs:286, 345-351).*)
THEOREM LatestRecordingStopsCorrect ==
    ASSUME SingleWorker
    PROVE  Spec => []LatestRecordingStops
  <1>1. Init => RecordingInv
    <2> SUFFICES ASSUME Init PROVE RecordingInv
      OBVIOUS
    <2>1. DOMAIN recordings = {} /\ \A k \in Workers : pc[k] = "idle"
      BY Empties DEF Init, NewRecordingManager
    <2> QED  BY <2>1, NodeTypeInit DEF RecordingInv, RecordingAt
  <1>2. RecordingInv => LatestRecordingStops
    BY DEF RecordingInv, LatestRecordingStops
  <1> QED  BY <1>1, <1>2, RecordingInvNext, PTL DEF Spec

----------------------------------------------------------------------------
(* One request at a time: the registries mirror the tracks of the live     *)
(* sessions.  Every stream id agrees with the tables, except the ones that *)
(* the request being served is adding or removing, and those are as far as *)
(* the request has got with them.                                          *)

IsLive(id) ==
    id[1] \in DOMAIN sessions /\ id[2] \in DOMAIN objects[sessions[id[1]]].tracks

Registered(id) == id \in DOMAIN streams

Listed(id, r) == r \in DOMAIN roomStreams /\ id \in ToSet(roomStreams[r])

Indexed(id) == \A r : Listed(id, r) <=> Registered(id) /\ r = streams[id]

Agrees(id) ==
    /\ Registered(id) <=> IsLive(id)
    /\ id \in counters <=> IsLive(id)
    /\ Registered(id) => streams[id] = RoomOf(id[1])
    /\ Indexed(id)

Adding(k, id) ==
    /\ req[k].op = "addTrack" /\ pc[k] \in {"stream", "index", "count"}
    /\ id = <<req[k].sid, req[k].tid>>

Removing(k, id) ==
    \/ /\ req[k].op = "destroy"
       /\ pc[k] \in {"leave", "look", "drop", "collect", "unregister", "unindex"}
       /\ id[1] = req[k].sid
    \/ /\ req[k].op = "removeTrack" /\ pc[k] \in {"unregister", "unindex"}
       /\ id = <<req[k].sid, req[k].tid>>

HalfAdded(k, id) ==
    /\ IsLive(id)
    /\ pc[k] \in {"index", "count"} => Registered(id)
    /\ Registered(id) => streams[id] = RoomOf(id[1])
    /\ pc[k] \in {"stream", "count"} => Indexed(id)
    /\ pc[k] = "index" => \A r : Listed(id, r) => r = streams[id]

HalfRemoved(k, id) ==
    /\ ~IsLive(id)
    /\ pc[k] \in {"unregister", "unindex"} /\ Registered(id) => id \in req[k].todo
    /\ pc[k] = "unindex" /\ id = req[k].ids[1] =>
           ~Registered(id) /\ \A r : Listed(id, r) => r = req[k].room
    /\ ~(pc[k] = "unindex" /\ id = req[k].ids[1]) => Indexed(id)

TrackAt(k, id) ==
    /\ Adding(k, id) => HalfAdded(k, id)
    /\ Removing(k, id) => HalfRemoved(k, id)
    /\ ~Adding(k, id) /\ ~Removing(k, id) => Agrees(id)

(* What a handler holds of the session and of the work left to it.         *)
HeldAt(k) ==
    /\ pc[k] \in {"track", "stream", "index", "count", "untrack"} =>
           ContainsKey(req[k].sid) /\ req[k].obj = sessions[req[k].sid]
    /\ pc[k] \in {"track", "stream", "index", "count"} =>
           req[k].room = RoomOf(req[k].sid)
    /\ pc[k] = "untrack" => req[k].todo = {<<req[k].sid, req[k].tid>>}
    /\ pc[k] \in {"unregister", "unindex"} =>
           \A id \in req[k].todo : Removing(k, id)
    /\ pc[k] = "unindex" => Removing(k, req[k].ids[1])

RegistryInv ==
    /\ OnceInv /\ counters \subseteq StreamIds
    /\ \A k \in Workers : HeldAt(k) /\ \A id \in StreamIds : TrackAt(k, id)

(* An id that is left alone goes on agreeing.                              *)
LEMMA AgreesKept ==
    ASSUME NEW id, Agrees(id), id \in counters' <=> id \in counters,
           Registered(id)' <=> Registered(id),
           Registered(id) => streams'[id] = streams[id],
           \A r : Listed(id, r)' <=> Listed(id, r),
           IsLive(id)' <=> IsLive(id),
           IsLive(id) => RoomOf(id[1])' = RoomOf(id[1])
    PROVE  Agrees(id)'
  <1>1. Indexed(id)'
    BY DEF Agrees, Indexed
  <1> QED  BY <1>1 DEF Agrees

(* The streams of live tracks stay live when table and objects stay.       *)
LEMMA LiveKept ==
    ASSUME UNCHANGED <<sessions, objects>>, NEW id
    PROVE  (IsLive(id)' <=> IsLive(id)) /\ RoomOf(id[1])' = RoomOf(id[1])
  BY DEF IsLive, RoomOf

LEMMA RegistryKept ==
    ASSUME UNCHANGED <<streams, roomStreams>>, NEW id
    PROVE  /\ Registered(id)' <=> Registered(id)
           /\ streams'[id] = streams[id]
           /\ \A r : Listed(id, r)' <=> Listed(id, r)
           /\ Indexed(id)' <=> Indexed(id)
  BY DEF Registered, Listed, Indexed

(* The tracks of one session change.                                       *)
LEMMA LiveAfter ==
    ASSUME NodeTypeOK, NEW x, ContainsKey(x), NEW m, UNCHANGED sessions,
           objects' = [objects EXCEPT ![sessions[x]].tracks = m], NEW id
    PROVE  /\ IsLive(id)' <=> IF id[1] = x THEN id[2] \in DOMAIN m ELSE IsLive(id)
           /\ id[1] \in DOMAIN sessions => RoomOf(id[1])' = RoomOf(id[1])
  <1> DEFINE o == sessions[x]
  <1>1. /\ o \in 1 .. Len(objects) /\ objects[o] \in SessionObjects
        /\ objects[o].sid = x /\ x \in DOMAIN sessions
    BY TableEntry DEF ContainsKey
  <1>2. objects \in Seq(SessionObjects) /\ DOMAIN objects = 1 .. Len(objects)
    BY DEF NodeTypeOK, TableTypeOK
  <1>3. /\ objects'[o].tracks = m /\ objects'[o].room = objects[o].room
        /\ \A p \in 1 .. Len(objects) : p # o => objects'[p] = objects[p]
    BY <1>1, <1>2 DEF SessionObjects
  <1>4. \A y \in DOMAIN sessions : /\ sessions[y] \in 1 .. Len(objects)
                                   /\ sessions[y] = o => y = x
    BY <1>1 DEF NodeTypeOK, TableTypeOK
  <1> HIDE DEF o
  <1>5. sessions[x] = o
    BY DEF o
  <1>6. CASE id[1] = x
    BY <1>1, <1>3, <1>5, <1>6 DEF IsLive, RoomOf
  <1>7. CASE id[1] # x
    <2>1. id[1] \in DOMAIN sessions =>
              objects'[sessions[id[1]]] = objects[sessions[id[1]]]
      BY <1>3, <1>4, <1>7
    <2> QED  BY <1>7, <2>1 DEF IsLive, RoomOf
  <1> QED  BY <1>6, <1>7

(* A new session has no tracks, and was in no registry.                    *)
LEMMA LiveInsert ==
    ASSUME NodeTypeOK, NEW k \in Workers, CreateInsert(k), ~ContainsKey(req[k].sid),
           NEW id
    PROVE  /\ IsLive(id)' <=> IsLive(id)
           /\ IsLive(id) => RoomOf(id[1])' = RoomOf(id[1])
  <1> DEFINE x == req[k].sid
  <1>1. /\ DOMAIN sessions' = DOMAIN sessions \cup {x} /\ x \notin DOMAIN sessions
        /\ \A s \in DOMAIN sessions \ {x} : sessions'[s] = sessions[s]
        /\ sessions'[x] = Len(objects) + 1
        /\ objects'[Len(objects) + 1].tracks = EmptyMap
    BY InsertEntry DEF ContainsKey
  <1>2. /\ objects \in Seq(SessionObjects)
        /\ \E v : objects' = Append(objects, v)
    BY DEF NodeTypeOK, TableTypeOK, CreateInsert, InsertSession
  <1>3. \A o \in 1 .. Len(objects) : objects'[o] = objects[o]
    BY <1>2
  <1>4. \A y \in DOMAIN sessions : sessions[y] \in 1 .. Len(objects)
    BY DEF NodeTypeOK, TableTypeOK
  <1> HIDE DEF x
  <1>5. CASE id[1] = x
    BY <1>1, <1>5, Empties DEF IsLive
  <1>6. CASE id[1] # x
    <2>1. id[1] \in DOMAIN sessions' <=> id[1] \in DOMAIN sessions
      BY <1>1, <1>6
    <2>2. id[1] \in DOMAIN sessions =>
              /\ sessions'[id[1]] = sessions[id[1]]
              /\ objects'[sessions[id[1]]] = objects[sessions[id[1]]]
      BY <1>1, <1>3, <1>4, <1>6
    <2> QED  BY <2>1, <2>2 DEF IsLive, RoomOf
  <1> QED  BY <1>5, <1>6

LEMMA LiveRemove ==
    ASSUME NodeTypeOK, NEW k \in Workers, DestroyRemove(k), NEW id
    PROVE  /\ IsLive(id)' <=> IsLive(id) /\ id[1] # req[k].sid
           /\ IsLive(id)' => RoomOf(id[1])' = RoomOf(id[1])
  <1>1. /\ DOMAIN sessions' = DOMAIN sessions \ {req[k].sid} /\ UNCHANGED objects
        /\ \A s \in DOMAIN sessions' : sessions'[s] = sessions[s]
    BY RemoveEntry
  <1> QED  BY <1>1 DEF IsLive, RoomOf

(* The labels at which a request has some of its ids half done.            *)
Half == {"stream", "index", "count", "leave", "look", "drop", "collect",
         "unregister", "unindex"}

(* The steps before and after that.                                        *)
LEMMA AwayStep ==
    ASSUME NodeTypeOK, NEW k \in Workers, NEW id, TrackAt(k, id),
           pc[k] \notin Half, pc'[k] \notin Half,
           UNCHANGED <<streams, roomStreams, counters>>,
           IsLive(id)' <=> IsLive(id),
           IsLive(id) => RoomOf(id[1])' = RoomOf(id[1])
    PROVE  TrackAt(k, id)'
  <1>1. Agrees(id)
    BY DEF TrackAt, Adding, Removing, Half
  <1>2. Agrees(id)'
    BY <1>1, AgreesKept, RegistryKept
  <1> QED  BY <1>2 DEF TrackAt, Adding, Removing, Half

LEMMA HeldAway ==
    ASSUME NEW k \in Workers, pc'[k] \notin Half \cup {"track", "untrack"}
    PROVE  HeldAt(k)'
  BY DEF HeldAt, Half

LEMMA TracksRequest ==
    ASSUME NodeTypeOK, NEW k \in Workers, Request(k),
           \A id \in StreamIds : TrackAt(k, id)
    PROVE  HeldAt(k)' /\ \A id \in StreamIds : TrackAt(k, id)'
  <1>1. /\ Typed(k) /\ pc[k] = "idle"
        /\ pc'[k] \in {"join", "stop", "files", "untrack", "room", "track"}
        /\ UNCHANGED <<sessions, objects>>
    BY RequestBegins DEF tableVars
  <1>2. UNCHANGED <<streams, roomStreams, counters>>
    BY Zenon DEF Request, CreateCheck, DestroySession, StartRecording, RemoveTrack,
       Push, AddTrack, StopRecording, registryVars
  <1>3. \A id \in StreamIds : TrackAt(k, id)'
    BY <1>1, <1>2, AwayStep, LiveKept DEF Half
  <1>4. CASE pc'[k] \notin {"track", "untrack"}
    BY <1>1, <1>3, <1>4, HeldAway DEF Half
  <1>5. ASSUME NEW s \in Sids, NEW t \in Tids, NEW kd \in Kinds,
               AddTrack(k, s, t, kd)
        PROVE  HeldAt(k)'
    <2>1. /\ Typed(k) /\ pc'[k] = "track"
          /\ req'[k] = [NoRequest EXCEPT !.op = "addTrack", !.sid = s,
                            !.tid = t, !.kind = kd, !.obj = sessions[s],
                            !.room = objects[sessions[s]].room]
      BY <1>5, RequestStep, Zenon
    <2>2. /\ req'[k].sid = s /\ req'[k].obj = sessions[s]
          /\ req'[k].room = objects[sessions[s]].room
      BY <2>1 DEF NoRequest
    <2>3. ContainsKey(s)
      BY <1>5 DEF AddTrack
    <2> QED  BY <1>1, <2>1, <2>2, <2>3 DEF HeldAt, ContainsKey, RoomOf
  <1>6. ASSUME NEW s \in Sids, NEW t \in Tids, RemoveTrack(k, s, t)
        PROVE  HeldAt(k)'
    <2>1. /\ Typed(k) /\ pc'[k] = "untrack"
          /\ req'[k] = [NoRequest EXCEPT !.op = "removeTrack", !.sid = s,
                            !.tid = t, !.obj = sessions[s], !.todo = {<<s, t>>}]
      BY <1>6, RequestStep, Zenon
    <2>2. /\ req'[k].sid = s /\ req'[k].obj = sessions[s] /\ req'[k].tid = t
          /\ req'[k].todo = {<<s, t>>}
      BY <2>1 DEF NoRequest
    <2>3. ContainsKey(s)
      BY <1>6 DEF RemoveTrack
    <2> QED  BY <1>1, <2>1, <2>2, <2>3 DEF HeldAt, ContainsKey
  <1>7. CASE pc'[k] \in {"track", "untrack"}
    <2>1. \/ \E s \in Sids, t \in Tids, kd \in Kinds : AddTrack(k, s, t, kd)
          \/ \E s \in Sids, t \in Tids : RemoveTrack(k, s, t)
      BY <1>7, RequestStep, Zenon DEF Request
    <2> QED  BY <1>3, <1>5, <1>6, <2>1
  <1> QED  BY <1>4, <1>7

LEMMA TracksAway ==
    ASSUME NodeTypeOK, CreatorIsFirst, NEW k \in Workers,
           \/ CreateJoin(k) \/ CreateInsert(k)
           \/ StopRemove(k) \/ StopForget(k) \/ StopReturn(k)
           \/ PushRoom(k) \/ PushMembers(k) \/ PushPeer(k) \/ PushSend(k)
           \/ StartRecordingFails(k) \/ StartRecordingTask(k)
           \/ StartRecordingEntry(k),
           \A id \in StreamIds : TrackAt(k, id)
    PROVE  HeldAt(k)' /\ \A id \in StreamIds : TrackAt(k, id)'
  <1>1. UNCHANGED <<streams, roomStreams, counters>>
    BY DEF CreateJoin, CreateInsert, StopRemove, StopForget, StopReturn,
       PushRoom, PushMembers, PushPeer, PushSend, StartRecordingFails,
       StartRecordingTask, StartRecordingEntry, registryVars
  <1>2. pc[k] \in {"join", "insert", "stop", "forget", "room", "members", "peers",
                   "files", "recorded"}
    BY Zenon DEF CreateJoin, CreateInsert, StopRemove, StopForget, StopReturn,
       PushRoom, PushMembers, PushPeer, PushSend, StartRecordingFails,
       StartRecordingTask, StartRecordingEntry, Return, Goto
  <1>3. pc'[k] \in {"insert", "idle", "stop", "forget", "members", "peers",
                    "recorded"}
    BY ReturnStep, GotoStep, UpdateStep, Zenon
  <1>4. ASSUME NEW id
        PROVE  /\ IsLive(id)' <=> IsLive(id)
               /\ IsLive(id) => RoomOf(id[1])' = RoomOf(id[1])
    <2>1. CASE CreateInsert(k)
      <3>1. ~ContainsKey(req[k].sid)
        BY <2>1, InsertEntry DEF CreatorIsFirst
      <3> QED  BY <2>1, <3>1, LiveInsert
    <2>2. CASE ~CreateInsert(k)
      <3>1. UNCHANGED <<sessions, objects>>
        BY <2>2 DEF CreateJoin, StopRemove, StopForget, StopReturn,
           PushRoom, PushMembers, PushPeer, PushSend, StartRecordingFails,
           StartRecordingTask, StartRecordingEntry, tableVars
      <3> QED  BY <3>1, LiveKept
    <2> QED  BY <2>1, <2>2
  <1>5. pc[k] \notin Half /\ pc'[k] \notin Half \cup {"track", "untrack"}
    BY <1>2, <1>3 DEF Half
  <1>6. \A id \in StreamIds : TrackAt(k, id)'
    BY <1>1, <1>4, <1>5, AwayStep
  <1> QED  BY <1>5, <1>6, HeldAway

LEMMA TracksDestroy ==
    ASSUME NodeTypeOK, NEW k \in Workers,
           \/ DestroyRemove(k) \/ DestroyLeave(k) \/ DestroyLook(k)
           \/ DestroyDropRoom(k) \/ DestroyCollect(k),
           \A id \in StreamIds : TrackAt(k, id)
    PROVE  HeldAt(k)' /\ \A id \in StreamIds : TrackAt(k, id)'
  <1>1. UNCHANGED <<streams, roomStreams, counters>>
    BY DEF DestroyRemove, DestroyLeave, DestroyLook, DestroyDropRoom,
       DestroyCollect, registryVars
  <1>2. req[k] \in Requests /\ OpAt(k)
    BY DEF NodeTypeOK, WorkTypeOK
  <1>3. CASE DestroyRemove(k)
    <2> DEFINE x == req[k].sid
    <2>1. /\ pc[k] = "stop" /\ req[k].op = "destroy"
          /\ ContainsKey(x) => pc'[k] = "leave" /\ req'[k].sid = x
          /\ ~ContainsKey(x) => pc'[k] = "idle"
      BY <1>3, RemoveEntry
    <2>2. ContainsKey(x) => req'[k].op = "destroy"
      BY <1>3, <2>1, ServeKeeps DEF Serve
    <2>3. HeldAt(k)'
      BY <2>1 DEF HeldAt
    <2>4. ASSUME NEW id \in StreamIds
          PROVE  TrackAt(k, id)'
      <3>1. /\ IsLive(id)' <=> IsLive(id) /\ id[1] # x
            /\ IsLive(id)' => RoomOf(id[1])' = RoomOf(id[1])
        BY <1>3, LiveRemove
      <3>2. Agrees(id)
        BY <2>1 DEF TrackAt, Adding, Removing
      <3>3. CASE id[1] = x /\ ContainsKey(x)
        <4>1. Indexed(id)'
          BY <1>1, <3>2, RegistryKept DEF Agrees
        <4>2. ~IsLive(id)'
          BY <3>1, <3>3
        <4>3. HalfRemoved(k, id)'
          BY <2>1, <3>3, <4>1, <4>2 DEF HalfRemoved
        <4>4. Removing(k, id)' /\ ~Adding(k, id)'
          BY <2>1, <2>2, <3>3 DEF Removing, Adding
        <4> QED  BY <4>3, <4>4 DEF TrackAt
      <3>4. CASE ~(id[1] = x /\ ContainsKey(x))
        <4>1. IsLive(id) => id[1] # x
          BY <3>4 DEF IsLive, ContainsKey
        <4>2. Agrees(id)'
          BY <1>1, <3>1, <3>2, <4>1, AgreesKept, RegistryKept
        <4>3. ~Adding(k, id)' /\ ~Removing(k, id)'
          BY <2>1, <2>2, <3>4 DEF Removing, Adding
        <4> QED  BY <4>2, <4>3 DEF TrackAt
      <3> QED  BY <3>3, <3>4
    <2> QED  BY <2>3, <2>4
  <1>4. CASE DestroyLeave(k) \/ DestroyLook(k) \/ DestroyDropRoom(k)
    <2>1. /\ req'[k] = req[k] /\ pc[k] \in {"leave", "look", "drop"}
          /\ pc'[k] \in {"look", "drop", "collect"}
          /\ UNCHANGED <<sessions, objects>>
      BY <1>4, GotoStep DEF DestroyLeave, DestroyLook, DestroyDropRoom, Goto,
         tableVars
    <2>2. HeldAt(k)'
      BY <2>1 DEF HeldAt
    <2>3. ASSUME NEW id \in StreamIds
          PROVE  TrackAt(k, id)'
      <3>1. (Removing(k, id)' <=> Removing(k, id)) /\ ~Adding(k, id) /\ ~Adding(k, id)'
        BY <2>1 DEF Removing, Adding
      <3>2. /\ IsLive(id)' <=> IsLive(id)
            /\ RoomOf(id[1])' = RoomOf(id[1])
        BY <2>1, LiveKept
      <3>3. Indexed(id)' <=> Indexed(id)
        BY <1>1, RegistryKept
      <3>4. HalfRemoved(k, id) => HalfRemoved(k, id)'
        BY <2>1, <3>2, <3>3 DEF HalfRemoved
      <3>5. Agrees(id) => Agrees(id)'
        BY <1>1, <3>2, AgreesKept, RegistryKept
      <3>6. TrackAt(k, id)
        OBVIOUS
      <3> QED  BY <3>1, <3>4, <3>5, <3>6 DEF TrackAt
    <2> QED  BY <2>2, <2>3
  <1>5. CASE DestroyCollect(k)
    <2>1. /\ pc[k] = "collect" /\ UNCHANGED <<sessions, objects>>
          /\ pc'[k] = "unregister"
          /\ req'[k] = [req[k] EXCEPT !.todo = StreamsOf(req[k].sid)]
      BY <1>5, UpdateStep, Zenon DEF DestroyCollect, Goto, tableVars
    <2>2. /\ req'[k].todo = StreamsOf(req[k].sid) /\ req'[k].op = req[k].op
          /\ req'[k].sid = req[k].sid
      BY <1>2, <2>1 DEF Requests
    <2>3. req[k].op = "destroy"
      BY <1>2, <2>1 DEF OpAt, DestroyLabels
    <2>4. HeldAt(k)'
      <3>1. \A id \in req'[k].todo : Removing(k, id)'
        BY <2>1, <2>2, <2>3 DEF Removing, StreamsOf
      <3> QED  BY <2>1, <3>1 DEF HeldAt
    <2>5. ASSUME NEW id \in StreamIds
          PROVE  TrackAt(k, id)'
      <3>1. (Removing(k, id)' <=> Removing(k, id)) /\ ~Adding(k, id) /\ ~Adding(k, id)'
        BY <2>1, <2>2, <2>3 DEF Removing, Adding
      <3>2. /\ IsLive(id)' <=> IsLive(id)
            /\ RoomOf(id[1])' = RoomOf(id[1])
        BY <2>1, LiveKept
      <3>3. (Indexed(id)' <=> Indexed(id)) /\ (Registered(id)' <=> Registered(id))
        BY <1>1, RegistryKept
      <3>4. Removing(k, id) /\ Registered(id) => id \in StreamsOf(req[k].sid)
        BY <2>3 DEF Removing, Registered, StreamsOf
      <3>5. Removing(k, id) /\ HalfRemoved(k, id) => HalfRemoved(k, id)'
        BY <2>1, <2>2, <3>2, <3>3, <3>4 DEF HalfRemoved
      <3>6. Agrees(id) => Agrees(id)'
        BY <1>1, <3>2, AgreesKept, RegistryKept
      <3>7. TrackAt(k, id)
        OBVIOUS
      <3> QED  BY <3>1, <3>5, <3>6, <3>7 DEF TrackAt
    <2> QED  BY <2>4, <2>5
  <1> QED  BY <1>3, <1>4, <1>5

LEMMA TracksUnregister ==
    ASSUME NodeTypeOK, NEW k \in Workers, Unregister(k), HeldAt(k),
           \A id \in StreamIds : TrackAt(k, id)
    PROVE  HeldAt(k)' /\ \A id \in StreamIds : TrackAt(k, id)'
  <1>1. /\ req[k] \in Requests /\ OpAt(k) /\ pc[k] = "unregister"
        /\ UNCHANGED <<sessions, objects, roomStreams, counters>>
    BY DEF NodeTypeOK, WorkTypeOK, Unregister, tableVars
  <1>2. PICK x \in req[k].todo :
             /\ Typed(k) /\ x \in StreamIds /\ RemoveStream(x)
             /\ IF x \in DOMAIN streams
                THEN /\ pc'[k] = "unindex"
                     /\ req'[k] = [req[k] EXCEPT !.room = streams[x],
                                       !.ids = <<x>>, !.todo = @ \ {x}]
                ELSE /\ pc'[k] = "unregister"
                     /\ req'[k] = [req[k] EXCEPT !.todo = @ \ {x}]
    BY UpdateStep, Zenon
  <1>3. /\ req'[k].op = req[k].op /\ req'[k].sid = req[k].sid
        /\ req'[k].tid = req[k].tid /\ req'[k].todo = req[k].todo \ {x}
    BY <1>1, <1>2 DEF Requests
  <1>4. /\ Registered(x) => /\ pc'[k] = "unindex" /\ req'[k].ids[1] = x
                            /\ req'[k].room = streams[x]
        /\ ~Registered(x) => pc'[k] = "unregister"
    <2>1. CASE Registered(x)
      <3>1. req'[k].ids = <<x>> /\ req'[k].room = streams[x]
        BY <1>1, <1>2, <2>1 DEF Requests, Registered
      <3> QED  BY <1>2, <2>1, <3>1 DEF Registered
    <2>2. CASE ~Registered(x)
      BY <1>2, <2>2 DEF Registered
    <2> QED  BY <2>1, <2>2
  <1>5. /\ ~Registered(x)'
        /\ \A id : id # x => /\ Registered(id)' <=> Registered(id)
                             /\ Registered(id) => streams'[id] = streams[id]
    BY <1>2 DEF RemoveStream, Delete, Restrict, Registered
  <1>6. req[k].op \in {"destroy", "removeTrack"}
    BY <1>1 DEF OpAt, NoRequest
  <1>7. \A id : ~Adding(k, id) /\ ~Adding(k, id)'
                /\ (Removing(k, id)' <=> Removing(k, id))
    BY <1>1, <1>3, <1>4, <1>6 DEF Adding, Removing
  <1>8. \A id \in req[k].todo : Removing(k, id)
    BY <1>1 DEF HeldAt
  <1>9. pc'[k] \in {"unregister", "unindex"}
    BY <1>4
  <1>10. HeldAt(k)'
    <2>1. \A id \in req'[k].todo : Removing(k, id)'
      BY <1>3, <1>7, <1>8
    <2>2. pc'[k] = "unindex" => Removing(k, req[k].ids[1])'
      <3>1. Removing(k, x)'
        BY <1>7, <1>8
      <3>2. pc'[k] = "unindex" => req'[k].ids[1] = x
        BY <1>4
      <3> QED  BY <3>1, <3>2 DEF Removing
    <2> QED  BY <1>9, <2>1, <2>2 DEF HeldAt
  <1>11. ASSUME NEW id \in StreamIds
         PROVE  TrackAt(k, id)'
    <2>1. /\ IsLive(id)' <=> IsLive(id)
          /\ RoomOf(id[1])' = RoomOf(id[1])
      BY <1>1, LiveKept
    <2>2. \A r : Listed(id, r)' <=> Listed(id, r)
      BY <1>1 DEF Listed
    <2>3. TrackAt(k, id)
      OBVIOUS
    <2>4. CASE id = x
      <3>1. Removing(k, id) /\ HalfRemoved(k, id)
        BY <1>2, <1>8, <2>3, <2>4 DEF TrackAt
      <3>2. Indexed(id) /\ ~IsLive(id)
        BY <1>1, <3>1 DEF HalfRemoved
      <3>3. CASE Registered(x)
        <4>1. \A r : Listed(id, r)' => r = req'[k].room
          BY <1>4, <2>2, <2>4, <3>2, <3>3 DEF Indexed
        <4>2. HalfRemoved(k, id)'
          BY <1>4, <1>5, <2>1, <2>4, <3>2, <3>3, <4>1 DEF HalfRemoved
        <4> QED  BY <1>7, <3>1, <4>2 DEF TrackAt
      <3>4. CASE ~Registered(x)
        <4>1. Indexed(id)'
          BY <1>5, <2>2, <2>4, <3>2, <3>4 DEF Indexed
        <4>2. HalfRemoved(k, id)'
          BY <1>4, <1>5, <2>1, <2>4, <3>2, <3>4, <4>1 DEF HalfRemoved
        <4> QED  BY <1>7, <3>1, <4>2 DEF TrackAt
      <3> QED  BY <3>3, <3>4
    <2>5. CASE id # x
      <3>1. Indexed(id)' <=> Indexed(id)
        BY <1>5, <2>2, <2>5 DEF Indexed
      <3>2. CASE Removing(k, id)
        <4>1. HalfRemoved(k, id)
          BY <2>3, <3>2 DEF TrackAt
        <4>2. HalfRemoved(k, id)'
          BY <1>1, <1>3, <1>4, <1>5, <2>1, <2>5, <3>1, <4>1 DEF HalfRemoved
        <4> QED  BY <1>7, <3>2, <4>2 DEF TrackAt
      <3>3. CASE ~Removing(k, id)
        <4>1. Agrees(id)
          BY <1>7, <2>3, <3>3 DEF TrackAt
        <4>2. Agrees(id)'
          BY <1>1, <1>5, <2>1, <2>2, <2>5, <4>1, AgreesKept
        <4> QED  BY <1>7, <3>3, <4>2 DEF TrackAt
      <3> QED  BY <3>2, <3>3
    <2> QED  BY <2>4, <2>5
  <1> QED  BY <1>10, <1>11

LEMMA TracksUnindex ==
    ASSUME NodeTypeOK, NEW k \in Workers, Unindex(k), HeldAt(k),
           \A id \in StreamIds : TrackAt(k, id)
    PROVE  HeldAt(k)' /\ \A id \in StreamIds : TrackAt(k, id)'
  <1> DEFINE x == req[k].ids[1]
             q == req[k].room
             new == Retain(roomStreams[q], x)
  <1>1. /\ req[k] \in Requests /\ OpAt(k) /\ pc[k] = "unindex"
        /\ UNCHANGED <<sessions, objects, streams, counters>>
        /\ req'[k] = req[k] /\ pc'[k] = "unregister"
        /\ roomStreams' = IF q \in DOMAIN roomStreams
                          THEN Put(roomStreams, q, new) ELSE roomStreams
    BY GotoStep DEF NodeTypeOK, WorkTypeOK, Unindex, UnindexStream, Goto,
       tableVars
  <1>2. q \in DOMAIN roomStreams => ToSet(new) = ToSet(roomStreams[q]) \ {x}
    BY RetainOthers DEF NodeTypeOK, RegistryTypeOK
  <1>3. Removing(k, x) /\ \A id \in req[k].todo : Removing(k, id)
    BY <1>1 DEF HeldAt
  <1>4. req[k].ids[1] = x /\ req[k].room = q
    OBVIOUS
  <1> HIDE DEF x, q, new
  <1>5. \A id, r : Listed(id, r)' <=> Listed(id, r) /\ ~(id = x /\ r = q)
    BY <1>1, <1>2 DEF Listed, Put
  <1>6. req[k].op \in {"destroy", "removeTrack"}
    BY <1>1 DEF OpAt, NoRequest
  <1>7. \A id : ~Adding(k, id) /\ ~Adding(k, id)'
                /\ (Removing(k, id)' <=> Removing(k, id))
    BY <1>1, <1>6 DEF Adding, Removing
  <1>8. HeldAt(k)'
    BY <1>1, <1>3, <1>7 DEF HeldAt
  <1>9. ASSUME NEW id \in StreamIds
        PROVE  TrackAt(k, id)'
    <2>1. /\ IsLive(id)' <=> IsLive(id)
          /\ RoomOf(id[1])' = RoomOf(id[1])
      BY <1>1, LiveKept
    <2>2. Registered(id)' <=> Registered(id)
      BY <1>1 DEF Registered
    <2>3. TrackAt(k, id)
      OBVIOUS
    <2>4. CASE Removing(k, id)
      <3>1. HalfRemoved(k, id)
        BY <2>3, <2>4 DEF TrackAt
      <3>2. CASE id = x
        <4>1. ~Registered(id) /\ \A r : Listed(id, r) => r = q
          BY <1>1, <1>4, <3>1, <3>2 DEF HalfRemoved
        <4>2. Indexed(id)'
          BY <1>5, <2>2, <3>2, <4>1 DEF Indexed
        <4> QED  BY <1>1, <1>7, <2>1, <2>2, <2>4, <3>1, <4>1, <4>2
               DEF TrackAt, HalfRemoved
      <3>3. CASE id # x
        <4>1. Indexed(id)
          BY <1>4, <3>1, <3>3 DEF HalfRemoved
        <4>2. Indexed(id)'
          BY <1>1, <1>5, <2>2, <3>3, <4>1 DEF Indexed
        <4> QED  BY <1>1, <1>7, <2>1, <2>2, <2>4, <3>1, <4>2
               DEF TrackAt, HalfRemoved
      <3> QED  BY <3>2, <3>3
    <2>5. CASE ~Removing(k, id)
      <3>1. Agrees(id) /\ id # x
        BY <1>3, <1>7, <2>3, <2>5 DEF TrackAt
      <3>2. Agrees(id)'
        BY <1>1, <1>5, <2>1, <2>2, <3>1, AgreesKept
      <3> QED  BY <1>7, <2>5, <3>2 DEF TrackAt
    <2> QED  BY <2>4, <2>5
  <1> QED  BY <1>8, <1>9

LEMMA TracksUncount ==
    ASSUME NodeTypeOK, NEW k \in Workers, Uncount(k),
           \A id \in StreamIds : TrackAt(k, id)
    PROVE  HeldAt(k)' /\ \A id \in StreamIds : TrackAt(k, id)'
  <1>1. /\ OpAt(k) /\ pc[k] = "unregister" /\ req[k].todo = {}
        /\ UNCHANGED <<sessions, objects, streams, roomStreams>>
        /\ pc'[k] = "idle"
    BY ReturnStep DEF NodeTypeOK, WorkTypeOK, Uncount, Return, Goto, tableVars
  <1>2. req[k].op \in {"destroy", "removeTrack"}
    BY <1>1 DEF OpAt, NoRequest
  <1>3. \A id : id \in counters' <=> id \in counters /\ ~Removing(k, id)
    <2>1. CASE req[k].op = "destroy"
      <3>1. counters' = {id \in counters : id[1] # req[k].sid}
        BY <2>1 DEF Uncount
      <3> QED  BY <1>1, <2>1, <3>1 DEF Removing
    <2>2. CASE req[k].op = "removeTrack"
      <3>1. counters' = {id \in counters : id # <<req[k].sid, req[k].tid>>}
        BY <2>2 DEF Uncount
      <3> QED  BY <1>1, <2>2, <3>1 DEF Removing
    <2> QED  BY <1>2, <2>1, <2>2
  <1>4. ASSUME NEW id \in StreamIds
        PROVE  TrackAt(k, id)'
    <2>1. /\ IsLive(id)' <=> IsLive(id)
          /\ RoomOf(id[1])' = RoomOf(id[1])
      BY <1>1, LiveKept
    <2>2. /\ Registered(id)' <=> Registered(id)
          /\ streams'[id] = streams[id]
          /\ \A r : Listed(id, r)' <=> Listed(id, r)
          /\ Indexed(id)' <=> Indexed(id)
      BY <1>1, RegistryKept
    <2>3. TrackAt(k, id) /\ ~Adding(k, id)
      BY <1>1 DEF Adding
    <2>4. Agrees(id)'
      <3>1. CASE Removing(k, id)
        <4>1. ~IsLive(id) /\ ~Registered(id) /\ Indexed(id)
          BY <1>1, <2>3, <3>1 DEF TrackAt, HalfRemoved
        <4> QED  BY <1>3, <2>1, <2>2, <3>1, <4>1 DEF Agrees
      <3>2. CASE ~Removing(k, id)
        <4>1. Agrees(id)
          BY <2>3, <3>2 DEF TrackAt
        <4> QED  BY <1>3, <2>1, <2>2, <3>2, <4>1, AgreesKept
      <3> QED  BY <3>1, <3>2
    <2> QED  BY <1>1, <2>4 DEF TrackAt, Adding, Removing
  <1>5. HeldAt(k)'
    BY <1>1, HeldAway DEF Half
  <1> QED  BY <1>4, <1>5

LEMMA TracksAddInsert ==
    ASSUME NodeTypeOK, NEW k \in Workers, AddTrackInsert(k), HeldAt(k),
           \A id \in StreamIds : TrackAt(k, id)
    PROVE  HeldAt(k)' /\ \A id \in StreamIds : TrackAt(k, id)'
  <1> DEFINE x == req[k].sid
             t == req[k].tid
             old == objects[sessions[x]].tracks
             m == Put(old, t, req[k].kind)
  <1>1. /\ OpAt(k) /\ pc[k] = "track" /\ pc'[k] = "stream" /\ req'[k] = req[k]
        /\ UNCHANGED <<sessions, streams, roomStreams, counters>>
    BY GotoStep DEF NodeTypeOK, WorkTypeOK, AddTrackInsert, Goto, registryVars
  <1>2. /\ ContainsKey(x) /\ req[k].obj = sessions[x] /\ req[k].room = RoomOf(x)
    BY <1>1 DEF HeldAt
  <1>3. objects' = [objects EXCEPT ![sessions[x]].tracks = m]
    <2>1. objects \in Seq(SessionObjects) /\ sessions[x] \in DOMAIN objects
      BY <1>2, TableEntry DEF NodeTypeOK, TableTypeOK
    <2>2. objects' = [objects EXCEPT ![sessions[x]].tracks =
                                         Put(@, t, req[k].kind)]
      BY <1>2 DEF AddTrackInsert, InsertTrack
    <2> QED  BY <2>1, <2>2
  <1>4. DOMAIN m = DOMAIN old \cup {t}
    BY DEF Put
  <1>5. req[k].op = "addTrack"
    BY <1>1 DEF OpAt, NoRequest, DestroyLabels
  <1>6. \A id : /\ IsLive(id)' <=> IF id[1] = x THEN id[2] \in DOMAIN m
                                               ELSE IsLive(id)
                /\ id[1] \in DOMAIN sessions => RoomOf(id[1])' = RoomOf(id[1])
    <2> HIDE DEF x, m
    <2> QED  BY <1>1, <1>2, <1>3, LiveAfter
  <1>7. RoomOf(req[k].sid)' = RoomOf(req[k].sid)
    <2>1. PICK id : id = <<x, t>>
      OBVIOUS
    <2>2. RoomOf(id[1])' = RoomOf(id[1]) /\ id[1] = req[k].sid
      BY <1>2, <1>6, <2>1 DEF ContainsKey
    <2> QED  BY <1>1, <2>2 DEF RoomOf
  <1>8. HeldAt(k)'
    BY <1>1, <1>2, <1>7 DEF HeldAt, ContainsKey, RoomOf
  <1>9. ASSUME NEW id \in StreamIds
        PROVE  TrackAt(k, id)'
    <2>1. Agrees(id) /\ ~Removing(k, id)'
      BY <1>1, <1>5 DEF TrackAt, Adding, Removing
    <2>2. /\ Registered(id)' <=> Registered(id)
          /\ streams'[id] = streams[id]
          /\ \A r : Listed(id, r)' <=> Listed(id, r)
          /\ Indexed(id)' <=> Indexed(id)
      BY <1>1, RegistryKept
    <2>3. IsLive(id) => id[1] \in DOMAIN sessions
      BY DEF IsLive
    <2>4. CASE id = <<x, t>>
      <3>1. IsLive(id)' /\ Adding(k, id)'
        BY <1>1, <1>4, <1>5, <1>6, <2>4 DEF Adding
      <3>2. HalfAdded(k, id)'
        BY <1>1, <1>6, <2>1, <2>2, <2>3, <3>1 DEF HalfAdded, Agrees
      <3> QED  BY <2>1, <3>1, <3>2 DEF TrackAt
    <2>5. CASE id # <<x, t>>
      <3>1. id[1] = x => id[2] # t
        BY <2>5 DEF StreamIds
      <3>2. IsLive(id)' <=> IsLive(id)
        BY <1>2, <1>4, <1>6, <3>1 DEF IsLive, ContainsKey
      <3>3. Agrees(id)'
        BY <1>1, <1>6, <2>1, <2>2, <2>3, <3>2, AgreesKept
      <3>4. ~Adding(k, id)'
        BY <1>1, <2>5 DEF Adding
      <3> QED  BY <2>1, <3>3, <3>4 DEF TrackAt
    <2> QED  BY <2>4, <2>5
  <1> QED  BY <1>8, <1>9

LEMMA TracksRemoveEntry ==
    ASSUME NodeTypeOK, NEW k \in Workers, RemoveTrackEntry(k), HeldAt(k),
           \A id \in StreamIds : TrackAt(k, id)
    PROVE  HeldAt(k)' /\ \A id \in StreamIds : TrackAt(k, id)'
  <1> DEFINE x == req[k].sid
             t == req[k].tid
             old == objects[sessions[x]].tracks
             m == Delete(old, t)
  <1>1. /\ OpAt(k) /\ pc[k] = "untrack" /\ pc'[k] = "unregister"
        /\ req'[k] = req[k]
        /\ UNCHANGED <<sessions, streams, roomStreams, counters>>
    BY GotoStep DEF NodeTypeOK, WorkTypeOK, RemoveTrackEntry, Goto, registryVars
  <1>2. /\ ContainsKey(x) /\ req[k].obj = sessions[x]
        /\ req[k].todo = {<<x, t>>}
    BY <1>1 DEF HeldAt
  <1>3. objects' = [objects EXCEPT ![sessions[x]].tracks = m]
    <2>1. objects \in Seq(SessionObjects) /\ sessions[x] \in DOMAIN objects
      BY <1>2, TableEntry DEF NodeTypeOK, TableTypeOK
    <2>2. objects' = [objects EXCEPT ![sessions[x]].tracks = Delete(@, t)]
      BY <1>2 DEF RemoveTrackEntry, RemoveTrackOf
    <2> QED  BY <2>1, <2>2
  <1>4. DOMAIN m = DOMAIN old \ {t}
    BY DEF Delete, Restrict
  <1>5. req[k].op = "removeTrack"
    BY <1>1 DEF OpAt, NoRequest, DestroyLabels
  <1>6. \A id : /\ IsLive(id)' <=> IF id[1] = x THEN id[2] \in DOMAIN m
                                               ELSE IsLive(id)
                /\ id[1] \in DOMAIN sessions => RoomOf(id[1])' = RoomOf(id[1])
    <2> HIDE DEF x, m
    <2> QED  BY <1>1, <1>2, <1>3, LiveAfter
  <1>7. \A id : (Removing(k, id)' <=> id = <<x, t>>) /\ ~Adding(k, id)'
    BY <1>1, <1>5 DEF Removing, Adding
  <1>8. HeldAt(k)'
    BY <1>1, <1>2, <1>7 DEF HeldAt
  <1>9. ASSUME NEW id \in StreamIds
        PROVE  TrackAt(k, id)'
    <2>1. Agrees(id)
      BY <1>1, <1>5 DEF TrackAt, Adding, Removing
    <2>2. /\ Registered(id)' <=> Registered(id)
          /\ streams'[id] = streams[id]
          /\ \A r : Listed(id, r)' <=> Listed(id, r)
          /\ Indexed(id)' <=> Indexed(id)
      BY <1>1, RegistryKept
    <2>3. CASE id = <<x, t>>
      <3>1. ~IsLive(id)' /\ id \in req'[k].todo
        <4>1. id[1] = x /\ id[2] \notin DOMAIN m
          BY <1>4, <2>3
        <4>2. ~IsLive(id)'
          BY <1>6, <4>1
        <4> QED  BY <1>1, <1>2, <2>3, <4>2
      <3>2. HalfRemoved(k, id)'
        BY <1>1, <2>1, <2>2, <3>1 DEF HalfRemoved, Agrees
      <3> QED  BY <1>7, <2>3, <3>2 DEF TrackAt
    <2>4. CASE id # <<x, t>>
      <3>1. id[1] = x => id[2] # t
        BY <2>4 DEF StreamIds
      <3>2. IsLive(id)' <=> IsLive(id)
        BY <1>2, <1>4, <1>6, <3>1 DEF IsLive, ContainsKey
      <3>3. IsLive(id) => RoomOf(id[1])' = RoomOf(id[1])
        BY <1>6 DEF IsLive
      <3>4. Agrees(id)'
        BY <1>1, <2>1, <2>2, <3>2, <3>3, AgreesKept
      <3> QED  BY <1>7, <2>4, <3>4 DEF TrackAt
    <2> QED  BY <2>3, <2>4
  <1> QED  BY <1>8, <1>9

LEMMA TracksAddStream ==
    ASSUME NodeTypeOK, NEW k \in Workers, HeldAt(k),
           AddTrackStream(k) \/ AddTrackIndex(k) \/ AddTrackCount(k),
           \A id \in StreamIds : TrackAt(k, id)
    PROVE  HeldAt(k)' /\ \A id \in StreamIds : TrackAt(k, id)'
  <1>0. PICK x, q : x = <<req[k].sid, req[k].tid>> /\ q = req[k].room
    OBVIOUS
  <1>1. /\ OpAt(k) /\ req[k] \in Requests /\ pc[k] \in {"stream", "index", "count"}
        /\ UNCHANGED <<sessions, objects>>
    BY DEF NodeTypeOK, WorkTypeOK, AddTrackStream, AddTrackIndex, AddTrackCount,
       Return, Goto, tableVars
  <1>2. /\ ContainsKey(req[k].sid) /\ req[k].obj = sessions[req[k].sid]
        /\ q = RoomOf(req[k].sid)
    BY <1>0, <1>1 DEF HeldAt
  <1>3. req[k].op = "addTrack" /\ x \in StreamIds /\ x[1] = req[k].sid
    BY <1>0, <1>1 DEF OpAt, NoRequest, DestroyLabels, Requests, StreamIds
  <1>4. \A id : (Adding(k, id) <=> id = x) /\ ~Removing(k, id)
    BY <1>0, <1>1, <1>3 DEF Adding, Removing
  <1>5. HalfAdded(k, x) /\ \A id \in StreamIds : id # x => Agrees(id)
    BY <1>3, <1>4 DEF TrackAt
  <1>6. \A id : (IsLive(id)' <=> IsLive(id)) /\ RoomOf(id[1])' = RoomOf(id[1])
    BY <1>1, LiveKept
  <1>7. IsLive(x)' /\ RoomOf(x[1])' = q /\ RoomOf(x[1]) = q
    BY <1>2, <1>3, <1>5, <1>6 DEF HalfAdded
  <1>8. CASE AddTrackCount(k)
    <2>1. /\ pc[k] = "count" /\ pc'[k] = "idle" /\ UNCHANGED <<streams, roomStreams>>
          /\ counters' = counters \cup {x}
      BY <1>0, <1>8, ReturnStep DEF AddTrackCount, Return, Goto
    <2>2. HeldAt(k)'
      BY <2>1, HeldAway DEF Half
    <2>3. ASSUME NEW id \in StreamIds
          PROVE  TrackAt(k, id)'
      <3>1. /\ Registered(id)' <=> Registered(id)
            /\ streams'[id] = streams[id]
            /\ \A r : Listed(id, r)' <=> Listed(id, r)
            /\ Indexed(id)' <=> Indexed(id)
        BY <2>1, RegistryKept
      <3>2. CASE id = x
        <4>1. Registered(id) /\ streams[id] = q /\ Indexed(id)
          BY <1>5, <1>7, <2>1, <3>2 DEF HalfAdded
        <4>2. Agrees(id)'
          BY <1>7, <2>1, <3>1, <3>2, <4>1 DEF Agrees
        <4> QED  BY <2>1, <4>2 DEF TrackAt, Adding, Removing
      <3>3. CASE id # x
        <4>1. Agrees(id)'
          BY <1>5, <1>6, <2>1, <3>1, <3>3, AgreesKept
        <4> QED  BY <2>1, <4>1 DEF TrackAt, Adding, Removing
      <3> QED  BY <3>2, <3>3
    <2> QED  BY <2>2, <2>3
  <1>9. ASSUME AddTrackStream(k) \/ AddTrackIndex(k)
        PROVE  /\ pc'[k] \in {"index", "count"} /\ req'[k] = req[k]
               /\ HeldAt(k)' /\ UNCHANGED counters
               /\ \A id : (Adding(k, id)' <=> id = x) /\ ~Removing(k, id)'
    <2>1. pc'[k] \in {"index", "count"} /\ req'[k] = req[k] /\ UNCHANGED counters
      BY <1>9, GotoStep DEF AddTrackStream, AddTrackIndex
    <2>2. HeldAt(k)'
      BY <1>0, <1>1, <1>2, <2>1 DEF HeldAt, ContainsKey, RoomOf
    <2>3. \A id : (Adding(k, id)' <=> id = x) /\ ~Removing(k, id)'
      BY <1>0, <1>3, <2>1 DEF Adding, Removing
    <2> QED  BY <2>1, <2>2, <2>3
  <1>10. CASE AddTrackStream(k)
    <2>1. /\ pc[k] = "stream" /\ pc'[k] = "index" /\ UNCHANGED roomStreams
          /\ streams' = Put(streams, x, q)
      BY <1>0, <1>10, GotoStep DEF AddTrackStream, InsertStream, Goto
    <2>2. /\ Registered(x)' /\ streams'[x] = q
          /\ \A id : id # x => /\ Registered(id)' <=> Registered(id)
                               /\ Registered(id) => streams'[id] = streams[id]
      BY <2>1 DEF Put, Registered
    <2>3. \A id, r : Listed(id, r)' <=> Listed(id, r)
      BY <2>1 DEF Listed
    <2>4. \A r : Listed(x, r) => r = q
      BY <1>5, <1>7, <2>1 DEF HalfAdded, Indexed
    <2>5. HalfAdded(k, x)'
      BY <1>7, <2>1, <2>2, <2>3, <2>4 DEF HalfAdded
    <2>6. \A id \in StreamIds : id # x => Agrees(id)'
      BY <1>5, <1>6, <1>9, <1>10, <2>2, <2>3, AgreesKept
    <2> QED  BY <1>9, <1>10, <2>5, <2>6 DEF TrackAt
  <1>11. CASE AddTrackIndex(k)
    <2> DEFINE old == IF q \in DOMAIN roomStreams THEN roomStreams[q] ELSE << >>
               new == Append(old, x)
    <2>1. /\ pc[k] = "index" /\ pc'[k] = "count" /\ UNCHANGED streams
          /\ roomStreams' = Put(roomStreams, q, new)
      BY <1>0, <1>11, GotoStep DEF AddTrackIndex, IndexStream, Goto
    <2>2. old \in Seq(StreamIds) /\ x \in StreamIds
      BY <1>3 DEF NodeTypeOK, RegistryTypeOK
    <2>3. q \notin DOMAIN roomStreams => ToSet(old) = {}
      BY ToSetEmpty
    <2>4. q \in DOMAIN roomStreams => old = roomStreams[q]
      OBVIOUS
    <2> HIDE DEF old
    <2>5. ToSet(new) = ToSet(old) \cup {x}
      BY <2>2, ToSetAppend
    <2> HIDE DEF new
    <2>6. \A id, r : Listed(id, r)' <=> Listed(id, r) \/ (id = x /\ r = q)
      BY <2>1, <2>3, <2>4, <2>5 DEF Listed, Put
    <2>7. \A id : (Registered(id)' <=> Registered(id)) /\ streams'[id] = streams[id]
      BY <2>1 DEF Registered
    <2>8. /\ Registered(x) /\ streams[x] = q
          /\ \A r : Listed(x, r) => r = q
      BY <1>5, <1>7, <2>1 DEF HalfAdded
    <2>9. Indexed(x)'
      BY <2>6, <2>7, <2>8 DEF Indexed
    <2>10. HalfAdded(k, x)'
      BY <1>7, <2>1, <2>7, <2>8, <2>9 DEF HalfAdded
    <2>11. \A id \in StreamIds : id # x => Agrees(id)'
      BY <1>5, <1>6, <1>9, <1>11, <2>6, <2>7, AgreesKept
    <2> QED  BY <1>9, <1>11, <2>10, <2>11 DEF TrackAt
  <1> QED  BY <1>8, <1>10, <1>11

LEMMA CountersStep ==
    ASSUME NodeTypeOK, NEW k \in Workers, Request(k) \/ Serve(k),
           counters \subseteq StreamIds
    PROVE  counters' \subseteq StreamIds
  <1>1. <<req[k].sid, req[k].tid>> \in StreamIds
    BY DEF NodeTypeOK, WorkTypeOK, Requests, StreamIds
  <1>2. CASE AddTrackCount(k)
    BY <1>1, <1>2 DEF AddTrackCount
  <1>3. CASE Uncount(k)
    BY <1>3 DEF Uncount
  <1>4. CASE ~AddTrackCount(k) /\ ~Uncount(k)
    <2>1. UNCHANGED counters
      BY <1>4, Zenon DEF Request, CreateCheck, DestroySession, StartRecording,
         RemoveTrack, Push, AddTrack, StopRecording, Serve, CreateJoin,
         CreateInsert, StopRemove, StopForget, StopReturn, DestroyRemove,
         DestroyLeave, DestroyLook, DestroyDropRoom, DestroyCollect, Unregister,
         Unindex, AddTrackInsert, AddTrackStream, AddTrackIndex,
         RemoveTrackEntry, PushRoom, PushMembers, PushPeer, PushSend,
         StartRecordingFails, StartRecordingTask, StartRecordingEntry,
         registryVars
    <2> QED  BY <2>1
  <1> QED  BY <1>2, <1>3, <1>4

LEMMA TracksStep ==
    ASSUME NodeTypeOK, CreatorIsFirst, NEW k \in Workers, Request(k) \/ Serve(k),
           HeldAt(k), \A id \in StreamIds : TrackAt(k, id)
    PROVE  HeldAt(k)' /\ \A id \in StreamIds : TrackAt(k, id)'
  <1>1. CASE Request(k)
    BY <1>1, TracksRequest
  <1>2. CASE \/ CreateJoin(k) \/ CreateInsert(k)
             \/ StopRemove(k) \/ StopForget(k) \/ StopReturn(k)
             \/ PushRoom(k) \/ PushMembers(k) \/ PushPeer(k) \/ PushSend(k)
             \/ StartRecordingFails(k) \/ StartRecordingTask(k)
             \/ StartRecordingEntry(k)
    BY <1>2, TracksAway
  <1>3. CASE \/ DestroyRemove(k) \/ DestroyLeave(k) \/ DestroyLook(k)
             \/ DestroyDropRoom(k) \/ DestroyCollect(k)
    BY <1>3, TracksDestroy
  <1>4. CASE Unregister(k) \/ Unindex(k) \/ Uncount(k)
    BY <1>4, TracksUnregister, TracksUnindex, TracksUncount
  <1>5. CASE AddTrackInsert(k) \/ RemoveTrackEntry(k)
    BY <1>5, TracksAddInsert, TracksRemoveEntry
  <1>6. CASE AddTrackStream(k) \/ AddTrackIndex(k) \/ AddTrackCount(k)
    BY <1>6, TracksAddStream
  <1> QED  BY <1>1, <1>2, <1>3, <1>4, <1>5, <1>6 DEF Serve

LEMMA RegistryInvInit == Init => RegistryInv
  <1> SUFFICES ASSUME Init PROVE RegistryInv
    OBVIOUS
  <1>1. /\ DOMAIN sessions = {} /\ DOMAIN streams = {} /\ DOMAIN roomStreams = {}
        /\ counters = {} /\ \A k \in Workers : pc[k] = "idle"
    BY Empties DEF Init, NewSessionManager, NewStreamRegistry
  <1>2. \A k \in Workers : HeldAt(k)
    BY <1>1 DEF HeldAt
  <1>3. \A id : Agrees(id)
    BY <1>1 DEF Agrees, Indexed, Listed, Registered, IsLive
  <1>4. \A k \in Workers, id \in StreamIds : TrackAt(k, id)
    BY <1>1, <1>3 DEF TrackAt, Adding, Removing
  <1> QED  BY <1>1, <1>2, <1>4, OnceInvInit DEF RegistryInv

LEMMA RegistryInvNext ==
    ASSUME SingleWorker
    PROVE  RegistryInv /\ [Next]_vars => RegistryInv'
  <1> SUFFICES ASSUME RegistryInv, [Next]_vars PROVE RegistryInv'
    OBVIOUS
  <1>1. NodeTypeOK /\ CreatorIsFirst /\ OnceInv'
    BY OnceInvNext DEF RegistryInv, OnceInv, Serialised
  <1>2. ASSUME NEW k \in Workers, Request(k) \/ Serve(k)
        PROVE  RegistryInv'
    <2>1. counters' \subseteq StreamIds
      BY <1>1, <1>2, CountersStep DEF RegistryInv
    <2>2. HeldAt(k) /\ \A id \in StreamIds : TrackAt(k, id)
      BY DEF RegistryInv
    <2>3. HeldAt(k)' /\ \A id \in StreamIds : TrackAt(k, id)'
      BY <1>1, <1>2, <2>2, TracksStep
    <2>4. \A l \in Workers : l = k
      BY Alone
    <2>5. \A l \in Workers : HeldAt(l)' /\ \A id \in StreamIds : TrackAt(l, id)'
      BY <2>3, <2>4
    <2> QED  BY <1>1, <2>1, <2>5 DEF RegistryInv
  <1>3. CASE UNCHANGED vars
    <2>1. UNCHANGED <<sessions, objects, streams, roomStreams, counters, pc, req>>
      BY <1>3 DEF vars, tableVars, registryVars, workVars
    <2>2. ASSUME NEW k \in Workers
          PROVE  HeldAt(k)' /\ \A id \in StreamIds : TrackAt(k, id)'
      <3>1. \A id : Removing(k, id)' <=> Removing(k, id)
        BY <2>1 DEF Removing
      <3>2. \A id : Adding(k, id)' <=> Adding(k, id)
        BY <2>1 DEF Adding
      <3>3. HeldAt(k)'
        BY <2>1, <3>1 DEF RegistryInv, HeldAt, ContainsKey, RoomOf, Removing
      <3>4. ASSUME NEW id \in StreamIds
            PROVE  TrackAt(k, id)'
        <4>1. /\ IsLive(id)' <=> IsLive(id)
              /\ RoomOf(id[1])' = RoomOf(id[1])
          BY <2>1, LiveKept
        <4>2. /\ Registered(id)' <=> Registered(id)
              /\ streams'[id] = streams[id]
              /\ \A r : Listed(id, r)' <=> Listed(id, r)
              /\ Indexed(id)' <=> Indexed(id)
          BY <2>1, RegistryKept
        <4>3. HalfAdded(k, id) => HalfAdded(k, id)'
          BY <2>1, <4>1, <4>2 DEF HalfAdded
        <4>4. HalfRemoved(k, id) => HalfRemoved(k, id)'
          BY <2>1, <4>1, <4>2 DEF HalfRemoved
        <4>5. Agrees(id) => Agrees(id)'
          BY <2>1, <4>1, <4>2 DEF Agrees
        <4>6. TrackAt(k, id)
          BY DEF RegistryInv
        <4> QED  BY <3>1, <3>2, <4>3, <4>4, <4>5, <4>6 DEF TrackAt
      <3> QED  BY <3>3, <3>4
    <2> QED  BY <1>1, <2>1, <2>2 DEF RegistryInv
  <1> QED  BY <1>2, <1>3 DEF Next

(* Between requests every stream, index entry and counter belongs to a     *)
(* track of a live session, and every such track has them: the index of a  *)
(* room names the live tracks of its sessions and nothing else, when       *)
(* requests are served one at a time (service.rs:187-190, 308-335,         *)
(* 372-379, lib.rs:365-390).                                               *)
THEOREM RegistriesMirrorTracksCorrect ==
    ASSUME SingleWorker
    PROVE  Spec => []RegistriesMirrorTracks
  <1>1. RegistryInv => RegistriesMirrorTracks
    <2> SUFFICES ASSUME RegistryInv, Quiet
                 PROVE  /\ DOMAIN streams = LiveTracks
                        /\ counters = LiveTracks
                        /\ \A id \in LiveTracks : streams[id] = RoomOf(id[1])
                        /\ \A r \in Rooms :
                               RoomIndex(r) =
                                   {id \in LiveTracks : RoomOf(id[1]) = r}
      BY DEF RegistriesMirrorTracks
    <2>1. NodeTypeOK /\ counters \subseteq StreamIds
      BY DEF RegistryInv, OnceInv
    <2>2. DOMAIN streams \subseteq StreamIds
      BY <2>1 DEF NodeTypeOK, RegistryTypeOK
    <2>3. \A id \in StreamIds : Agrees(id)
      <3>1. PICK k \in Workers : Workers = {k}
        BY DEF SingleWorker
      <3>2. pc[k] = "idle" /\ \A id \in StreamIds : TrackAt(k, id)
        BY <3>1 DEF Quiet, RegistryInv
      <3> QED  BY <3>2 DEF TrackAt, Adding, Removing
    <2>4. \A id : id \in LiveTracks <=> id \in StreamIds /\ IsLive(id)
      <3>1. ASSUME NEW s \in DOMAIN sessions,
                   NEW t \in DOMAIN objects[sessions[s]].tracks
            PROVE  <<s, t>> \in StreamIds /\ IsLive(<<s, t>>)
        BY <2>1, TableEntry DEF ContainsKey, StreamIds, IsLive
      <3>2. ASSUME NEW id \in LiveTracks
            PROVE  id \in StreamIds /\ IsLive(id)
        <4>1. PICK s \in DOMAIN sessions :
                  \E t \in DOMAIN objects[sessions[s]].tracks : id = <<s, t>>
          BY DEF LiveTracks
        <4> QED  BY <3>1, <4>1
      <3>3. ASSUME NEW id \in StreamIds, IsLive(id)
            PROVE  id \in LiveTracks
        <4>1. id = <<id[1], id[2]>>
          BY DEF StreamIds
        <4> QED  BY <3>3, <4>1 DEF IsLive, LiveTracks
      <3> QED  BY <3>2, <3>3
    <2>5. DOMAIN streams = LiveTracks
      BY <2>2, <2>3, <2>4 DEF Agrees, Registered
    <2>6. counters = LiveTracks
      BY <2>1, <2>3, <2>4 DEF Agrees
    <2>7. ASSUME NEW id \in LiveTracks
          PROVE  streams[id] = RoomOf(id[1])
      BY <2>3, <2>4, <2>5 DEF Agrees, Registered
    <2>8. ASSUME NEW r \in Rooms
          PROVE  RoomIndex(r) = {id \in LiveTracks : RoomOf(id[1]) = r}
      <3>1. \A id : id \in RoomIndex(r) <=> Listed(id, r)
        BY DEF RoomIndex, Listed
      <3>2. \A id : Listed(id, r) => id \in StreamIds
        BY <2>1 DEF Listed, ToSet, NodeTypeOK, RegistryTypeOK
      <3>3. \A id \in StreamIds :
                Listed(id, r) <=> Registered(id) /\ r = streams[id]
        BY <2>3 DEF Agrees, Indexed
      <3>4. \A id : Listed(id, r) <=> id \in LiveTracks /\ RoomOf(id[1]) = r
        BY <2>4, <2>5, <2>7, <3>2, <3>3 DEF Registered
      <3> QED  BY <3>1, <3>4
    <2> QED  BY <2>5, <2>6, <2>7, <2>8
  <1> QED  BY <1>1, RegistryInvInit, RegistryInvNext, PTL DEF Spec
============================================================================
