------------------------ MODULE RecordingTaskProofs ------------------------
(***************************************************************************)
(* The frames of a stream, in its cache and in its recordings, for any     *)
(* sinks, cache size, group size and number of frames.                     *)
(*                                                                         *)
(* CacheInv gives the shape of the cache: each group is a run of           *)
(* consecutive frame numbers, each run begins where the one before it      *)
(* ends, and the last one ends with the last frame saved.  That the        *)
(* concatenation of the groups is then a run itself is a matter of         *)
(* induction on their number.  SinkInv follows a recording: what it was    *)
(* shown of the cache is a run, what it was sent since is another, and     *)
(* while it is subscribed the last frame it has is the last one dispatched.*)
(***************************************************************************)
EXTENDS RecordingTask, FiniteSetTheorems, SequenceTheorems,
        WellFoundedInduction, TLAPS

----------------------------------------------------------------------------
(* Induction, by the least number at which a claim fails.                  *)

LEMMA LeastNumber ==
    ASSUME NEW T \in SUBSET Nat, T # {}
    PROVE  \E n \in T : \A m \in T : n <= m
  <1> DEFINE Up == {0 .. n : n \in T}
  <1>1. Up # {}
    OBVIOUS
  <1>2. Up \subseteq FiniteSubsetsOf(Nat)
    <2>1. \A n \in T : IsFiniteSet(0 .. n)
      BY FS_Interval
    <2> QED  BY <2>1 DEF FiniteSubsetsOf
  <1>3. IsWellFoundedOn(StrictSubsetOrdering(Nat), FiniteSubsetsOf(Nat))
    BY FS_StrictSubsetOrderingWellFounded
  <1> HIDE DEF Up
  <1>4. PICK x \in Up : \A y \in Up : ~(<<y, x>> \in StrictSubsetOrdering(Nat))
    BY <1>1, <1>2, <1>3, WFMin
  <1>5. PICK n \in T : x = 0 .. n
    BY DEF Up
  <1>6. ASSUME NEW m \in T, m < n
        PROVE  FALSE
    <2>1. 0 .. m \in Up
      BY DEF Up
    <2>2. n \in x /\ n \notin 0 .. m /\ 0 .. m \subseteq x
      BY <1>5, <1>6
    <2>3. 0 .. m \in SUBSET Nat /\ x \in SUBSET Nat
      BY <1>5
    <2>4. <<0 .. m, x>> \in StrictSubsetOrdering(Nat)
      BY <2>2, <2>3 DEF StrictSubsetOrdering
    <2> QED  BY <1>4, <2>1, <2>4
  <1> QED  BY <1>6

(* A set of numbers up to len that has 1 and with a number the next one.   *)
LEMMA OneUpTo ==
    ASSUME NEW len \in Nat, NEW P, 1 \in P,
           \A n \in 1 .. len - 1 : n \in P => n + 1 \in P
    PROVE  1 .. len \subseteq P
  <1> DEFINE T == (1 .. len) \ P
  <1> SUFFICES ASSUME T # {} PROVE FALSE
    OBVIOUS
  <1>0. T \in SUBSET Nat
    OBVIOUS
  <1> HIDE DEF T
  <1>1. PICK n \in T : \A m \in T : n <= m
    BY <1>0, LeastNumber
  <1> USE DEF T
  <1>2. n # 1 /\ n - 1 \in 1 .. len - 1 /\ n - 1 \in P
    BY <1>1
  <1> QED  BY <1>2

----------------------------------------------------------------------------
(* FlattenSeq.  Its recursive function exists: it is defined up to n for   *)
(* every n.                                                                *)

FlatStep(g, f, i) == IF i = 1 THEN g[i] ELSE f[i - 1] \o g[i]

LEMMA FlatExists ==
    ASSUME NEW S, NEW g \in Seq(S), g # << >>
    PROVE  \E f : f = [i \in 1 .. Len(g) |-> FlatStep(g, f, i)]
  <1> DEFINE P == {m \in 1 .. Len(g) :
                       \E f : f = [i \in 1 .. m |-> FlatStep(g, f, i)]}
  <1>1. Len(g) \in Nat /\ Len(g) >= 1
    OBVIOUS
  <1>2. 1 \in P
    <2> DEFINE f == [i \in 1 .. 1 |-> g[i]]
    <2>1. f = [i \in 1 .. 1 |-> FlatStep(g, f, i)]
      BY DEF FlatStep
    <2> QED  BY <1>1, <2>1
  <1>3. ASSUME NEW m \in 1 .. Len(g) - 1, m \in P
        PROVE  m + 1 \in P
    <2>1. PICK f : f = [i \in 1 .. m |-> FlatStep(g, f, i)]
      BY <1>3
    <2> DEFINE h == [i \in 1 .. m + 1 |->
                        IF i <= m THEN f[i] ELSE FlatStep(g, f, i)]
    <2>2. ASSUME NEW i \in 1 .. m + 1
          PROVE  h[i] = FlatStep(g, h, i)
      <3>1. i # 1 => i - 1 \in 1 .. m /\ h[i - 1] = f[i - 1]
        OBVIOUS
      <3>2. FlatStep(g, h, i) = FlatStep(g, f, i)
        BY <3>1 DEF FlatStep
      <3>3. i <= m => f[i] = FlatStep(g, f, i)
        BY <2>1
      <3> QED  BY <3>2, <3>3
    <2>3. h = [i \in 1 .. m + 1 |-> FlatStep(g, h, i)]
      BY <2>2
    <2> HIDE DEF h
    <2>4. m + 1 \in 1 .. Len(g)
      BY <1>1
    <2> QED  BY <2>3, <2>4
  <1> HIDE DEF P
  <1>4. 1 .. Len(g) \subseteq P
    BY <1>1, <1>2, <1>3, OneUpTo
  <1> QED  BY <1>1, <1>4 DEF P

Flat(g) == CHOOSE f : f = [i \in 1 .. Len(g) |-> FlatStep(g, f, i)]

LEMMA FlattenIsFlat ==
    ASSUME NEW S, NEW g \in Seq(S), g # << >>
    PROVE  /\ FlattenSeq(g) = Flat(g)[Len(g)]
           /\ \A i \in 1 .. Len(g) : Flat(g)[i] = FlatStep(g, Flat(g), i)
  <1>0. Len(g) # 0
    OBVIOUS
  <1>1. FlattenSeq(g) = Flat(g)[Len(g)]
    BY <1>0 DEF FlattenSeq, Flat, FlatStep
  <1> DEFINE f == Flat(g)
  <1>2. f = [i \in 1 .. Len(g) |-> FlatStep(g, f, i)]
    BY FlatExists DEF Flat
  <1> HIDE DEF f
  <1>3. \A i \in 1 .. Len(g) : f[i] = FlatStep(g, f, i)
    BY <1>2
  <1> QED  BY <1>1, <1>3 DEF f

----------------------------------------------------------------------------
(* Runs of consecutive frames.                                             *)

Run(first, n) == [i \in 1 .. n |-> first + i - 1]

LEMMA RunType ==
    ASSUME NEW first \in Nat, NEW n \in Nat
    PROVE  /\ Run(first, n) \in Seq(Nat)
           /\ Len(Run(first, n)) = n
           /\ \A i \in 1 .. n : Run(first, n)[i] = first + i - 1
  <1>1. \A i \in 1 .. n : first + i - 1 \in Nat
    OBVIOUS
  <1> QED  BY <1>1 DEF Run

LEMMA RunConcat ==
    ASSUME NEW first \in Nat, NEW n \in Nat, NEW m \in Nat
    PROVE  Run(first, n) \o Run(first + n, m) = Run(first, n + m)
  <1> DEFINE a == Run(first, n)
             b == Run(first + n, m)
             c == Run(first, n + m)
  <1>1. /\ a \in Seq(Nat) /\ Len(a) = n
        /\ \A i \in 1 .. n : a[i] = first + i - 1
    BY RunType
  <1>2. /\ b \in Seq(Nat) /\ Len(b) = m
        /\ \A i \in 1 .. m : b[i] = first + n + i - 1
    <2>1. first + n \in Nat
      OBVIOUS
    <2> QED  BY <2>1, RunType
  <1>3. /\ c \in Seq(Nat) /\ Len(c) = n + m
        /\ \A i \in 1 .. n + m : c[i] = first + i - 1
    BY RunType
  <1> HIDE DEF a, b, c
  <1>4. /\ a \o b \in Seq(Nat) /\ Len(a \o b) = n + m
        /\ \A i \in 1 .. n + m :
               (a \o b)[i] = IF i <= n THEN a[i] ELSE b[i - n]
    BY <1>1, <1>2, ConcatProperties
  <1>5. ASSUME NEW i \in 1 .. n + m PROVE (a \o b)[i] = c[i]
    <2> i \in Int
      OBVIOUS
    <2>1. CASE i <= n
      BY <1>1, <1>3, <1>4, <2>1
    <2>2. CASE ~(i <= n)
      <3>1. i - n \in 1 .. m
        BY <2>2
      <3>2. b[i - n] = first + n + (i - n) - 1
        BY <1>2, <3>1
      <3>3. (a \o b)[i] = b[i - n] /\ c[i] = first + i - 1
        BY <1>3, <1>4, <2>2
      <3>4. first + n + (i - n) - 1 = first + i - 1
        OBVIOUS
      <3> QED  BY <3>2, <3>3, <3>4
    <2> QED  BY <2>1, <2>2
  <1>6. a \o b = c
    BY <1>3, <1>4, <1>5, SeqEqual
  <1> QED  BY <1>6 DEF a, b, c

LEMMA RunAppend ==
    ASSUME NEW first \in Nat, NEW n \in Nat
    PROVE  Append(Run(first, n), first + n) = Run(first, n + 1)
  <1> DEFINE a == Run(first, n)
             c == Run(first, n + 1)
  <1>1. /\ a \in Seq(Nat) /\ Len(a) = n
        /\ \A i \in 1 .. n : a[i] = first + i - 1
    BY RunType
  <1>2. /\ c \in Seq(Nat) /\ Len(c) = n + 1
        /\ \A i \in 1 .. n + 1 : c[i] = first + i - 1
    BY RunType
  <1> HIDE DEF a, c
  <1>3. Append(a, first + n) = c
    BY <1>1, <1>2
  <1> QED  BY <1>3 DEF a, c

----------------------------------------------------------------------------
(* Caches.  The groups are runs, each begins where the one before it ends, *)
(* and End is the frame they end with.                                     *)

Chained(g) ==
    /\ g \in Seq(Seq(Nat))
    /\ \A i \in 1 .. Len(g) : Len(g[i]) >= 1 /\ g[i] = Run(g[i][1], Len(g[i]))
    /\ \A i \in 1 .. Len(g) - 1 : g[i + 1][1] = g[i][1] + Len(g[i])

End(g) == g[Len(g)][1] + Len(g[Len(g)]) - 1

LEMMA ChainedType ==
    ASSUME NEW g, Chained(g), NEW i \in 1 .. Len(g)
    PROVE  /\ g[i] \in Seq(Nat) /\ g[i][1] \in Nat
           /\ Len(g) \in Nat /\ Len(g[i]) \in Nat /\ Len(g[i]) >= 1
  <1>1. g \in Seq(Seq(Nat)) /\ g[i] \in Seq(Nat) /\ Len(g[i]) >= 1
    BY DEF Chained
  <1>2. Len(g) \in Nat /\ Len(g[i]) \in Nat
    BY <1>1
  <1>3. g[i][1] \in Nat
    BY <1>1, <1>2, ElementOfSeq
  <1> QED  BY <1>1, <1>2, <1>3

(* What is replayed of such a cache is one run.                            *)
LEMMA FlattenChained ==
    ASSUME NEW g, Chained(g), g # << >>
    PROVE  /\ g[1][1] \in Nat
           /\ \E n \in Nat \ {0} : /\ FlattenSeq(g) = Run(g[1][1], n)
                                  /\ g[1][1] + n - 1 = End(g)
  <1>1. g \in Seq(Seq(Nat)) /\ Len(g) \in Nat /\ Len(g) >= 1
    <2>1. g \in Seq(Seq(Nat))
      BY DEF Chained
    <2> QED  BY <2>1, EmptySeq
  <1>2. \A i \in 1 .. Len(g) : g[i][1] \in Nat /\ Len(g[i]) \in Nat
                              /\ Len(g[i]) >= 1
    BY ChainedType
  <1>3. PICK a \in Nat : a = g[1][1]
    <2>1. 1 \in 1 .. Len(g)
      BY <1>1
    <2>2. g[1][1] \in Nat
      BY <1>2, <2>1
    <2> QED  BY <2>2
  <1> DEFINE f == Flat(g)
             P == {i \in 1 .. Len(g) :
                      \E n \in Nat \ {0} : /\ f[i] = Run(a, n)
                                          /\ a + n = g[i][1] + Len(g[i])}
  <1>4. /\ FlattenSeq(g) = f[Len(g)]
        /\ \A i \in 1 .. Len(g) : f[i] = FlatStep(g, f, i)
    BY <1>1, FlattenIsFlat
  <1> HIDE DEF f
  <1>5. 1 \in P
    <2>1. f[1] = g[1]
      BY <1>1, <1>4 DEF FlatStep
    <2>2. g[1] = Run(a, Len(g[1]))
      BY <1>1, <1>3 DEF Chained
    <2>3. Len(g[1]) \in Nat \ {0} /\ a + Len(g[1]) = g[1][1] + Len(g[1])
      BY <1>1, <1>2, <1>3
    <2> QED  BY <1>1, <2>1, <2>2, <2>3
  <1>6. ASSUME NEW i \in 1 .. Len(g) - 1, i \in P
        PROVE  i + 1 \in P
    <2>1. PICK n \in Nat \ {0} : f[i] = Run(a, n) /\ a + n = g[i][1] + Len(g[i])
      BY <1>6
    <2>2. i + 1 \in 1 .. Len(g) /\ i + 1 # 1 /\ (i + 1) - 1 = i
      BY <1>1
    <2>3. f[i + 1] = f[i] \o g[i + 1]
      BY <1>4, <2>2 DEF FlatStep
    <2>4. g[i + 1][1] = a + n
      BY <2>1 DEF Chained
    <2>5. PICK m \in Nat \ {0} : m = Len(g[i + 1])
      BY <1>2, <2>2
    <2>6. g[i + 1] = Run(a + n, m)
      BY <2>2, <2>4, <2>5 DEF Chained
    <2>7. f[i + 1] = Run(a, n + m)
      <3>1. Run(a, n) \o Run(a + n, m) = Run(a, n + m)
        BY RunConcat
      <3> QED  BY <2>1, <2>3, <2>6, <3>1, Zenon
    <2>8. n + m \in Nat \ {0} /\ a + (n + m) = g[i + 1][1] + Len(g[i + 1])
      <3>1. n + m \in Nat \ {0} /\ a + (n + m) = (a + n) + m
        OBVIOUS
      <3>2. g[i + 1][1] + Len(g[i + 1]) = (a + n) + m
        BY <2>4, <2>5, Zenon
      <3> QED  BY <3>1, <3>2, Zenon
    <2> QED  BY <2>2, <2>7, <2>8
  <1> HIDE DEF P
  <1>7. Len(g) \in P
    <2>1. 1 .. Len(g) \subseteq P
      BY <1>1, <1>5, <1>6, OneUpTo
    <2>2. Len(g) \in 1 .. Len(g)
      BY <1>1
    <2> QED  BY <2>1, <2>2
  <1>8. PICK n \in Nat \ {0} :
            f[Len(g)] = Run(a, n) /\ a + n = g[Len(g)][1] + Len(g[Len(g)])
    BY <1>7 DEF P
  <1>9. a + n - 1 = End(g)
    <2>1. Len(g) \in 1 .. Len(g)
      BY <1>1
    <2>2. PICK b \in Nat, m \in Nat : b = g[Len(g)][1] /\ m = Len(g[Len(g)])
      BY <1>2, <2>1
    <2>3. a + n = b + m
      BY <1>8, <2>2
    <2>4. End(g) = b + m - 1
      BY <2>2 DEF End
    <2> QED  BY <2>3, <2>4
  <1> QED  BY <1>3, <1>4, <1>8, <1>9

LEMMA ChainedEmpty == Chained(<< >>)
  BY EmptySeq DEF Chained

LEMMA ChainedTail ==
    ASSUME NEW g, Chained(g), g # << >>
    PROVE  /\ Chained(Tail(g)) /\ Len(Tail(g)) = Len(g) - 1
           /\ \A i \in 1 .. Len(g) - 1 : Tail(g)[i] = g[i + 1]
           /\ Tail(g) # << >> => End(Tail(g)) = End(g)
  <1>1. g \in Seq(Seq(Nat)) /\ Len(g) \in Nat /\ Len(g) >= 1
    <2>1. g \in Seq(Seq(Nat))
      BY DEF Chained
    <2> QED  BY <2>1, EmptySeq
  <1> DEFINE t == Tail(g)
  <1>2. /\ t \in Seq(Seq(Nat)) /\ Len(t) = Len(g) - 1
        /\ \A i \in 1 .. Len(t) : t[i] = g[i + 1]
    BY <1>1, HeadTailProperties
  <1> HIDE DEF t
  <1>3. ASSUME NEW i \in 1 .. Len(t)
        PROVE  Len(t[i]) >= 1 /\ t[i] = Run(t[i][1], Len(t[i]))
    <2>1. i + 1 \in 1 .. Len(g) /\ t[i] = g[i + 1]
      BY <1>1, <1>2
    <2> QED  BY <2>1 DEF Chained
  <1>4. ASSUME NEW i \in 1 .. Len(t) - 1
        PROVE  t[i + 1][1] = t[i][1] + Len(t[i])
    <2>1. i + 1 \in 1 .. Len(g) - 1 /\ i \in 1 .. Len(t) /\ i + 1 \in 1 .. Len(t)
      BY <1>1, <1>2
    <2>2. t[i] = g[i + 1] /\ t[i + 1] = g[(i + 1) + 1]
      BY <1>2, <2>1
    <2> QED  BY <2>1, <2>2 DEF Chained
  <1>5. t # << >> => End(t) = End(g)
    <2> SUFFICES ASSUME t # << >> PROVE End(t) = End(g)
      OBVIOUS
    <2>1. Len(t) \in 1 .. Len(t) /\ Len(t) + 1 = Len(g)
      BY <1>1, <1>2, EmptySeq
    <2>2. t[Len(t)] = g[Len(g)]
      BY <1>2, <2>1
    <2> QED  BY <2>2 DEF End
  <1>6. Chained(t)
    BY <1>2, <1>3, <1>4 DEF Chained
  <1> QED  BY <1>1, <1>2, <1>5, <1>6 DEF t

(* A group of its own for frame n.                                         *)
LEMMA ChainedAppend ==
    ASSUME NEW g, Chained(g), NEW n \in Nat \ {0}, g # << >> => End(g) = n - 1
    PROVE  /\ Chained(Append(g, <<n>>)) /\ Append(g, <<n>>) # << >>
           /\ End(Append(g, <<n>>)) = n
           /\ Len(Append(g, <<n>>)) = Len(g) + 1
           /\ \A i \in 1 .. Len(g) : Append(g, <<n>>)[i] = g[i]
           /\ Append(g, <<n>>)[Len(g) + 1] = <<n>>
  <1>1. g \in Seq(Seq(Nat)) /\ Len(g) \in Nat /\ <<n>> \in Seq(Nat)
    <2>1. g \in Seq(Seq(Nat))
      BY DEF Chained
    <2> QED  BY <2>1
  <1>2. <<n>> = Run(n, 1) /\ Len(<<n>>) = 1 /\ <<n>>[1] = n
    BY DEF Run
  <1> DEFINE h == Append(g, <<n>>)
  <1>3. /\ h \in Seq(Seq(Nat)) /\ h # << >> /\ Len(h) = Len(g) + 1
        /\ \A i \in 1 .. Len(g) : h[i] = g[i]
        /\ h[Len(g) + 1] = <<n>>
    BY <1>1, AppendProperties
  <1> HIDE DEF h
  <1>4. ASSUME NEW i \in 1 .. Len(h)
        PROVE  Len(h[i]) >= 1 /\ h[i] = Run(h[i][1], Len(h[i]))
    <2>1. CASE i \in 1 .. Len(g)
      BY <1>3, <2>1 DEF Chained
    <2>2. CASE i = Len(g) + 1
      <3>1. h[i] = Run(n, 1)
        BY <1>2, <1>3, <2>2
      <3>2. Len(h[i]) = 1 /\ h[i][1] = n
        BY <1>2, <3>1
      <3>3. h[i] = Run(h[i][1], Len(h[i]))
        BY <3>1, <3>2, Zenon
      <3> QED  BY <3>2, <3>3
    <2> QED  BY <1>1, <1>3, <2>1, <2>2
  <1>5. ASSUME NEW i \in 1 .. Len(h) - 1
        PROVE  h[i + 1][1] = h[i][1] + Len(h[i])
    <2>1. CASE i \in 1 .. Len(g) - 1
      <3>1. i \in 1 .. Len(g) /\ i + 1 \in 1 .. Len(g)
        BY <1>1, <2>1
      <3> QED  BY <1>3, <2>1, <3>1 DEF Chained
    <2>2. CASE i = Len(g)
      <3>1. i \in 1 .. Len(g) /\ g # << >>
        BY <1>1, <2>2
      <3>2. g[i][1] \in Nat /\ Len(g[i]) \in Nat
        BY <3>1, ChainedType
      <3>3. g[i][1] + Len(g[i]) - 1 = n - 1
        BY <2>2, <3>1 DEF End
      <3>4. h[i + 1][1] = n /\ h[i] = g[i]
        BY <1>2, <1>3, <2>2, <3>1
      <3>5. PICK b \in Nat, m \in Nat : b = g[i][1] /\ m = Len(g[i])
        BY <3>2
      <3>6. b + m - 1 = n - 1
        BY <3>3, <3>5
      <3>7. n = b + m
        BY <3>6
      <3> QED  BY <3>4, <3>5, <3>7
    <2> QED  BY <1>1, <1>3, <2>1, <2>2
  <1>6. Chained(h)
    BY <1>3, <1>4, <1>5 DEF Chained
  <1>7. End(h) = n
    BY <1>2, <1>3 DEF End
  <1> QED  BY <1>3, <1>6, <1>7 DEF h

(* Frame n goes to the last group.                                         *)
LEMMA ChainedAddToLast ==
    ASSUME NEW g, Chained(g), g # << >>, NEW n \in Nat \ {0}, End(g) = n - 1
    PROVE  /\ Chained(AddToLast(g, n)) /\ AddToLast(g, n) # << >>
           /\ End(AddToLast(g, n)) = n
           /\ Len(AddToLast(g, n)) = Len(g)
           /\ \A i \in 1 .. Len(g) :
                  Len(AddToLast(g, n)[i]) =
                      IF i = Len(g) THEN Len(g[i]) + 1 ELSE Len(g[i])
  <1>1. g \in Seq(Seq(Nat)) /\ Len(g) \in Nat /\ Len(g) >= 1
    <2>1. g \in Seq(Seq(Nat))
      BY DEF Chained
    <2> QED  BY <2>1, EmptySeq
  <1>2. PICK l \in 1 .. Len(g) : l = Len(g)
    BY <1>1
  <1>3. /\ g[l] \in Seq(Nat) /\ g[l][1] \in Nat
        /\ Len(g[l]) \in Nat /\ Len(g[l]) >= 1
    BY ChainedType
  <1>4. PICK a \in Nat : a = g[l][1]
    BY <1>3
  <1>5. PICK m \in Nat : m = Len(g[l])
    BY <1>3
  <1>6. g[l] = Run(a, m) /\ a + m = n /\ m >= 1
    <2>1. g[l] = Run(a, m)
      BY <1>4, <1>5 DEF Chained
    <2>2. a + m - 1 = n - 1
      BY <1>2, <1>4, <1>5 DEF End
    <2> QED  BY <1>3, <1>5, <2>1, <2>2
  <1>7. PICK w \in Seq(Nat) : w = Append(g[l], n)
    <2>1. Append(g[l], n) \in Seq(Nat)
      BY <1>3, AppendProperties
    <2> QED  BY <2>1
  <1>8. w = Run(a, m + 1) /\ Len(w) = m + 1 /\ w[1] = a
    <2>1. w = Run(a, m + 1)
      BY <1>6, <1>7, RunAppend
    <2>2. m + 1 \in Nat /\ 1 \in 1 .. m + 1
      OBVIOUS
    <2>3. Len(Run(a, m + 1)) = m + 1 /\ Run(a, m + 1)[1] = a + 1 - 1
      BY <2>2, RunType
    <2> QED  BY <2>1, <2>3
  <1> DEFINE h == AddToLast(g, n)
  <1>9. h = [g EXCEPT ![l] = w]
    BY <1>2, <1>7 DEF AddToLast
  <1> HIDE DEF h
  <1>10. /\ h \in Seq(Seq(Nat)) /\ Len(h) = Len(g)
         /\ \A i \in 1 .. Len(g) : h[i] = IF i = l THEN w ELSE g[i]
    BY <1>1, <1>9, ExceptSeq
  <1>11. ASSUME NEW i \in 1 .. Len(h)
         PROVE  Len(h[i]) >= 1 /\ h[i] = Run(h[i][1], Len(h[i]))
    <2>1. CASE i = l
      BY <1>8, <1>10, <2>1
    <2>2. CASE i # l
      BY <1>10, <2>2 DEF Chained
    <2> QED  BY <2>1, <2>2
  <1>12. ASSUME NEW i \in 1 .. Len(h) - 1
         PROVE  h[i + 1][1] = h[i][1] + Len(h[i])
    <2>1. /\ i \in 1 .. Len(g) - 1 /\ i \in 1 .. Len(g)
          /\ i + 1 \in 1 .. Len(g) /\ i # l
      BY <1>1, <1>2, <1>10
    <2>2. h[i] = g[i]
      BY <1>10, <2>1
    <2>3. h[i + 1][1] = g[i + 1][1]
      BY <1>4, <1>8, <1>10, <2>1
    <2> QED  BY <2>1, <2>2, <2>3 DEF Chained
  <1>13. Chained(h)
    BY <1>10, <1>11, <1>12 DEF Chained
  <1>14. End(h) = n
    <2>1. Len(h) = l /\ h[l] = w
      BY <1>2, <1>10
    <2>2. End(h) = a + (m + 1) - 1
      BY <1>8, <2>1 DEF End
    <2> QED  BY <1>6, <2>2
  <1>15. h # << >>
    BY <1>1, <1>10
  <1>16. \A i \in 1 .. Len(g) :
            Len(h[i]) = IF i = Len(g) THEN Len(g[i]) + 1 ELSE Len(g[i])
    BY <1>2, <1>5, <1>8, <1>10
  <1> QED  BY <1>10, <1>13, <1>14, <1>15, <1>16 DEF h

(* A new group for frame n, in the place of the oldest if there are enough.*)
LEMMA OpenThenAdd ==
    ASSUME NEW g, Chained(g), Len(g) <= GopCount, GopCount > 0,
           NEW n \in Nat \ {0}, g # << >> => End(g) = n - 1,
           \A i \in 1 .. Len(g) : Len(g[i]) <= MaxFramesPerGop
    PROVE  /\ OpenGop(g) # << >> /\ Len(Last(OpenGop(g))) = 0
           /\ Chained(AddToLast(OpenGop(g), n))
           /\ AddToLast(OpenGop(g), n) # << >>
           /\ End(AddToLast(OpenGop(g), n)) = n
           /\ Len(AddToLast(OpenGop(g), n)) <= GopCount
           /\ \A i \in 1 .. Len(AddToLast(OpenGop(g), n)) :
                  Len(AddToLast(OpenGop(g), n)[i]) <= MaxFramesPerGop
  <1>1. g \in Seq(Seq(Nat)) /\ Len(g) \in Nat
    <2>1. g \in Seq(Seq(Nat))
      BY DEF Chained
    <2> QED  BY <2>1
  <1>2. PICK kept : kept = IF Len(g) >= GopCount THEN Tail(g) ELSE g
    OBVIOUS
  <1>3. /\ Chained(kept) /\ Len(kept) < GopCount
        /\ kept # << >> => End(kept) = n - 1
        /\ \A i \in 1 .. Len(kept) : Len(kept[i]) <= MaxFramesPerGop
    <2>1. CASE Len(g) >= GopCount
      <3>1. g # << >> /\ kept = Tail(g)
        BY <1>1, <1>2, <2>1, StreamAssumption
      <3>2. /\ Chained(kept) /\ Len(kept) = Len(g) - 1
            /\ \A i \in 1 .. Len(g) - 1 : kept[i] = g[i + 1]
            /\ kept # << >> => End(kept) = End(g)
        BY <3>1, ChainedTail
      <3>3. ASSUME NEW i \in 1 .. Len(kept)
            PROVE  Len(kept[i]) <= MaxFramesPerGop
        <4>1. kept[i] = g[i + 1] /\ i + 1 \in 1 .. Len(g)
          BY <1>1, <3>2
        <4> QED  BY <4>1
      <3>4. Len(kept) < GopCount
        BY <1>1, <3>2, StreamAssumption
      <3> QED  BY <3>1, <3>2, <3>3, <3>4
    <2>2. CASE ~(Len(g) >= GopCount)
      <3>1. kept = g /\ Len(g) < GopCount
        BY <1>1, <1>2, <2>2, StreamAssumption
      <3> QED  BY <3>1
    <2> QED  BY <2>1, <2>2
  <1>4. kept \in Seq(Seq(Nat)) /\ Len(kept) \in Nat /\ << >> \in Seq(Nat)
    <2>1. kept \in Seq(Seq(Nat))
      BY <1>3 DEF Chained
    <2> QED  BY <2>1
  <1>5. PICK o : o = Append(kept, << >>)
    OBVIOUS
  <1>6. OpenGop(g) = o
    BY <1>2, <1>5 DEF OpenGop
  <1>7. /\ o \in Seq(Seq(Nat)) /\ o # << >> /\ Len(o) = Len(kept) + 1
        /\ \A i \in 1 .. Len(kept) : o[i] = kept[i]
        /\ o[Len(kept) + 1] = << >>
    BY <1>4, <1>5, AppendProperties
  <1>8. Len(Last(o)) = 0
    <2>1. Last(o) = << >>
      BY <1>7 DEF Last
    <2> QED  BY <2>1
  <1>9. PICK h : h = Append(kept, <<n>>)
    OBVIOUS
  <1>10. /\ Chained(h) /\ h # << >> /\ End(h) = n /\ Len(h) = Len(kept) + 1
         /\ \A i \in 1 .. Len(kept) : h[i] = kept[i]
         /\ h[Len(kept) + 1] = <<n>>
    BY <1>3, <1>9, ChainedAppend
  <1>11. AddToLast(o, n) = h
    <2>1. Append(o[Len(o)], n) = <<n>> /\ <<n>> \in Seq(Nat)
      BY <1>7
    <2>2. PICK v \in Seq(Nat) : v = <<n>>
      BY <2>1
    <2>3. PICK l \in 1 .. Len(o) : l = Len(o) /\ l = Len(kept) + 1
      BY <1>4, <1>7
    <2>4. AddToLast(o, n) = [o EXCEPT ![l] = v]
      BY <2>1, <2>2, <2>3 DEF AddToLast
    <2>5. PICK u : u = [o EXCEPT ![l] = v]
      OBVIOUS
    <2>6. /\ u \in Seq(Seq(Nat)) /\ Len(u) = Len(o)
          /\ \A i \in 1 .. Len(o) : u[i] = IF i = l THEN v ELSE o[i]
      BY <1>7, <2>5, ExceptSeq
    <2>7. h \in Seq(Seq(Nat)) /\ Len(h) = Len(u)
      BY <1>7, <1>10, <2>6 DEF Chained
    <2>8. ASSUME NEW i \in 1 .. Len(u) PROVE u[i] = h[i]
      <3>1. CASE i = l
        BY <1>10, <2>2, <2>3, <2>6, <3>1
      <3>2. CASE i # l
        <4>1. i \in 1 .. Len(kept)
          BY <1>4, <1>7, <2>3, <2>6, <3>2
        <4>2. i \in 1 .. Len(o)
          BY <2>6
        <4>3. u[i] = o[i]
          BY <2>6, <3>2, <4>2
        <4> QED  BY <1>7, <1>10, <4>1, <4>3
      <3> QED  BY <3>1, <3>2
    <2>9. u = h
      BY <2>6, <2>7, <2>8, SeqEqual
    <2> QED  BY <2>4, <2>5, <2>9
  <1>12. Len(h) <= GopCount
    BY <1>3, <1>4, <1>10, StreamAssumption
  <1>13. ASSUME NEW i \in 1 .. Len(h)
         PROVE  Len(h[i]) <= MaxFramesPerGop
    <2>1. CASE i \in 1 .. Len(kept)
      BY <1>3, <1>10, <2>1
    <2>2. CASE i = Len(kept) + 1
      <3>1. Len(h[i]) = 1
        BY <1>10, <2>2
      <3> QED  BY <3>1, StreamAssumption
    <2> QED  BY <1>4, <1>10, <2>1, <2>2
  <1> QED  BY <1>6, <1>7, <1>8, <1>10, <1>11, <1>12, <1>13

(* The groups stay chained and within their limits when a frame is saved,  *)
(* and end with that frame.                                                *)
LEMMA SaveChained ==
    ASSUME NEW g, Chained(g), Len(g) <= GopCount,
           NEW n \in Nat \ {0}, g # << >> => End(g) = n - 1,
           \A i \in 1 .. Len(g) : Len(g[i]) <= MaxFramesPerGop,
           NEW key \in BOOLEAN, NEW h, h = Save(g, n, key)
    PROVE  /\ Chained(h) /\ Len(h) <= GopCount
           /\ h # << >> => End(h) = n
           /\ \A i \in 1 .. Len(h) : Len(h[i]) <= MaxFramesPerGop
  <1>1. g \in Seq(Seq(Nat)) /\ Len(g) \in Nat
    <2>1. g \in Seq(Seq(Nat))
      BY DEF Chained
    <2> QED  BY <2>1
  <1>2. CASE GopCount = 0
    <2>1. g = << >> /\ h = g
      BY <1>1, <1>2 DEF Save
    <2> QED  BY <2>1
  <1>3. CASE GopCount > 0
    <2>1. CASE key
      <3>1. OpenGop(g) # << >> /\ Len(Last(OpenGop(g))) = 0
        BY <1>3, OpenThenAdd
      <3>2. h = AddToLast(OpenGop(g), n)
        <4>1. ~(0 >= MaxFramesPerGop)
          BY StreamAssumption
        <4>2. ~(Len(Last(OpenGop(g))) >= MaxFramesPerGop)
          BY <3>1, <4>1
        <4>3. GopCount # 0
          BY <1>3
        <4> QED  BY <1>3, <2>1, <3>1, <4>2, <4>3 DEF Save
      <3> QED  BY <1>3, <3>2, OpenThenAdd
    <2>2. CASE ~key /\ g = << >>
      <3>1. h = << <<n>> >>
        <4>1. GopCount # 0
          BY <1>3
        <4> QED  BY <1>3, <2>2, <4>1 DEF Save
      <3>2. h = Append(g, <<n>>)
        BY <2>2, <3>1
      <3>3. /\ Chained(h) /\ End(h) = n /\ Len(h) = Len(g) + 1
            /\ h[Len(g) + 1] = <<n>>
        BY <3>2, ChainedAppend
      <3>4. Len(h) = 1 /\ Len(h[1]) = 1
        BY <2>2, <3>3
      <3>5. ASSUME NEW i \in 1 .. Len(h) PROVE Len(h[i]) <= MaxFramesPerGop
        <4>1. i = 1
          BY <3>4
        <4>2. 1 <= MaxFramesPerGop
          BY StreamAssumption
        <4>3. Len(h[i]) = 1
          BY <3>4, <4>1, Zenon
        <4> QED  BY <4>2, <4>3
      <3>6. Len(h) <= GopCount
        BY <1>3, <3>4, StreamAssumption
      <3> QED  BY <3>3, <3>5, <3>6
    <2>3. CASE ~key /\ g # << >> /\ Len(Last(g)) >= MaxFramesPerGop
      <3>1. h = AddToLast(OpenGop(g), n)
        <4>1. GopCount # 0
          BY <1>3
        <4> QED  BY <1>3, <2>3, <4>1 DEF Save
      <3> QED  BY <1>3, <3>1, OpenThenAdd
    <2>4. CASE ~key /\ g # << >> /\ ~(Len(Last(g)) >= MaxFramesPerGop)
      <3>1. h = AddToLast(g, n)
        <4>1. GopCount # 0
          BY <1>3
        <4> QED  BY <1>3, <2>4, <4>1 DEF Save
      <3>2. /\ Chained(h) /\ End(h) = n /\ Len(h) = Len(g)
            /\ \A i \in 1 .. Len(g) :
                   Len(h[i]) = IF i = Len(g) THEN Len(g[i]) + 1 ELSE Len(g[i])
        BY <2>4, <3>1, ChainedAddToLast
      <3>3. Last(g) = g[Len(g)]
        BY DEF Last
      <3>4. ASSUME NEW i \in 1 .. Len(h)
            PROVE  Len(h[i]) <= MaxFramesPerGop
        <4>1. i \in 1 .. Len(g) /\ Len(g[i]) \in Nat
          BY <3>2, ChainedType
        <4> QED  BY <2>4, <3>2, <3>3, <4>1, StreamAssumption
      <3> QED  BY <3>2, <3>4
    <2> QED  BY <2>1, <2>2, <2>3, <2>4
  <1> QED  BY <1>2, <1>3, StreamAssumption

----------------------------------------------------------------------------
(* Lists of frames in order, but for the place after the first r of them.  *)

InOrder(s, r) ==
    \A i \in 1 .. Len(s) - 1 :
        LET step == s[i + 1] - s[i]
        IN  step = 1 \/ (i = r /\ step >= 0)

LEMMA RunInOrder ==
    ASSUME NEW a \in Nat, NEW n \in Nat, NEW r
    PROVE  InOrder(Run(a, n), r)
  <1> DEFINE s == Run(a, n)
  <1>1. Len(s) = n /\ \A i \in 1 .. n : s[i] = a + i - 1
    BY RunType
  <1> HIDE DEF s
  <1>2. ASSUME NEW i \in 1 .. Len(s) - 1 PROVE s[i + 1] - s[i] = 1
    <2>1. i \in 1 .. n /\ i + 1 \in 1 .. n
      BY <1>1
    <2>2. s[i] = a + i - 1 /\ s[i + 1] = a + (i + 1) - 1
      BY <1>1, <2>1
    <2> QED  BY <2>1, <2>2
  <1>3. InOrder(s, r)
    BY <1>2 DEF InOrder
  <1> QED  BY <1>3 DEF s

LEMMA AppendInOrder ==
    ASSUME NEW s \in Seq(Nat), NEW r \in Nat, InOrder(s, r), NEW n \in Nat,
           s # << >> => \/ n = s[Len(s)] + 1
                        \/ Len(s) = r /\ s[Len(s)] <= n
    PROVE  InOrder(Append(s, n), r)
  <1>1. Len(s) \in Nat /\ \A i \in 1 .. Len(s) : s[i] \in Nat
    BY ElementOfSeq
  <1> DEFINE t == Append(s, n)
  <1>2. /\ Len(t) = Len(s) + 1 /\ t[Len(s) + 1] = n
        /\ \A i \in 1 .. Len(s) : t[i] = s[i]
    BY AppendProperties
  <1> HIDE DEF t
  <1>3. ASSUME NEW i \in 1 .. Len(t) - 1
        PROVE  t[i + 1] - t[i] = 1 \/ (i = r /\ t[i + 1] - t[i] >= 0)
    <2>1. i \in 1 .. Len(s) /\ t[i] = s[i]
      BY <1>1, <1>2
    <2>2. CASE i = Len(s)
      <3>1. s # << >> /\ t[i + 1] = n
        BY <1>1, <1>2, <2>1, <2>2
      <3>2. PICK x \in Nat : x = s[i]
        BY <1>1, <2>1
      <3>3. n = x + 1 \/ (i = r /\ x <= n)
        BY <2>2, <3>1, <3>2
      <3>4. n - x = 1 \/ (i = r /\ n - x >= 0)
        BY <3>3
      <3> QED  BY <2>1, <3>1, <3>2, <3>4
    <2>3. CASE i # Len(s)
      <3>1. i \in 1 .. Len(s) - 1 /\ i + 1 \in 1 .. Len(s)
        BY <1>1, <2>1, <2>3
      <3>2. t[i + 1] = s[i + 1]
        BY <1>2, <3>1
      <3> QED  BY <2>1, <3>1, <3>2 DEF InOrder
    <2> QED  BY <2>2, <2>3
  <1>4. InOrder(t, r)
    BY <1>3 DEF InOrder
  <1> QED  BY <1>4 DEF t

----------------------------------------------------------------------------
(* The cache, with the push that is under way.                             *)

CacheInv ==
    /\ pushing \in {"idle", "save", "dispatch"}
    /\ made \in 0 .. MaxFrames
    /\ pushing # "idle" => made > 0
    /\ keyFrame \in BOOLEAN
    /\ Chained(gops) /\ Len(gops) <= GopCount
    /\ \A i \in 1 .. Len(gops) : Len(gops[i]) <= MaxFramesPerGop
    /\ gops # << >> => End(gops) = Saved

(* The last frame that went to the sinks.                                  *)
Dispatched == IF pushing = "idle" THEN made ELSE made - 1

(* What a sink has received, by the progress of its recording.             *)
SinkOK(k) ==
    /\ InOrder(received[k], replayed[k])
    /\ replayed[k] <= Len(received[k])
    /\ task[k] = "none" => received[k] = << >>
    /\ task[k] \in {"none", "replayed"} =>
           k \notin sourceSinks /\ replayed[k] = Len(received[k])
    /\ replayed[k] = Len(received[k]) /\ received[k] # << >> =>
           received[k][Len(received[k])] <= Saved
    /\ replayed[k] < Len(received[k]) /\ k \in sourceSinks =>
           received[k][Len(received[k])] = Dispatched

SinkTypeOK ==
    /\ sourceSinks \subseteq Sinks
    /\ received \in [Sinks -> Seq(Nat)]
    /\ replayed \in [Sinks -> Nat]
    /\ task \in [Sinks -> {"none", "replayed", "check", "recv", "ended"}]
    /\ taken \in [Sinks -> Nat]
    /\ \A k \in Sinks : taken[k] <= Len(received[k])
    /\ stopped \in [Sinks -> BOOLEAN]

SinkInv == SinkTypeOK /\ \A k \in Sinks : SinkOK(k)

IInv == CacheInv /\ SinkInv

LEMMA InitInv == Init => IInv
  <1> SUFFICES ASSUME Init PROVE IInv
    OBVIOUS
  <1> USE DEF Init, NewMediaStream
  <1>1. CacheInv
    <2>1. made \in 0 .. MaxFrames
      BY StreamAssumption
    <2>2. Len(gops) = 0 /\ Len(gops) <= GopCount
      BY StreamAssumption
    <2>3. Chained(gops)
      BY ChainedEmpty
    <2>4. \A i \in 1 .. Len(gops) : Len(gops[i]) <= MaxFramesPerGop
      BY <2>2
    <2>5. keyFrame \in BOOLEAN /\ pushing = "idle" /\ gops = << >>
      OBVIOUS
    <2> HIDE DEF Init, NewMediaStream
    <2> QED  BY <2>1, <2>2, <2>3, <2>4, <2>5 DEF CacheInv
  <1>2. SinkTypeOK
    BY EmptySeq DEF SinkTypeOK
  <1>3. ASSUME NEW k \in Sinks PROVE SinkOK(k)
    <2>1. /\ received[k] = << >> /\ Len(received[k]) = 0 /\ replayed[k] = 0
          /\ k \notin sourceSinks
      OBVIOUS
    <2>2. InOrder(received[k], replayed[k])
      BY <2>1 DEF InOrder
    <2> QED  BY <2>1, <2>2 DEF SinkOK
  <1> QED  BY <1>1, <1>2, <1>3 DEF IInv, SinkInv

LEMMA SavedType ==
    ASSUME CacheInv
    PROVE  /\ made \in Nat /\ Saved \in Nat /\ Saved <= made
           /\ Dispatched \in Nat /\ Dispatched <= made
  BY StreamAssumption DEF CacheInv, Saved, Dispatched

LEMMA CacheKept ==
    ASSUME CacheInv, UNCHANGED <<gops, pushing, made, keyFrame>>
    PROVE  CacheInv' /\ Saved' = Saved /\ Dispatched' = Dispatched
  <1>1. Saved' = Saved /\ Dispatched' = Dispatched
    BY DEF Saved, Dispatched
  <1>2. Chained(gops)' /\ (gops # << >> => End(gops) = Saved)'
    BY <1>1 DEF CacheInv, Chained, End
  <1> QED  BY <1>1, <1>2 DEF CacheInv

LEMMA AssembleCache ==
    ASSUME CacheInv, NEW key \in BOOLEAN, Assemble(key)
    PROVE  CacheInv' /\ Saved' = Saved /\ Dispatched' = Dispatched
  <1>1. /\ pushing = "idle" /\ pushing' = "save" /\ made' = made + 1
        /\ made \in Nat /\ made' \in 0 .. MaxFrames /\ made' > 0
        /\ gops' = gops /\ keyFrame' \in BOOLEAN
    BY StreamAssumption DEF Assemble, CacheInv
  <1>2. Saved' = Saved /\ Dispatched' = Dispatched
    BY <1>1 DEF Saved, Dispatched
  <1>3. Chained(gops)' /\ (gops # << >> => End(gops) = Saved)'
    BY <1>1, <1>2 DEF CacheInv, Chained, End
  <1>4. /\ (Len(gops) <= GopCount)'
        /\ (\A i \in 1 .. Len(gops) : Len(gops[i]) <= MaxFramesPerGop)'
    BY <1>1 DEF CacheInv
  <1> QED  BY <1>1, <1>2, <1>3, <1>4 DEF CacheInv

LEMMA SaveCache ==
    ASSUME CacheInv, SaveFrame
    PROVE  CacheInv' /\ Saved' >= Saved /\ Dispatched' = Dispatched
  <1>1. /\ pushing = "save" /\ pushing' = "dispatch" /\ made' = made
        /\ keyFrame' = keyFrame /\ gops' = Save(gops, made, keyFrame)
        /\ made \in Nat \ {0} /\ keyFrame \in BOOLEAN
    BY StreamAssumption DEF SaveFrame, CacheInv
  <1>2. Saved = made - 1 /\ Saved' = made /\ Dispatched' = Dispatched
    BY <1>1 DEF Saved, Dispatched
  <1>3. /\ Chained(gops) /\ Len(gops) <= GopCount
        /\ gops # << >> => End(gops) = made - 1
        /\ \A i \in 1 .. Len(gops) : Len(gops[i]) <= MaxFramesPerGop
    BY <1>2 DEF CacheInv
  <1>4. PICK h : h = gops'
    OBVIOUS
  <1>5. /\ Chained(h) /\ Len(h) <= GopCount
        /\ h # << >> => End(h) = made
        /\ \A i \in 1 .. Len(h) : Len(h[i]) <= MaxFramesPerGop
    <2>1. h = Save(gops, made, keyFrame)
      BY <1>1, <1>4
    <2> QED  BY <1>1, <1>3, <2>1, SaveChained
  <1>6. Chained(gops)' /\ (gops # << >> => End(gops) = Saved)'
    BY <1>2, <1>4, <1>5 DEF Chained, End
  <1>7. CacheInv'
    BY <1>1, <1>4, <1>5, <1>6 DEF CacheInv
  <1> QED  BY <1>1, <1>2, <1>7

LEMMA DispatchCache ==
    ASSUME CacheInv, Dispatch
    PROVE  CacheInv' /\ Saved' = Saved /\ Dispatched' = made
  <1>1. /\ pushing = "dispatch" /\ pushing' = "idle" /\ made' = made
        /\ keyFrame' = keyFrame /\ gops' = gops
    BY DEF Dispatch
  <1>2. Saved' = Saved /\ Dispatched' = made
    BY <1>1 DEF Saved, Dispatched
  <1>3. Chained(gops)' /\ (gops # << >> => End(gops) = Saved)'
    BY <1>1, <1>2 DEF CacheInv, Chained, End
  <1> QED  BY <1>1, <1>2, <1>3 DEF CacheInv

LEMMA ResetCache ==
    ASSUME CacheInv, Reset
    PROVE  CacheInv' /\ Saved' = Saved /\ Dispatched' = Dispatched
  <1>1. /\ pushing' = pushing /\ made' = made /\ keyFrame' = keyFrame
        /\ gops' = << >>
    BY DEF Reset
  <1>2. Saved' = Saved /\ Dispatched' = Dispatched
    BY <1>1 DEF Saved, Dispatched
  <1>3. Chained(gops')
    BY <1>1, ChainedEmpty
  <1>4. Len(gops') = 0 /\ 0 <= GopCount
    BY <1>1, StreamAssumption
  <1> QED  BY <1>1, <1>2, <1>3, <1>4 DEF CacheInv

(* What a new sink is shown: nothing, or a run that ends with the last     *)
(* frame saved.                                                            *)
LEMMA ReplayIsRun ==
    ASSUME CacheInv
    PROVE  \/ Replay = << >>
           \/ \E a \in Nat, n \in Nat \ {0} : /\ Replay = Run(a, n)
                                             /\ a + n - 1 = Saved
  <1>1. CASE gops = << >>
    <2>1. Replay = << >>
      BY <1>1 DEF Replay, FlattenSeq
    <2> QED  BY <2>1
  <1>2. CASE gops # << >>
    <2>1. Chained(gops) /\ End(gops) = Saved
      BY <1>2 DEF CacheInv
    <2>2. PICK a \in Nat : a = gops[1][1]
      BY <1>2, <2>1, FlattenChained
    <2>3. PICK n \in Nat \ {0} : FlattenSeq(gops) = Run(a, n)
                                /\ a + n - 1 = End(gops)
      BY <1>2, <2>1, <2>2, FlattenChained
    <2> QED  BY <2>1, <2>3 DEF Replay
  <1> QED  BY <1>1, <1>2

(* A sink that receives nothing: it may be put on the list after its       *)
(* replay, but not before.                                                 *)
LEMMA SinkQuiet ==
    ASSUME SinkInv, NEW k \in Sinks, CacheInv, CacheInv',
           received'[k] = received[k], replayed'[k] = replayed[k],
           Saved' >= Saved, Dispatched' = Dispatched,
           task'[k] = "none" => task[k] = "none",
           task'[k] \in {"none", "replayed"} =>
               task[k] \in {"none", "replayed"} /\ k \notin sourceSinks',
           k \in sourceSinks' => k \in sourceSinks \/ task[k] = "replayed"
    PROVE  SinkOK(k)'
  <1>1. SinkOK(k) /\ received[k] \in Seq(Nat) /\ replayed[k] \in Nat
    BY DEF SinkInv, SinkTypeOK
  <1>2. Len(received[k]) \in Nat
    BY <1>1
  <1>3. InOrder(received'[k], replayed'[k]) /\ replayed'[k] <= Len(received'[k])
    BY <1>1 DEF SinkOK
  <1>4. task'[k] = "none" => received'[k] = << >>
    BY <1>1 DEF SinkOK
  <1>5. task'[k] \in {"none", "replayed"} =>
            k \notin sourceSinks' /\ replayed'[k] = Len(received'[k])
    BY <1>1 DEF SinkOK
  <1>6. replayed'[k] = Len(received'[k]) /\ received'[k] # << >> =>
            received'[k][Len(received'[k])] <= Saved'
    <2> SUFFICES ASSUME replayed[k] = Len(received[k]), received[k] # << >>
                 PROVE  received[k][Len(received[k])] <= Saved'
      OBVIOUS
    <2>1. PICK x \in Nat : x = received[k][Len(received[k])]
      <3>1. Len(received[k]) \in 1 .. Len(received[k])
        BY <1>1, EmptySeq
      <3> QED  BY <1>1, <3>1, ElementOfSeq
    <2>2. x <= Saved
      BY <1>1, <2>1 DEF SinkOK
    <2>3. Saved \in Nat
      BY SavedType
    <2>4. Saved' \in Nat
      <3>1. made' \in 0 .. MaxFrames /\ (pushing' = "save" => made' > 0)
        BY DEF CacheInv
      <3>2. PICK m \in Nat : m = made' /\ (pushing' = "save" => m > 0)
        BY <3>1, StreamAssumption
      <3>3. m > 0 => m - 1 \in Nat
        OBVIOUS
      <3> QED  BY <3>2, <3>3 DEF Saved
    <2> QED  BY <2>1, <2>2, <2>3, <2>4
  <1>7. replayed'[k] < Len(received'[k]) /\ k \in sourceSinks' =>
            received'[k][Len(received'[k])] = Dispatched'
    <2> SUFFICES ASSUME replayed[k] < Len(received[k]), k \in sourceSinks'
                 PROVE  received[k][Len(received[k])] = Dispatched
      OBVIOUS
    <2>1. replayed[k] # Len(received[k])
      BY <1>1, <1>2
    <2>2. k \in sourceSinks
      BY <1>1, <2>1 DEF SinkOK
    <2> QED  BY <1>1, <2>2 DEF SinkOK
  <1> QED  BY <1>3, <1>4, <1>5, <1>6, <1>7 DEF SinkOK

(* The steps of the push, the cache and the task leave what was received   *)
(* alone.                                                                  *)
LEMMA SinksQuiet ==
    ASSUME SinkInv, CacheInv, CacheInv', SinkTypeOK',
           UNCHANGED <<received, replayed>>,
           Saved' >= Saved, Dispatched' = Dispatched,
           \A k \in Sinks :
               /\ task'[k] = "none" => task[k] = "none"
               /\ task'[k] \in {"none", "replayed"} =>
                      task[k] \in {"none", "replayed"} /\ k \notin sourceSinks'
               /\ k \in sourceSinks' => k \in sourceSinks \/ task[k] = "replayed"
    PROVE  SinkInv'
  <1>1. ASSUME NEW k \in Sinks PROVE SinkOK(k)'
    BY SinkQuiet
  <1> QED  BY <1>1 DEF SinkInv

(* A push hands its frame to the sinks on the list.                        *)
LEMMA DispatchSinks ==
    ASSUME SinkInv, CacheInv, Dispatch, UNCHANGED taskVars
    PROVE  SinkInv'
  <1>1. /\ UNCHANGED <<sourceSinks, replayed, task, taken, stopped>>
        /\ received' = [k \in Sinks |-> IF k \in sourceSinks
                                        THEN Append(received[k], made)
                                        ELSE received[k]]
        /\ pushing = "dispatch"
    BY DEF Dispatch, taskVars
  <1>2. made \in Nat /\ Saved = made /\ Dispatched = made - 1 /\ made > 0
    BY <1>1, StreamAssumption DEF CacheInv, Saved, Dispatched
  <1>3. CacheInv' /\ Saved' = made /\ Dispatched' = made
    BY <1>2, DispatchCache
  <1>4. ASSUME NEW k \in Sinks, k \in sourceSinks
        PROVE  /\ received'[k] \in Seq(Nat) /\ Len(received[k]) \in Nat
               /\ Len(received'[k]) = Len(received[k]) + 1
               /\ received'[k][Len(received'[k])] = made
               /\ received'[k] = Append(received[k], made)
    <2>1. received[k] \in Seq(Nat) /\ received'[k] = Append(received[k], made)
      BY <1>1, <1>4 DEF SinkInv, SinkTypeOK
    <2> QED  BY <1>2, <2>1, AppendProperties
  <1>5. ASSUME NEW k \in Sinks, k \notin sourceSinks
        PROVE  received'[k] = received[k]
    BY <1>1, <1>5
  <1>6. SinkTypeOK'
    <2>1. received' \in [Sinks -> Seq(Nat)]
      <3>1. \A k \in Sinks : received'[k] \in Seq(Nat)
        BY <1>4, <1>5 DEF SinkInv, SinkTypeOK
      <3> QED  BY <1>1, <3>1
    <2>2. ASSUME NEW k \in Sinks PROVE taken'[k] <= Len(received'[k])
      <3>1. taken[k] \in Nat /\ taken[k] <= Len(received[k]) /\ taken'[k] = taken[k]
        BY <1>1 DEF SinkInv, SinkTypeOK
      <3>2. CASE k \in sourceSinks
        BY <1>4, <3>1, <3>2
      <3>3. CASE k \notin sourceSinks
        BY <1>5, <3>1, <3>3
      <3> QED  BY <3>2, <3>3
    <2> QED  BY <1>1, <2>1, <2>2 DEF SinkInv, SinkTypeOK
  <1>7. ASSUME NEW k \in Sinks PROVE SinkOK(k)'
    <2>1. CASE k \notin sourceSinks
      <3>1. SinkOK(k) /\ received'[k] = received[k]
        BY <1>5, <2>1 DEF SinkInv
      <3> QED  BY <1>1, <1>2, <1>3, <2>1, <3>1 DEF SinkOK
    <2>2. CASE k \in sourceSinks
      <3>1. /\ SinkOK(k) /\ received[k] \in Seq(Nat) /\ replayed[k] \in Nat
            /\ task[k] \notin {"none", "replayed"}
            /\ replayed[k] <= Len(received[k])
        BY <2>2 DEF SinkInv, SinkTypeOK, SinkOK
      <3>2. received[k] # << >> =>
                \/ made = received[k][Len(received[k])] + 1
                \/ /\ Len(received[k]) = replayed[k]
                   /\ received[k][Len(received[k])] <= made
        <4>1. CASE replayed[k] = Len(received[k])
          BY <1>2, <3>1, <4>1 DEF SinkOK
        <4>2. CASE replayed[k] < Len(received[k])
          <5>1. received[k][Len(received[k])] = made - 1
            BY <1>2, <2>2, <3>1, <4>2 DEF SinkOK
          <5> QED  BY <1>2, <5>1
        <4>3. Len(received[k]) \in Nat
          BY <3>1
        <4> QED  BY <3>1, <4>1, <4>2, <4>3
      <3>3. InOrder(Append(received[k], made), replayed[k])
        <4>1. InOrder(received[k], replayed[k])
          BY <3>1 DEF SinkOK
        <4> QED  BY <1>2, <3>1, <3>2, <4>1, AppendInOrder
      <3>4. InOrder(received'[k], replayed'[k])
        BY <1>1, <1>4, <2>2, <3>3
      <3>5. replayed'[k] < Len(received'[k])
        BY <1>1, <1>4, <2>2, <3>1
      <3>6. replayed'[k] # Len(received'[k]) /\ replayed'[k] <= Len(received'[k])
        BY <1>1, <1>4, <2>2, <3>1
      <3>7. received'[k][Len(received'[k])] = Dispatched'
        BY <1>3, <1>4, <2>2
      <3> QED  BY <1>1, <3>1, <3>4, <3>6, <3>7 DEF SinkOK
    <2> QED  BY <2>1, <2>2
  <1> QED  BY <1>6, <1>7 DEF SinkInv

(* A new sink is shown the cache.                                          *)
LEMMA ReplaySinks ==
    ASSUME SinkInv, CacheInv, NEW k \in Sinks, StartReplay(k)
    PROVE  SinkInv'
  <1>1. /\ task[k] = "none" /\ task' = [task EXCEPT ![k] = "replayed"]
        /\ received' = [received EXCEPT ![k] = @ \o Replay]
        /\ replayed' = [replayed EXCEPT ![k] = Len(Replay)]
        /\ UNCHANGED <<gops, sourceSinks, pushing, made, keyFrame, taken, stopped>>
    BY DEF StartReplay, ReplayTo
  <1>2. CacheInv' /\ Saved' = Saved /\ Dispatched' = Dispatched
    BY <1>1, CacheKept
  <1>3. PICK s : s = Replay
    OBVIOUS
  <1>4. s = << >> \/ \E a \in Nat, n \in Nat \ {0} : s = Run(a, n)
                                                /\ a + n - 1 = Saved
    BY <1>3, ReplayIsRun
  <1>5. /\ s \in Seq(Nat) /\ Len(s) \in Nat /\ InOrder(s, Len(s))
        /\ s # << >> => s[Len(s)] <= Saved
    <2>1. CASE s = << >>
      BY <2>1 DEF InOrder
    <2>2. CASE s # << >>
      <3>1. PICK a \in Nat, n \in Nat \ {0} : s = Run(a, n) /\ a + n - 1 = Saved
        BY <1>4, <2>2
      <3>2. /\ s \in Seq(Nat) /\ Len(s) = n
            /\ \A i \in 1 .. n : s[i] = a + i - 1
        BY <3>1, RunType
      <3>3. InOrder(s, Len(s))
        BY <3>1, RunInOrder
      <3>4. s[Len(s)] = Saved
        BY <3>1, <3>2
      <3>5. Saved <= Saved
        BY SavedType
      <3> QED  BY <3>2, <3>3, <3>4, <3>5
    <2> QED  BY <2>1, <2>2
  <1>6. /\ SinkOK(k) /\ received[k] = << >> /\ k \notin sourceSinks
        /\ taken[k] \in Nat /\ taken[k] <= Len(received[k])
    BY <1>1 DEF SinkInv, SinkTypeOK, SinkOK
  <1>7. /\ received'[k] = s /\ replayed'[k] = Len(s)
        /\ task'[k] = "replayed" /\ k \notin sourceSinks'
    <2>1. received[k] \o s = s
      BY <1>5, <1>6, ConcatEmptySeq
    <2> QED  BY <1>1, <1>3, <1>6, <2>1 DEF SinkInv, SinkTypeOK
  <1>8. ASSUME NEW j \in Sinks, j # k
        PROVE  received'[j] = received[j] /\ replayed'[j] = replayed[j]
               /\ task'[j] = task[j]
    BY <1>1, <1>8 DEF SinkInv, SinkTypeOK
  <1>9. SinkTypeOK'
    <2>1. /\ received' \in [Sinks -> Seq(Nat)]
          /\ replayed' \in [Sinks -> Nat]
      <3>1. \A j \in Sinks : received'[j] \in Seq(Nat) /\ replayed'[j] \in Nat
        BY <1>5, <1>7, <1>8 DEF SinkInv, SinkTypeOK
      <3>2. DOMAIN received' = Sinks /\ DOMAIN replayed' = Sinks
        BY <1>1 DEF SinkInv, SinkTypeOK
      <3> QED  BY <1>1, <3>1, <3>2 DEF SinkInv, SinkTypeOK
    <2>2. ASSUME NEW j \in Sinks PROVE taken'[j] <= Len(received'[j])
      <3>1. CASE j = k
        BY <1>1, <1>5, <1>6, <1>7, <3>1
      <3>2. CASE j # k
        BY <1>1, <1>8, <3>2 DEF SinkInv, SinkTypeOK
      <3> QED  BY <3>1, <3>2
    <2>3. task' \in [Sinks -> {"none", "replayed", "check", "recv", "ended"}]
      BY <1>1 DEF SinkInv, SinkTypeOK
    <2> QED  BY <1>1, <2>1, <2>2, <2>3 DEF SinkInv, SinkTypeOK
  <1>10. ASSUME NEW j \in Sinks PROVE SinkOK(j)'
    <2>1. CASE j = k
      BY <1>2, <1>5, <1>7, <2>1 DEF SinkOK
    <2>2. CASE j # k
      <3>1. SinkOK(j)
        BY DEF SinkInv
      <3> QED  BY <1>1, <1>2, <1>8, <2>2, <3>1 DEF SinkOK
    <2> QED  BY <2>1, <2>2
  <1> QED  BY <1>9, <1>10 DEF SinkInv

LEMMA NextInv == IInv /\ [Next]_vars => IInv'
  <1> SUFFICES ASSUME CacheInv, SinkInv, [Next]_vars PROVE CacheInv' /\ SinkInv'
    BY DEF IInv
  <1>0. /\ Saved \in Nat /\ Saved >= Saved
        /\ \A k \in Sinks : SinkOK(k) /\ taken[k] \in Nat
        /\ SinkTypeOK
    BY SavedType DEF SinkInv, SinkTypeOK
  <1>1. ASSUME NEW key \in BOOLEAN, Assemble(key), UNCHANGED taskVars
        PROVE  CacheInv' /\ SinkInv'
    <2>1. CacheInv' /\ Saved' = Saved /\ Dispatched' = Dispatched
      BY <1>1, AssembleCache
    <2>2. UNCHANGED <<received, replayed, sourceSinks, task, taken, stopped>>
      BY <1>1 DEF Assemble, taskVars
    <2>3. SinkTypeOK'
      BY <1>0, <2>2 DEF SinkTypeOK
    <2>4. \A k \in Sinks : task[k] \in {"none", "replayed"} => k \notin sourceSinks
      BY <1>0 DEF SinkOK
    <2> QED  BY <1>0, <2>1, <2>2, <2>3, <2>4, SinksQuiet
  <1>2. ASSUME SaveFrame, UNCHANGED taskVars
        PROVE  CacheInv' /\ SinkInv'
    <2>1. CacheInv' /\ Saved' >= Saved /\ Dispatched' = Dispatched
      BY <1>2, SaveCache
    <2>2. UNCHANGED <<received, replayed, sourceSinks, task, taken, stopped>>
      BY <1>2 DEF SaveFrame, taskVars
    <2>3. SinkTypeOK'
      BY <1>0, <2>2 DEF SinkTypeOK
    <2>4. \A k \in Sinks : task[k] \in {"none", "replayed"} => k \notin sourceSinks
      BY <1>0 DEF SinkOK
    <2> QED  BY <1>0, <2>1, <2>2, <2>3, <2>4, SinksQuiet
  <1>3. ASSUME Dispatch, UNCHANGED taskVars
        PROVE  CacheInv' /\ SinkInv'
    BY <1>3, DispatchCache, DispatchSinks
  <1>4. ASSUME Reset, UNCHANGED taskVars
        PROVE  CacheInv' /\ SinkInv'
    <2>1. CacheInv' /\ Saved' = Saved /\ Dispatched' = Dispatched
      BY <1>4, ResetCache
    <2>2. UNCHANGED <<received, replayed, sourceSinks, task, taken, stopped>>
      BY <1>4 DEF Reset, taskVars
    <2>3. SinkTypeOK'
      BY <1>0, <2>2 DEF SinkTypeOK
    <2>4. \A k \in Sinks : task[k] \in {"none", "replayed"} => k \notin sourceSinks
      BY <1>0 DEF SinkOK
    <2> QED  BY <1>0, <2>1, <2>2, <2>3, <2>4, SinksQuiet
  <1>5. ASSUME NEW k \in Sinks, StartReplay(k)
        PROVE  CacheInv' /\ SinkInv'
    <2>1. UNCHANGED <<gops, pushing, made, keyFrame>>
      BY <1>5 DEF StartReplay, ReplayTo
    <2> QED  BY <1>5, <2>1, CacheKept, ReplaySinks
  <1>6. ASSUME NEW k \in Sinks, StartTask(k)
        PROVE  CacheInv' /\ SinkInv'
    <2>1. /\ UNCHANGED <<gops, pushing, made, keyFrame, received, replayed>>
          /\ UNCHANGED <<taken, stopped>>
          /\ sourceSinks' = sourceSinks \cup {k} /\ task[k] = "replayed"
          /\ task' = [task EXCEPT ![k] = "check"]
      BY <1>6 DEF StartTask, Subscribe
    <2>2. CacheInv' /\ Saved' = Saved /\ Dispatched' = Dispatched
      BY <2>1, CacheKept
    <2>3. SinkTypeOK'
      BY <1>0, <2>1 DEF SinkTypeOK
    <2>4. ASSUME NEW j \in Sinks
          PROVE  /\ task'[j] = "none" => task[j] = "none"
                 /\ task'[j] \in {"none", "replayed"} =>
                        /\ task[j] \in {"none", "replayed"}
                        /\ j \notin sourceSinks'
                 /\ j \in sourceSinks' =>
                        j \in sourceSinks \/ task[j] = "replayed"
      <3>1. task'[j] = IF j = k THEN "check" ELSE task[j]
        BY <1>0, <2>1 DEF SinkTypeOK
      <3> QED  BY <1>0, <2>1, <3>1 DEF SinkOK
    <2> QED  BY <1>0, <2>1, <2>2, <2>3, <2>4, SinksQuiet
  <1>7. ASSUME NEW k \in Sinks,
               StopRecording(k) \/ TaskCheck(k) \/ TaskReceive(k) \/ TaskClosed(k)
        PROVE  CacheInv' /\ SinkInv'
    <2>1. UNCHANGED streamVars
      BY <1>7 DEF StopRecording, TaskCheck, TaskReceive, TaskClosed
    <2>2. UNCHANGED <<gops, sourceSinks, pushing, made, keyFrame, received, replayed>>
      BY <2>1 DEF streamVars
    <2>3. CacheInv' /\ Saved' = Saved /\ Dispatched' = Dispatched
      BY <2>2, CacheKept
    <2>4. task' = task \/ \E l \in {"check", "recv", "ended"} :
              task[k] \in {"check", "recv"} /\ task' = [task EXCEPT ![k] = l]
      BY <1>7 DEF StopRecording, TaskCheck, TaskReceive, TaskClosed
    <2>5. /\ stopped' = stopped \/ stopped' = [stopped EXCEPT ![k] = TRUE]
          /\ taken' = taken \/ (/\ taken[k] < Len(received[k])
                                /\ taken' = [taken EXCEPT ![k] = @ + 1])
      BY <1>7 DEF StopRecording, TaskCheck, TaskReceive, TaskClosed
    <2>6. SinkTypeOK'
      <3>1. task' \in [Sinks -> {"none", "replayed", "check", "recv", "ended"}]
        BY <1>0, <2>4 DEF SinkTypeOK
      <3>2. stopped' \in [Sinks -> BOOLEAN]
        BY <1>0, <2>5 DEF SinkTypeOK
      <3>3. taken' \in [Sinks -> Nat]
        BY <1>0, <2>5 DEF SinkTypeOK
      <3>4. ASSUME NEW j \in Sinks PROVE taken'[j] <= Len(received'[j])
        <4>1. Len(received[j]) \in Nat /\ taken[j] \in Nat /\ taken[j] <= Len(received[j])
          BY <1>0 DEF SinkTypeOK
        <4>2. taken'[j] = taken[j]
              \/ (taken'[j] = taken[j] + 1 /\ taken[j] < Len(received[j]))
          BY <1>0, <2>5 DEF SinkTypeOK
        <4> QED  BY <2>2, <4>1, <4>2
      <3> QED  BY <1>0, <2>2, <3>1, <3>2, <3>3, <3>4 DEF SinkTypeOK
    <2>7. ASSUME NEW j \in Sinks
          PROVE  /\ task'[j] = "none" => task[j] = "none"
                 /\ task'[j] \in {"none", "replayed"} =>
                        /\ task[j] \in {"none", "replayed"}
                        /\ j \notin sourceSinks'
      <3>1. task'[j] = task[j] \/ task'[j] \in {"check", "recv", "ended"}
        BY <1>0, <2>4 DEF SinkTypeOK
      <3>2. task[j] \in {"none", "replayed"} => j \notin sourceSinks
        BY <1>0 DEF SinkOK
      <3> QED  BY <2>2, <3>1, <3>2
    <2> QED  BY <1>0, <2>2, <2>3, <2>6, <2>7, SinksQuiet
  <1>8. ASSUME NEW k \in Sinks, RemoveSourceSink(k), UNCHANGED taskVars
        PROVE  CacheInv' /\ SinkInv'
    <2>1. /\ UNCHANGED <<gops, pushing, made, keyFrame, received, replayed>>
          /\ UNCHANGED <<task, taken, stopped>>
          /\ sourceSinks' = sourceSinks \ {k}
      BY <1>8 DEF RemoveSourceSink, taskVars
    <2>2. CacheInv' /\ Saved' = Saved /\ Dispatched' = Dispatched
      BY <2>1, CacheKept
    <2>3. SinkTypeOK'
      BY <1>0, <2>1 DEF SinkTypeOK
    <2>4. \A j \in Sinks : task[j] \in {"none", "replayed"} => j \notin sourceSinks'
      BY <1>0, <2>1 DEF SinkOK
    <2> QED  BY <1>0, <2>1, <2>2, <2>3, <2>4, SinksQuiet
  <1>9. ASSUME UNCHANGED vars
        PROVE  CacheInv' /\ SinkInv'
    <2>1. /\ UNCHANGED <<gops, sourceSinks, pushing, made, keyFrame, received, replayed>>
          /\ UNCHANGED <<task, taken, stopped>>
      BY <1>9 DEF vars, streamVars, taskVars
    <2>2. CacheInv' /\ Saved' = Saved /\ Dispatched' = Dispatched
      BY <2>1, CacheKept
    <2>3. SinkTypeOK'
      BY <1>0, <2>1 DEF SinkTypeOK
    <2>4. \A j \in Sinks : task[j] \in {"none", "replayed"} => j \notin sourceSinks
      BY <1>0 DEF SinkOK
    <2> QED  BY <1>0, <2>1, <2>2, <2>3, <2>4, SinksQuiet
  <1> QED
    BY <1>1, <1>2, <1>3, <1>4, <1>5, <1>6, <1>7, <1>8, <1>9 DEF Next, PushPacket

LEMMA InvHolds == Spec => []IInv
  BY InitInv, NextInv, PTL DEF Spec

----------------------------------------------------------------------------
(* Groups, counters and recordings keep their ranges: in particular no     *)
(* cached group is empty, and a task takes no more frames than its channel *)
(* was given (lib.rs:121-157, recorder.rs:400-406).                        *)
THEOREM TypeCorrect == Spec => []TypeOK
<1>1. ASSUME IInv PROVE TypeOK
  <2> USE <1>1 DEF IInv, SinkInv
  <2>1. StreamTypeOK
    <3>1. ASSUME NEW i \in DOMAIN gops PROVE Len(gops[i]) \in 1 .. MaxFramesPerGop
      <4>1. Chained(gops) /\ i \in 1 .. Len(gops)
        BY DEF CacheInv, Chained
      <4>2. Len(gops[i]) \in Nat /\ Len(gops[i]) >= 1
        BY <4>1, ChainedType
      <4>3. Len(gops[i]) <= MaxFramesPerGop
        BY <4>1 DEF CacheInv
      <4> QED  BY <4>2, <4>3, StreamAssumption
    <3> QED  BY <3>1 DEF StreamTypeOK, CacheInv, SinkTypeOK
  <2>2. ASSUME NEW k \in Sinks
        PROVE  /\ taken[k] \in 0 .. Len(received[k])
               /\ replayed[k] \in 0 .. Len(received[k])
    <3>1. /\ Len(received[k]) \in Nat /\ taken[k] \in Nat /\ replayed[k] \in Nat
          /\ taken[k] <= Len(received[k])
      BY DEF SinkTypeOK
    <3>2. replayed[k] <= Len(received[k])
      BY DEF SinkOK
    <3> QED  BY <3>1, <3>2
  <2> QED  BY <2>1, <2>2 DEF TypeOK, SinkTypeOK
<1> QED
  BY <1>1, InvHolds, PTL

(* The cache is always a gapless suffix of the stream, ending with the     *)
(* last frame saved, and within its limits (lib.rs:121-157).  The proof    *)
(* rests on CacheInv: what is replayed is one run (FlattenChained).        *)
THEOREM CacheIsRecentCorrect == Spec => []CacheIsRecent
<1>1. ASSUME IInv PROVE CacheIsRecent
  <2> USE <1>1 DEF IInv
  <2>1. /\ Len(gops) <= GopCount
        /\ \A i \in DOMAIN gops : Len(gops[i]) <= MaxFramesPerGop
    BY DEF CacheInv, Chained
  <2>2. PICK s : s = Replay
    OBVIOUS
  <2>3. s = << >> \/ \E a \in Nat, n \in Nat \ {0} : s = Run(a, n)
                                                /\ a + n - 1 = Saved
    BY <2>2, ReplayIsRun
  <2>4. \A i \in 1 .. Len(s) : s[i] = Saved - Len(s) + i
    <3>1. CASE s = << >>
      BY <3>1
    <3>2. CASE s # << >>
      <4>1. PICK a \in Nat, n \in Nat \ {0} : s = Run(a, n) /\ a + n - 1 = Saved
        BY <2>3, <3>2
      <4>2. Len(s) = n /\ \A i \in 1 .. n : s[i] = a + i - 1
        BY <4>1, RunType
      <4> QED  BY <4>1, <4>2
    <3> QED  BY <3>1, <3>2
  <2> QED  BY <2>1, <2>2, <2>4 DEF CacheIsRecent
<1> QED
  BY <1>1, InvHolds, PTL

(* A recording gets its frames in order; only between the replay of the    *)
(* cache and the first live frame may one be missing or come twice, since  *)
(* add_source_sink takes two locks there (lib.rs:253-266, 299-309).  The   *)
(* proof rests on SinkInv, which ties the last frame of a subscribed sink  *)
(* to the push under way.                                                  *)
THEOREM FramesInOrderCorrect == Spec => []FramesInOrder
<1>1. ASSUME IInv PROVE FramesInOrder
  <2>1. \A k \in Sinks : InOrder(received[k], replayed[k])
    BY <1>1 DEF IInv, SinkInv, SinkOK
  <2> QED  BY <2>1 DEF FramesInOrder, InOrder
<1> QED
  BY <1>1, InvHolds, PTL
============================================================================
