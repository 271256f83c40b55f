------------------------ MODULE CircuitBreakerProofs ------------------------
(***************************************************************************)
(* The circuit breaker implements module Breaker, for any number of callers *)
(* and any configuration.                                                   *)
(*                                                                         *)
(* Part 1: the ring buffer is the sequence of the last outcomes, and        *)
(*         counting its failures slot by slot counts those of the sequence. *)
(* Part 2: the invariant, that no call of the present generation is awaited *)
(*         while the breaker is open.                                       *)
(* Part 3: every step of the breaker is a step of Breaker, a stutter, or    *)
(*         the late report of a caller of Allow.                            *)
(***************************************************************************)
EXTENDS CircuitBreaker, FunctionTheorems, FiniteSetTheorems, TLAPS

\* The assumptions on the configuration, one by one.
LEMMA ConfigTypes ==
  /\ WindowSize \in Nat \ {0} /\ MinRequests \in Nat \ {0} /\ MaxRequests \in Nat \ {0}
  /\ Num \in Nat /\ Den \in Nat /\ MaxGeneration \in Nat
  BY BreakerAssumption

-----------------------------------------------------------------------------
(* Part 1: the ring buffer                                                 *)

\* The slot of the i-th oldest of n outcomes, when the next one goes to pos.
Slot(pos, n, i) == (pos + WindowSize - n + i - 1) % WindowSize

\* The outcomes of a ring w, oldest first.
Oldest(w, pos, n) == [i \in 1 .. n |-> w[Slot(pos, n, i)]]

\* A position is at most once around the ring.
LEMMA SlotValue ==
  ASSUME NEW pos \in 0 .. WindowSize - 1, NEW n \in 0 .. WindowSize, NEW i \in 1 .. n
  PROVE  LET x == pos + WindowSize - n + i - 1
         IN  /\ Slot(pos, n, i) = IF x < WindowSize THEN x ELSE x - WindowSize
             /\ Slot(pos, n, i) \in 0 .. WindowSize - 1
<1> DEFINE x == pos + WindowSize - n + i - 1
<1>0. WindowSize \in Nat \ {0}
  BY ConfigTypes
<1>1. x \in 0 .. 2 * WindowSize - 1
  BY <1>0
<1> HIDE DEF x
<1>2. x % WindowSize = IF x < WindowSize THEN x ELSE x - WindowSize
  BY <1>0, <1>1
<1> QED BY <1>0, <1>1, <1>2 DEF Slot, x

\* The position after pos.
LEMMA NextPosition ==
  ASSUME NEW pos \in 0 .. WindowSize - 1
  PROVE  /\ (pos + 1) % WindowSize = IF pos + 1 < WindowSize THEN pos + 1 ELSE 0
         /\ (pos + 1) % WindowSize \in 0 .. WindowSize - 1
  BY ConfigTypes

\* While the ring is not full, an outcome goes behind the others.
LEMMA SlotsGrow ==
  ASSUME NEW pos \in 0 .. WindowSize - 1, NEW n \in 0 .. WindowSize - 1,
         NEW i \in 1 .. n + 1
  PROVE  Slot((pos + 1) % WindowSize, n + 1, i) = IF i = n + 1 THEN pos ELSE Slot(pos, n, i)
<1>0. WindowSize \in Nat \ {0}
  BY ConfigTypes
<1> DEFINE pos1 == (pos + 1) % WindowSize
<1>1. pos1 = (IF pos + 1 < WindowSize THEN pos + 1 ELSE 0) /\ pos1 \in 0 .. WindowSize - 1
  BY NextPosition
<1> HIDE DEF pos1
<1> DEFINE y == pos1 + WindowSize - (n + 1) + i - 1
<1>2. Slot(pos1, n + 1, i) = IF y < WindowSize THEN y ELSE y - WindowSize
  <2>1. n + 1 \in 0 .. WindowSize
    BY <1>0
  <2> QED BY <1>1, <2>1, SlotValue
<1>3. CASE i = n + 1
  BY <1>0, <1>1, <1>2, <1>3
<1>4. CASE i # n + 1
  <2> DEFINE x == pos + WindowSize - n + i - 1
  <2>1. i \in 1 .. n
    BY <1>0, <1>4
  <2>2. Slot(pos, n, i) = IF x < WindowSize THEN x ELSE x - WindowSize
    BY <1>0, <2>1, SlotValue
  <2> QED BY <1>0, <1>1, <1>2, <2>1, <2>2
<1> QED BY <1>3, <1>4 DEF pos1

\* When the ring is full, an outcome takes the slot of the oldest.
LEMMA SlotsTurn ==
  ASSUME NEW pos \in 0 .. WindowSize - 1, NEW i \in 1 .. WindowSize
  PROVE  Slot((pos + 1) % WindowSize, WindowSize, i) =
           IF i = WindowSize THEN pos ELSE Slot(pos, WindowSize, i + 1)
<1>0. WindowSize \in Nat \ {0}
  BY ConfigTypes
<1> DEFINE pos1 == (pos + 1) % WindowSize
<1>1. pos1 = (IF pos + 1 < WindowSize THEN pos + 1 ELSE 0) /\ pos1 \in 0 .. WindowSize - 1
  BY NextPosition
<1> HIDE DEF pos1
<1> DEFINE y == pos1 + WindowSize - WindowSize + i - 1
<1>2. Slot(pos1, WindowSize, i) = IF y < WindowSize THEN y ELSE y - WindowSize
  <2>1. WindowSize \in 0 .. WindowSize
    BY <1>0
  <2> QED BY <1>1, <2>1, SlotValue
<1>3. CASE i = WindowSize
  BY <1>0, <1>1, <1>2, <1>3
<1>4. CASE i # WindowSize
  <2> DEFINE x == pos + WindowSize - WindowSize + (i + 1) - 1
  <2>1. i + 1 \in 1 .. WindowSize
    BY <1>0, <1>4
  <2>2. Slot(pos, WindowSize, i + 1) = IF x < WindowSize THEN x ELSE x - WindowSize
    BY <1>0, <2>1, SlotValue
  <2> QED BY <1>0, <1>1, <1>2, <1>4, <2>2
<1> QED BY <1>3, <1>4 DEF pos1

\* No two outcomes share a slot, and the slot written next is used only by
\* the oldest outcome of a full ring.
LEMMA SlotsApart ==
  ASSUME NEW pos \in 0 .. WindowSize - 1, NEW n \in 0 .. WindowSize,
         NEW i \in 1 .. n
  PROVE  /\ \A j \in 1 .. n : Slot(pos, n, i) = Slot(pos, n, j) => i = j
         /\ Slot(pos, n, i) = pos => n = WindowSize /\ i = 1
<1>0. WindowSize \in Nat \ {0}
  BY ConfigTypes
<1>1. ASSUME NEW j \in 1 .. n, Slot(pos, n, i) = Slot(pos, n, j) PROVE i = j
  <2> DEFINE x == pos + WindowSize - n + i - 1
             y == pos + WindowSize - n + j - 1
  <2>1. Slot(pos, n, i) = IF x < WindowSize THEN x ELSE x - WindowSize
    BY SlotValue
  <2>2. Slot(pos, n, j) = IF y < WindowSize THEN y ELSE y - WindowSize
    BY SlotValue
  <2>3. /\ x \in Int /\ y \in Int /\ (x = y => i = j)
        /\ x < y + WindowSize /\ y < x + WindowSize
    BY <1>0
  <2>4. (IF x < WindowSize THEN x ELSE x - WindowSize)
          = (IF y < WindowSize THEN y ELSE y - WindowSize)
    BY <1>1, <2>1, <2>2
  <2> HIDE DEF x, y
  <2>5. x = y
    BY <1>0, <2>3, <2>4
  <2> QED BY <2>3, <2>5
<1>2. ASSUME Slot(pos, n, i) = pos PROVE n = WindowSize /\ i = 1
  <2> DEFINE x == pos + WindowSize - n + i - 1
  <2>1. Slot(pos, n, i) = IF x < WindowSize THEN x ELSE x - WindowSize
    BY SlotValue
  <2> QED BY <1>0, <1>2, <2>1
<1> QED BY <1>1, <1>2

\* recordOutcome turns the ring w, pos, n into w1, pos1, n1.
Records(ok, w, pos, n, w1, pos1, n1) ==
  /\ w1 = [w EXCEPT ![pos] = ok]
  /\ pos1 = (pos + 1) % WindowSize
  /\ n1 = IF n < WindowSize THEN n + 1 ELSE n

LEMMA LongTail ==
  ASSUME NEW S, NEW t \in Seq(S), NEW k \in Nat, Len(t) = k + 1
  PROVE  /\ Tail(t) \in Seq(S) /\ Len(Tail(t)) = k
         /\ \A i \in 1 .. k : Tail(t)[i] = t[i + 1]
  OBVIOUS

\* recordOutcome appends an outcome to the last ones and forgets the oldest
\* when the window is full.
LEMMA RecordAppends ==
  ASSUME NEW S, NEW w \in [0 .. WindowSize - 1 -> S], NEW ok \in S,
         NEW pos \in 0 .. WindowSize - 1, NEW n \in 0 .. WindowSize,
         NEW w1, NEW pos1, NEW n1, Records(ok, w, pos, n, w1, pos1, n1)
  PROVE  Oldest(w1, pos1, n1) = Promise!LastN(Append(Oldest(w, pos, n), ok))
<1> DEFINE s == Oldest(w, pos, n)
           s1 == Oldest(w1, pos1, n1)
<1>0. WindowSize \in Nat \ {0} /\ pos1 \in 0 .. WindowSize - 1
  BY ConfigTypes, NextPosition DEF Records
<1>1. w1 \in [0 .. WindowSize - 1 -> S] /\ w1[pos] = ok
      /\ \A k \in 0 .. WindowSize - 1 : k # pos => w1[k] = w[k]
  BY DEF Records
<1>2. /\ s \in Seq(S) /\ Len(s) = n
      /\ \A i \in 1 .. n : s[i] = w[Slot(pos, n, i)]
  <2>1. \A i \in 1 .. n : w[Slot(pos, n, i)] \in S
    BY SlotValue
  <2> QED BY <1>0, <2>1 DEF Oldest
<1>3. /\ s1 \in Seq(S) /\ Len(s1) = n1 /\ n1 \in 0 .. WindowSize
      /\ \A i \in 1 .. n1 : s1[i] = w1[Slot(pos1, n1, i)]
  <2>0. n1 \in 0 .. WindowSize
    BY <1>0 DEF Records
  <2>1. \A i \in 1 .. n1 : w1[Slot(pos1, n1, i)] \in S
    BY <1>0, <1>1, <2>0, SlotValue
  <2> QED BY <1>0, <2>0, <2>1 DEF Oldest
<1> HIDE DEF s, s1
<1>4. CASE n < WindowSize
  <2>1. n1 = n + 1 /\ n \in 0 .. WindowSize - 1
    BY <1>0, <1>4 DEF Records
  <2>2. \A i \in 1 .. n : s1[i] = s[i]
    <3> TAKE i \in 1 .. n
    <3>1. i \in 1 .. n1 /\ i \in 1 .. n + 1 /\ i # n + 1
      BY <2>1
    <3>2. Slot(pos1, n1, i) = Slot(pos, n, i)
      BY <2>1, <3>1, SlotsGrow DEF Records
    <3>3. Slot(pos, n, i) # pos /\ Slot(pos, n, i) \in 0 .. WindowSize - 1
      <4>1. n # WindowSize
        BY <1>0, <1>4
      <4> QED BY <4>1, SlotsApart, SlotValue
    <3> QED BY <1>1, <1>2, <1>3, <3>1, <3>2, <3>3
  <2>3. s1[n + 1] = ok
    <3>1. n + 1 \in 1 .. n1 /\ n + 1 \in 1 .. n + 1
      BY <2>1
    <3>2. Slot(pos1, n1, n + 1) = pos
      BY <2>1, <3>1, SlotsGrow DEF Records
    <3> QED BY <1>1, <1>3, <3>1, <3>2
  <2>4. s1 = Append(s, ok)
    BY <1>2, <1>3, <2>1, <2>2, <2>3
  <2>5. Promise!LastN(Append(s, ok)) = Append(s, ok)
    BY <1>0, <1>2, <1>4 DEF Promise!LastN
  <2> QED BY <2>4, <2>5 DEF s, s1
<1>5. CASE n = WindowSize
  <2>1. n1 = WindowSize
    BY <1>0, <1>5 DEF Records
  <2>2. ASSUME NEW i \in 1 .. WindowSize, i # WindowSize PROVE s1[i] = s[i + 1]
    <3>1. i + 1 \in 1 .. WindowSize /\ i + 1 # 1
      BY <1>0, <2>2
    <3>2. Slot(pos1, n1, i) = Slot(pos, n, i + 1)
      BY <1>5, <2>1, <2>2, SlotsTurn DEF Records
    <3>3. Slot(pos, n, i + 1) # pos /\ Slot(pos, n, i + 1) \in 0 .. WindowSize - 1
      BY <1>5, <3>1, SlotsApart, SlotValue
    <3> QED BY <1>1, <1>2, <1>3, <1>5, <2>1, <3>1, <3>2, <3>3
  <2>3. s1[WindowSize] = ok
    <3>1. WindowSize \in 1 .. WindowSize
      BY <1>0
    <3>2. Slot(pos1, n1, WindowSize) = pos
      BY <2>1, <3>1, SlotsTurn DEF Records
    <3> QED BY <1>1, <1>3, <2>1, <3>1, <3>2
  <2> DEFINE t == Append(s, ok)
  <2>4. /\ t \in Seq(S) /\ Len(t) = WindowSize + 1 /\ t[WindowSize + 1] = ok
        /\ \A i \in 1 .. WindowSize : t[i] = s[i]
    BY <1>0, <1>2, <1>5
  <2> HIDE DEF t
  <2>5. /\ Tail(t) \in Seq(S) /\ Len(Tail(t)) = WindowSize
        /\ \A i \in 1 .. WindowSize : Tail(t)[i] = t[i + 1]
    BY <1>0, <2>4, LongTail
  <2>6. \A i \in 1 .. WindowSize : s1[i] = Tail(t)[i]
    <3> TAKE i \in 1 .. WindowSize
    <3>1. CASE i = WindowSize
      BY <2>3, <2>4, <2>5, <3>1
    <3>2. CASE i # WindowSize
      <4>1. i + 1 \in 1 .. WindowSize
        BY <1>0, <3>2
      <4> QED BY <2>2, <2>4, <2>5, <3>2, <4>1
    <3> QED BY <3>1, <3>2
  <2>7. s1 = Tail(t)
    BY <1>3, <2>1, <2>5, <2>6
  <2>8. Promise!LastN(t) = Tail(t)
    BY <1>0, <2>4 DEF Promise!LastN
  <2> QED BY <2>7, <2>8 DEF s, s1, t
<1> QED BY <1>0, <1>4, <1>5

\* A ring that is not full yet fills its slots in order.
Filling(pos, n) == n < WindowSize => pos = n

\* The outcomes are in the first slots, and in each of them.
LEMMA SlotsCover ==
  ASSUME NEW pos \in 0 .. WindowSize - 1, NEW n \in 0 .. WindowSize, Filling(pos, n)
  PROVE  /\ \A i \in 1 .. n : Slot(pos, n, i) \in 0 .. n - 1
         /\ \A k \in 0 .. n - 1 : \E i \in 1 .. n : Slot(pos, n, i) = k
<1>0. WindowSize \in Nat \ {0}
  BY ConfigTypes
<1>1. ASSUME NEW i \in 1 .. n PROVE Slot(pos, n, i) \in 0 .. n - 1
  <2> DEFINE x == pos + WindowSize - n + i - 1
  <2>1. /\ Slot(pos, n, i) = IF x < WindowSize THEN x ELSE x - WindowSize
        /\ Slot(pos, n, i) \in 0 .. WindowSize - 1
    BY SlotValue
  <2>2. CASE n = WindowSize
    BY <2>1, <2>2
  <2>3. CASE n < WindowSize
    BY <1>0, <2>1, <2>3 DEF Filling
  <2> QED BY <1>0, <2>2, <2>3
<1>2. ASSUME NEW k \in 0 .. n - 1 PROVE \E i \in 1 .. n : Slot(pos, n, i) = k
  <2> DEFINE i == IF n < WindowSize THEN k + 1
                  ELSE IF k >= pos THEN k + 1 - pos ELSE k + 1 + WindowSize - pos
             x == pos + WindowSize - n + i - 1
  <2>1. i \in 1 .. n
    BY <1>0 DEF Filling
  <2>2. x = IF n < WindowSize \/ k < pos THEN k + WindowSize ELSE k
    BY <1>0 DEF Filling
  <2>3. Slot(pos, n, i) = IF x < WindowSize THEN x ELSE x - WindowSize
    <3> HIDE DEF i
    <3> QED BY <2>1, SlotValue
  <2>4. Slot(pos, n, i) = k
    <3> HIDE DEF i, x
    <3> QED BY <1>0, <2>2, <2>3
  <2> HIDE DEF i
  <2> QED BY <2>1, <2>4
<1> QED BY <1>1, <1>2

\* shouldTrip counts in the slots what the sequence holds.
LEMMA CountBySlots ==
  ASSUME NEW w \in [0 .. WindowSize - 1 -> BOOLEAN],
         NEW pos \in 0 .. WindowSize - 1, NEW n \in 0 .. WindowSize, Filling(pos, n)
  PROVE  Cardinality({i \in 1 .. n : ~Oldest(w, pos, n)[i]})
           = Cardinality({k \in 0 .. n - 1 : ~w[k]})
<1> DEFINE A == {i \in 1 .. n : ~Oldest(w, pos, n)[i]}
           B == {k \in 0 .. n - 1 : ~w[k]}
           f == [i \in A |-> Slot(pos, n, i)]
<1>0. WindowSize \in Nat \ {0} /\ n \in Nat
  BY ConfigTypes
<1>1. \A i \in 1 .. n : Oldest(w, pos, n)[i] = w[Slot(pos, n, i)]
  BY DEF Oldest
<1>2. \A i \in 1 .. n : Slot(pos, n, i) \in 0 .. n - 1
  BY SlotsCover
<1>3. \A k \in 0 .. n - 1 : \E i \in 1 .. n : Slot(pos, n, i) = k
  BY SlotsCover
<1>4. \A i, j \in 1 .. n : Slot(pos, n, i) = Slot(pos, n, j) => i = j
  BY SlotsApart
<1>5. f \in [A -> B]
  BY <1>1, <1>2
<1>6. \A i, j \in A : f[i] = f[j] => i = j
  BY <1>4
<1>7. \A k \in B : \E i \in A : f[i] = k
  BY <1>1, <1>3
<1>8. f \in Bijection(A, B)
  <2> HIDE DEF A, B, f
  <2> QED BY <1>5, <1>6, <1>7, Fun_IsBij
<1>9. ExistsBijection(A, B)
  BY <1>8 DEF ExistsBijection
<1>10. IsFiniteSet(A)
  <2>1. IsFiniteSet(1 .. n)
    BY <1>0, FS_Interval
  <2> QED BY <2>1, FS_Subset
<1> HIDE DEF A, B
<1>11. Cardinality(B) = Cardinality(A)
  BY <1>9, <1>10, FS_Bijection
<1> QED BY <1>11 DEF A, B

LEMMA SameCardinality == \A S : Promise!Cardinality(S) = Cardinality(S)
  BY Zenon DEF Promise!Cardinality, Cardinality

\* shouldTrip decides on the ring as the promise does on the sequence.
LEMMA TripAgrees ==
  ASSUME NEW w \in [0 .. WindowSize - 1 -> BOOLEAN],
         NEW pos \in 0 .. WindowSize - 1, NEW n \in 0 .. WindowSize, Filling(pos, n)
  PROVE  Promise!TooManyFailures(Oldest(w, pos, n))
           <=> /\ n >= MinRequests
               /\ Cardinality({k \in 0 .. n - 1 : ~w[k]}) * Den >= Num * n
<1> DEFINE s == Oldest(w, pos, n)
<1>0. WindowSize \in Nat \ {0} /\ n \in Nat
  BY ConfigTypes
<1>1. DOMAIN s = 1 .. n /\ Len(s) = n /\ \A i \in 1 .. n : s[i] \in BOOLEAN
  <2>1. \A i \in 1 .. n : w[Slot(pos, n, i)] \in BOOLEAN
    BY SlotValue
  <2> QED BY <1>0, <2>1 DEF Oldest
<1>2. Cardinality({i \in 1 .. n : ~s[i]}) = Cardinality({k \in 0 .. n - 1 : ~w[k]})
  BY CountBySlots, Zenon
<1> HIDE DEF s
<1>3. Cardinality({i \in DOMAIN s : ~s[i]}) = Cardinality({k \in 0 .. n - 1 : ~w[k]})
  BY <1>1, <1>2
<1>4. Promise!TooManyFailures(s)
        <=> /\ n >= MinRequests
            /\ Cardinality({k \in 0 .. n - 1 : ~w[k]}) * Den >= Num * n
  <2>1. Promise!TooManyFailures(s)
          <=> /\ Len(s) >= MinRequests
              /\ Cardinality({i \in DOMAIN s : ~s[i]}) * Den >= Num * Len(s)
    BY SameCardinality, Zenon DEF Promise!TooManyFailures
  <2> QED BY <1>1, <1>3, <2>1, Zenon
<1> QED BY <1>4 DEF s

-----------------------------------------------------------------------------
(* Part 2: the invariant                                                   *)

\* A call carries the generation that admitted it; an open breaker admitted
\* nobody, so the calls it still awaits are all of earlier generations.
CallsAreDated ==
  \A c \in Callers :
    /\ call[c].gen <= generation
    /\ state = "open" /\ call[c].pc # "idle" => call[c].gen < generation

BreakerInv == TypeOK /\ CallsAreDated /\ Filling(windowPos, windowLen)

Calls == [pc : {"idle", "execute", "allowed"}, gen : 0 .. MaxGeneration]

LEMMA InvInit == Init => BreakerInv
<1> SUFFICES ASSUME Init PROVE BreakerInv
  OBVIOUS
<1>1. Idle \in Calls /\ Idle.gen = 0 /\ Idle.pc = "idle"
  BY ConfigTypes DEF Idle, Calls
<1>2. TypeOK
  <2>1. call \in [Callers -> Calls]
    BY <1>1 DEF Init
  <2>2. /\ window \in [0 .. WindowSize - 1 -> BOOLEAN]
        /\ windowPos \in 0 .. WindowSize - 1 /\ windowLen \in 0 .. WindowSize
    BY ConfigTypes DEF Init
  <2>3. generation \in 0 .. MaxGeneration /\ halfOpenSuccesses \in 0 .. MaxRequests
    BY ConfigTypes DEF Init
  <2>4. state = "closed" /\ expired = FALSE /\ halfOpenRequests = 0 /\ leaked = 0
    BY DEF Init
  <2>5. state \in {"closed", "open", "half"} /\ expired \in BOOLEAN
    BY <2>4
  <2>6. halfOpenRequests \in Int /\ leaked \in Nat
    BY <2>4
  <2> QED BY <2>1, <2>2, <2>3, <2>5, <2>6 DEF TypeOK, Calls
<1> QED BY <1>1, <1>2 DEF Init, BreakerInv, CallsAreDated, Filling

\* newState, with the caller that brought it about, if any: a new generation
\* has no calls but those it admits.
LEMMA NewStateKeepsInv ==
  ASSUME BreakerInv, generation < MaxGeneration,
         NEW to \in {"closed", "open", "half"}, NEW trials \in {0, 1},
         NewCounters(to, trials),
         window' \in [0 .. WindowSize - 1 -> BOOLEAN],
         windowPos' \in 0 .. WindowSize - 1, windowLen' \in 0 .. WindowSize,
         Filling(windowPos', windowLen'),
         call' \in [Callers -> Calls],
         \A c \in Callers : \/ call'[c].gen <= generation
                            \/ to = "half" /\ call'[c].gen = generation + 1
  PROVE  BreakerInv'
<1>0. generation \in Nat /\ MaxGeneration \in Nat /\ generation + 1 \in 0 .. MaxGeneration
  BY ConfigTypes DEF BreakerInv, TypeOK
<1>1. /\ state' = to /\ generation' = generation + 1 /\ expired' = FALSE
      /\ halfOpenRequests' = trials /\ halfOpenSuccesses' = 0 /\ leaked' = 0
  BY DEF NewCounters
<1>2. TypeOK'
  <2>1. generation' \in 0 .. MaxGeneration /\ halfOpenSuccesses' \in 0 .. MaxRequests
        /\ halfOpenRequests' \in Int /\ leaked' \in Nat
    BY <1>0, <1>1, ConfigTypes
  <2> QED BY <1>1, <2>1 DEF TypeOK, Calls
<1>3. \A c \in Callers : call'[c].gen \in Nat
  BY <1>0 DEF Calls
<1>4. CallsAreDated'
  BY <1>0, <1>1, <1>3 DEF CallsAreDated
<1> QED BY <1>2, <1>4 DEF BreakerInv, Filling

\* The ring after recordOutcome.
LEMMA RecordType ==
  ASSUME BreakerInv, NEW ok \in BOOLEAN, RecordOutcome(ok)
  PROVE  /\ window' \in [0 .. WindowSize - 1 -> BOOLEAN]
         /\ windowPos' \in 0 .. WindowSize - 1 /\ windowLen' \in 0 .. WindowSize
         /\ Filling(windowPos', windowLen')
<1>0. /\ WindowSize \in Nat \ {0} /\ window \in [0 .. WindowSize - 1 -> BOOLEAN]
      /\ windowPos \in 0 .. WindowSize - 1 /\ windowLen \in 0 .. WindowSize
      /\ Filling(windowPos, windowLen)
  BY ConfigTypes DEF BreakerInv, TypeOK
<1>1. /\ window' = [window EXCEPT ![windowPos] = ok]
      /\ windowPos' = (windowPos + 1) % WindowSize
      /\ windowLen' = IF windowLen < WindowSize THEN windowLen + 1 ELSE windowLen
  BY DEF RecordOutcome
<1>2. /\ windowPos' = IF windowPos + 1 < WindowSize THEN windowPos + 1 ELSE 0
      /\ windowPos' \in 0 .. WindowSize - 1
  BY <1>0, <1>1, NextPosition
<1>3. window' \in [0 .. WindowSize - 1 -> BOOLEAN]
  BY <1>0, <1>1
<1>4. windowLen' \in 0 .. WindowSize /\ Filling(windowPos', windowLen')
  BY <1>0, <1>1, <1>2 DEF Filling
<1> QED BY <1>2, <1>3, <1>4

\* newState leaves the ring alone or clears it.
LEMMA NewStateRing ==
  ASSUME BreakerInv, NEW to, NEW trials, NewState(to, trials)
  PROVE  /\ window' \in [0 .. WindowSize - 1 -> BOOLEAN]
         /\ windowPos' \in 0 .. WindowSize - 1 /\ windowLen' \in 0 .. WindowSize
         /\ Filling(windowPos', windowLen')
<1>0. /\ WindowSize \in Nat \ {0} /\ window \in [0 .. WindowSize - 1 -> BOOLEAN]
      /\ windowPos \in 0 .. WindowSize - 1 /\ windowLen \in 0 .. WindowSize
      /\ Filling(windowPos, windowLen)
  BY ConfigTypes DEF BreakerInv, TypeOK
<1>1. CASE UNCHANGED ring
  BY <1>0, <1>1 DEF ring
<1>2. CASE /\ window' = [i \in DOMAIN window |-> FALSE]
           /\ windowPos' = 0 /\ windowLen' = 0
  BY <1>0, <1>2 DEF Filling
<1> QED BY <1>1, <1>2 DEF NewState

\* Report, by a caller that is then idle.
LEMMA ReportKeepsInv ==
  ASSUME BreakerInv, generation < MaxGeneration, NEW ok \in BOOLEAN, Report(ok),
         NEW c \in Callers, call' = [call EXCEPT ![c] = Idle]
  PROVE  BreakerInv'
<1>0. /\ Idle \in Calls /\ Idle.gen = 0 /\ Idle.pc = "idle"
      /\ generation \in Nat /\ call \in [Callers -> Calls]
      /\ halfOpenRequests \in Int /\ halfOpenSuccesses \in 0 .. MaxRequests
  BY ConfigTypes DEF Idle, Calls, BreakerInv, TypeOK
<1>1. /\ call' \in [Callers -> Calls]
      /\ \A d \in Callers : call'[d] = call[d] \/ call'[d] = Idle
  BY <1>0
<1>2. \A d \in Callers : call'[d].gen <= generation
  BY <1>0, <1>1 DEF BreakerInv, CallsAreDated
<1>3. \A d \in Callers : state = "open" /\ call'[d].pc # "idle" => call'[d].gen < generation
  BY <1>0, <1>1 DEF BreakerInv, CallsAreDated
<1>4. ASSUME UNCHANGED <<state, generation, expired, leaked>>,
             halfOpenRequests' \in Int, halfOpenSuccesses' \in 0 .. MaxRequests,
             window' \in [0 .. WindowSize - 1 -> BOOLEAN],
             windowPos' \in 0 .. WindowSize - 1, windowLen' \in 0 .. WindowSize,
             Filling(windowPos', windowLen')
      PROVE  BreakerInv'
  <2>1. TypeOK'
    BY <1>1, <1>4 DEF BreakerInv, TypeOK, Calls
  <2>2. CallsAreDated'
    BY <1>2, <1>3, <1>4 DEF CallsAreDated
  <2> QED BY <1>4, <2>1, <2>2 DEF BreakerInv, Filling
<1>5. ASSUME UNCHANGED ring
      PROVE  /\ window' \in [0 .. WindowSize - 1 -> BOOLEAN]
             /\ windowPos' \in 0 .. WindowSize - 1 /\ windowLen' \in 0 .. WindowSize
             /\ Filling(windowPos', windowLen')
  BY <1>5 DEF ring, BreakerInv, TypeOK
<1>6. CASE state = "closed" /\ RecordOutcome(ok)
  <2>1. CASE NewCounters("open", 0)
    BY <1>1, <1>2, <1>6, <2>1, RecordType, NewStateKeepsInv
  <2>2. CASE UNCHANGED <<state, generation, expired, halfOpenRequests, halfOpenSuccesses, leaked>>
    BY <1>0, <1>4, <1>6, <2>2, RecordType
  <2> QED BY <1>6, <2>1, <2>2 DEF Report
<1>7. ASSUME NEW to \in {"closed", "open"}, NewState(to, 0) PROVE BreakerInv'
  <2>1. NewCounters(to, 0)
    BY <1>7 DEF NewState
  <2> QED BY <1>1, <1>2, <1>7, <2>1, NewStateRing, NewStateKeepsInv
<1>8. CASE state = "half" /\ ok
  <2>1. CASE /\ halfOpenSuccesses + 1 < MaxRequests
             /\ halfOpenSuccesses' = halfOpenSuccesses + 1
             /\ halfOpenRequests' = halfOpenRequests - 1
             /\ UNCHANGED <<state, generation, expired, ring, leaked>>
    <3>1. halfOpenRequests' \in Int /\ halfOpenSuccesses' \in 0 .. MaxRequests
      BY <1>0, <2>1, ConfigTypes
    <3> QED BY <1>4, <1>5, <2>1, <3>1
  <2> QED BY <1>0, <1>7, <1>8, <2>1, ConfigTypes DEF Report
<1>9. CASE state = "open"
  <2>1. /\ halfOpenRequests' = halfOpenRequests - 1
        /\ UNCHANGED <<state, generation, expired, ring, halfOpenSuccesses, leaked>>
    BY <1>9 DEF Report
  <2> QED BY <1>0, <1>4, <1>5, <2>1
<1> QED BY <1>6, <1>7, <1>8, <1>9 DEF Report

\* beforeRequest: a request gets the generation that admits it.
LEMMA BeforeRequestKeepsInv ==
  ASSUME BreakerInv, generation < MaxGeneration,
         NEW c \in Callers, NEW pc \in {"execute", "allowed"}, BeforeRequest(c, pc)
  PROVE  BreakerInv'
<1> DEFINE r(g) == [pc |-> pc, gen |-> g]
<1>0. /\ generation \in Nat /\ generation \in 0 .. MaxGeneration
      /\ generation + 1 \in 0 .. MaxGeneration /\ call \in [Callers -> Calls]
      /\ halfOpenRequests \in Int
  BY ConfigTypes DEF BreakerInv, TypeOK, Calls
<1>1. \A g \in 0 .. MaxGeneration : r(g) \in Calls /\ r(g).gen = g
  BY DEF Calls
<1> HIDE DEF r
<1>2. ASSUME NEW g \in 0 .. MaxGeneration, call' = [call EXCEPT ![c] = r(g)]
      PROVE  /\ call' \in [Callers -> Calls]
             /\ \A d \in Callers : call'[d] = call[d] \/ call'[d].gen = g
  BY <1>0, <1>1, <1>2
<1>3. CASE /\ state # "open"
           /\ call' = [call EXCEPT ![c] = r(generation)]
           /\ halfOpenRequests' \in Int
           /\ UNCHANGED <<state, generation, expired, ring, halfOpenSuccesses, leaked>>
  <2>1. TypeOK'
    BY <1>0, <1>2, <1>3 DEF BreakerInv, TypeOK, ring, Calls
  <2>2. \A d \in Callers : call'[d].gen <= generation
    <3>1. \A d \in Callers : call'[d] = call[d] \/ call'[d].gen = generation
      BY <1>0, <1>2, <1>3
    <3> QED BY <1>0, <3>1 DEF BreakerInv, CallsAreDated
  <2>3. CallsAreDated'
    BY <1>3, <2>2 DEF CallsAreDated
  <2> QED BY <1>3, <2>1, <2>3 DEF BreakerInv, ring, Filling
<1>4. CASE NewState("half", 1) /\ call' = [call EXCEPT ![c] = r(generation + 1)]
  <2>1. NewCounters("half", 1)
    BY <1>4 DEF NewState
  <2>2. \A d \in Callers : call'[d].gen <= generation \/ call'[d].gen = generation + 1
    BY <1>0, <1>2, <1>4 DEF BreakerInv, CallsAreDated
  <2> QED BY <1>0, <1>2, <1>4, <2>1, <2>2, NewStateRing, NewStateKeepsInv
<1>5. halfOpenRequests + 1 \in Int
  BY <1>0
<1> QED BY <1>0, <1>3, <1>4, <1>5 DEF BeforeRequest, Recovered, r

LEMMA InvStep == BreakerInv /\ [Next]_vars => BreakerInv'
<1> SUFFICES ASSUME BreakerInv, [Next]_vars PROVE BreakerInv'
  OBVIOUS
<1>0. /\ Idle \in Calls /\ Idle.gen = 0 /\ Idle.pc = "idle"
      /\ generation \in Nat /\ call \in [Callers -> Calls]
  BY ConfigTypes DEF Idle, Calls, BreakerInv, TypeOK
<1>1. CASE UNCHANGED vars
  BY <1>1 DEF vars, ring, BreakerInv, TypeOK, CallsAreDated, Filling
<1>2. ASSUME NEW c \in Callers, call' = [call EXCEPT ![c] = Idle], leaked' \in Nat,
             UNCHANGED <<state, generation, expired, ring, halfOpenRequests, halfOpenSuccesses>>
      PROVE  BreakerInv'
  <2>1. call' \in [Callers -> Calls] /\ \A d \in Callers : call'[d] = call[d] \/ call'[d] = Idle
    BY <1>0, <1>2
  <2>2. TypeOK'
    BY <1>2, <2>1 DEF BreakerInv, TypeOK, ring, Calls
  <2>3. CallsAreDated'
    BY <1>0, <1>2, <2>1 DEF BreakerInv, CallsAreDated
  <2> QED BY <1>2, <2>2, <2>3 DEF BreakerInv, ring, Filling
<1>3. ASSUME generation < MaxGeneration, NEW to \in {"closed", "half"}, NewState(to, 0),
             UNCHANGED call
      PROVE  BreakerInv'
  <2>1. NewCounters(to, 0) /\ \A c \in Callers : call'[c].gen <= generation
    BY <1>3 DEF NewState, BreakerInv, CallsAreDated
  <2> QED BY <1>0, <1>3, <2>1, NewStateRing, NewStateKeepsInv
<1>4. ASSUME generation < MaxGeneration, NEW c \in Callers, CallReturns(c) PROVE BreakerInv'
  <2>1. PICK ok \in BOOLEAN : AfterRequest(c, ok) \/ Mark(c, ok)
    BY <1>4 DEF CallReturns
  <2>2. call' = [call EXCEPT ![c] = Idle]
    BY <2>1 DEF AfterRequest, Mark
  <2>3. CASE Report(ok)
    BY <1>4, <2>2, <2>3, ReportKeepsInv
  <2>4. CASE UNCHANGED <<state, generation, expired, ring, halfOpenRequests,
                         halfOpenSuccesses, leaked>>
    <3>1. leaked' \in Nat
      BY <2>4 DEF BreakerInv, TypeOK
    <3> QED BY <1>2, <2>2, <2>4, <3>1
  <2> QED BY <2>1, <2>3, <2>4 DEF AfterRequest, Mark
<1>5. ASSUME NEW c \in Callers, OpPanics(c) PROVE BreakerInv'
  <2>1. leaked' \in Nat
    BY <1>5 DEF OpPanics, BreakerInv, TypeOK
  <2> QED BY <1>2, <1>5, <2>1 DEF OpPanics
<1>6. CASE Elapse
  BY <1>6 DEF Elapse, ring, BreakerInv, TypeOK, CallsAreDated, Filling
<1> QED BY <1>1, <1>3, <1>4, <1>5, <1>6, BeforeRequestKeepsInv
        DEF Next, CheckRecovery, Reset

LEMMA InvCorrect == Spec => []BreakerInv
  BY InvInit, InvStep, PTL DEF Spec

-----------------------------------------------------------------------------
(* Part 3: the refinement                                                  *)

LEMMA InitRefines == Init => Promise!Init
<1> SUFFICES ASSUME Init PROVE Promise!Init
  OBVIOUS
<1>1. \A c \in Callers : call[c].pc = "idle"
  BY DEF Init, Idle
<1>2. Admitted = {}
  BY <1>1 DEF Admitted
<1>3. state = "closed" /\ windowLen = 0 /\ expired = FALSE
  BY DEF Init
<1>4. Recent = <<>> /\ InUse = 0
  BY <1>3 DEF Recent, RingContents, InUse
<1> QED BY <1>2, <1>3, <1>4 DEF Promise!Init

\* The recorded trials, one success longer.
LEMMA TrialsGrow ==
  ASSUME NEW n \in Nat
  PROVE  /\ Len([i \in 1 .. n |-> TRUE]) = n
         /\ Append([i \in 1 .. n |-> TRUE], TRUE) = [i \in 1 .. n + 1 |-> TRUE]
<1>1. ASSUME NEW S, NEW a \in S
      PROVE  Append([i \in 1 .. n |-> a], a) = [i \in 1 .. n + 1 |-> a]
  OBVIOUS
<1>2. TRUE \in BOOLEAN
  OBVIOUS
<1>3. Len([i \in 1 .. n |-> TRUE]) = n
  OBVIOUS
<1> QED BY <1>1, <1>2, <1>3

\* newState begins a phase of Breaker.
LEMMA NewStateEnters ==
  ASSUME BreakerInv, NEW to \in {"closed", "open", "half"}, NewCounters(to, 0),
         to = "closed" => windowLen' = 0,
         \A c \in Callers : call'[c].gen <= generation
  PROVE  Promise!Enter(to)
<1>0. generation \in Nat
  BY ConfigTypes DEF BreakerInv, TypeOK
<1>1. /\ state' = to /\ generation' = generation + 1 /\ expired' = FALSE
      /\ halfOpenRequests' = 0 /\ halfOpenSuccesses' = 0
  BY DEF NewCounters
<1>2. Admitted' = {}
  <2>1. \A c \in Callers : call'[c].gen # generation'
    BY <1>0, <1>1
  <2> QED BY <2>1 DEF Admitted
<1>3. Recent' = <<>> /\ InUse' = 0
  BY <1>1 DEF Recent, RingContents, InUse
<1> QED BY <1>1, <1>2, <1>3 DEF Promise!Enter

\* Report for a call of the present state is a result in Breaker.
LEMMA ReportRefines ==
  ASSUME BreakerInv, NEW ok \in BOOLEAN, Report(ok),
         NEW c \in Callers, call' = [call EXCEPT ![c] = Idle], c \in Admitted
  PROVE  Promise!Finish(c, ok)
<1>0. /\ Idle.gen = 0 /\ Idle.pc = "idle" /\ generation \in Nat /\ call \in [Callers -> Calls]
      /\ halfOpenSuccesses \in Nat /\ halfOpenRequests \in Int
      /\ WindowSize \in Nat \ {0} /\ window \in [0 .. WindowSize - 1 -> BOOLEAN]
      /\ windowPos \in 0 .. WindowSize - 1 /\ windowLen \in 0 .. WindowSize
      /\ Filling(windowPos, windowLen) /\ MaxRequests \in Nat
  BY ConfigTypes DEF Idle, Calls, BreakerInv, TypeOK
<1>1. \A d \in Callers : IF d = c THEN call'[d] = Idle ELSE call'[d] = call[d]
  BY <1>0
<1>2. \A d \in Callers : call'[d].gen <= generation
  BY <1>0, <1>1 DEF BreakerInv, CallsAreDated
<1>3. generation' = generation => Admitted' = Admitted \ {c}
  BY <1>0, <1>1 DEF Admitted
<1>4. CASE state = "closed"
  <2>1. RecordOutcome(ok)
    BY <1>4 DEF Report
  <2>2. Recent = Oldest(window, windowPos, windowLen)
    BY <1>4 DEF Recent, RingContents, Oldest, Slot
  <2>3. /\ window' = [window EXCEPT ![windowPos] = ok]
        /\ windowPos' = (windowPos + 1) % WindowSize
        /\ windowLen' = IF windowLen < WindowSize THEN windowLen + 1 ELSE windowLen
    BY <2>1 DEF RecordOutcome
  <2> DEFINE s == Promise!LastN(Append(Recent, ok))
  <2>4. s = Oldest(window', windowPos', windowLen')
    <3> DEFINE S == BOOLEAN
    <3>1. window \in [0 .. WindowSize - 1 -> S] /\ ok \in S
      BY <1>0
    <3> HIDE DEF S
    <3>2. Records(ok, window, windowPos, windowLen, window', windowPos', windowLen')
      BY <2>3 DEF Records
    <3> QED BY <1>0, <2>2, <3>1, <3>2, RecordAppends
  <2>5. Promise!TooManyFailures(s) <=> ShouldTrip
    <3>1. Promise!TooManyFailures(Oldest(window', windowPos', windowLen')) <=>
            /\ windowLen' >= MinRequests
            /\ Cardinality({k \in 0 .. windowLen' - 1 : ~window'[k]}) * Den >= Num * windowLen'
      BY <2>1, RecordType, TripAgrees, Zenon
    <3> QED BY <2>4, <3>1, Zenon DEF ShouldTrip
  <2> HIDE DEF s
  <2>6. CASE ~ok /\ ShouldTrip
    <3>1. NewCounters("open", 0)
      BY <1>4, <2>6 DEF Report
    <3>2. Promise!Enter("open")
      BY <1>2, <3>1, NewStateEnters
    <3> QED BY <1>4, <2>5, <2>6, <3>2 DEF Promise!Finish, s
  <2>7. CASE ~(~ok /\ ShouldTrip)
    <3>1. UNCHANGED <<state, generation, expired, halfOpenRequests, halfOpenSuccesses, leaked>>
      BY <1>4, <2>7 DEF Report
    <3>2. Recent' = s
      BY <1>4, <2>4, <3>1 DEF Recent, RingContents, Oldest, Slot
    <3>3. InUse' = InUse
      BY <1>4, <3>1 DEF InUse
    <3> QED BY <1>3, <1>4, <2>5, <2>7, <3>1, <3>2, <3>3 DEF Promise!Finish, s
  <2> QED BY <2>6, <2>7
<1>5. CASE state = "half" /\ ok
  <2>1. Recent = [i \in 1 .. halfOpenSuccesses |-> TRUE] /\ Len(Recent) = halfOpenSuccesses
    BY <1>0, <1>5, TrialsGrow DEF Recent
  <2>2. CASE halfOpenSuccesses + 1 >= MaxRequests
    <3>1. NewState("closed", 0)
      BY <1>5, <2>2 DEF Report
    <3>2. NewCounters("closed", 0) /\ windowLen' = 0
      BY <3>1 DEF NewState
    <3>3. Promise!Enter("closed")
      BY <1>2, <3>2, NewStateEnters
    <3> QED BY <1>5, <2>1, <2>2, <3>3 DEF Promise!Finish
  <2>3. CASE ~(halfOpenSuccesses + 1 >= MaxRequests)
    <3>1. /\ halfOpenSuccesses' = halfOpenSuccesses + 1
          /\ halfOpenRequests' = halfOpenRequests - 1
          /\ UNCHANGED <<state, generation, expired, ring, leaked>>
      BY <1>5, <2>3 DEF Report
    <3>2. Recent' = [i \in 1 .. halfOpenSuccesses + 1 |-> TRUE]
      BY <1>5, <3>1 DEF Recent
    <3>3. Recent' = Append(Recent, TRUE)
      BY <1>0, <2>1, <3>2, TrialsGrow
    <3>4. InUse' = InUse - 1
      BY <1>5, <3>1 DEF InUse
    <3>5. Recent' = Append(Recent, ok)
      BY <1>5, <3>3
    <3> QED BY <1>3, <1>5, <2>1, <2>3, <3>1, <3>4, <3>5 DEF Promise!Finish
  <2> QED BY <2>2, <2>3
<1>6. CASE state = "half" /\ ~ok
  <2>1. NewCounters("open", 0)
    BY <1>6 DEF Report, NewState
  <2>2. Promise!Enter("open")
    BY <1>2, <2>1, NewStateEnters
  <2> QED BY <1>6, <2>2 DEF Promise!Finish
<1>7. state # "open"
  BY <1>0 DEF Admitted, BreakerInv, CallsAreDated
<1> QED BY <1>4, <1>5, <1>6, <1>7 DEF BreakerInv, TypeOK

\* A request that is let through, when it is the only new one.
LEMMA BeforeRequestEnters ==
  ASSUME BreakerInv, NEW c \in Callers, NEW pc \in {"execute", "allowed"},
         BeforeRequest(c, pc),
         generation' = generation => Admitted' = Admitted \cup {c},
         generation' = generation + 1 => Admitted' = {c}
  PROVE  Promise!Admit(c)
<1>0. generation \in Nat /\ halfOpenRequests \in Int
  BY DEF BreakerInv, TypeOK
<1>1. CASE Recovered = "closed"
  <2>1. state = "closed"
    BY <1>1 DEF Recovered
  <2>2. UNCHANGED <<state, generation, expired, ring, halfOpenRequests, halfOpenSuccesses>>
    BY <1>1, <2>1 DEF BeforeRequest
  <2>3. UNCHANGED <<Recent, InUse>>
    BY <2>2 DEF Recent, RingContents, InUse, ring
  <2> QED BY <2>1, <2>2, <2>3 DEF Promise!Admit
<1>2. CASE Recovered = "half" /\ state = "open"
  <2>1. expired /\ NewState("half", 1)
    BY <1>2 DEF Recovered, BeforeRequest
  <2>2. /\ state' = "half" /\ generation' = generation + 1 /\ expired' = FALSE
        /\ halfOpenRequests' = 1 /\ halfOpenSuccesses' = 0
    BY <2>1 DEF NewState, NewCounters
  <2>3. Recent' = <<>> /\ InUse' = 1
    BY <2>2 DEF Recent, InUse
  <2> QED BY <1>2, <2>1, <2>2, <2>3 DEF Promise!Admit
<1>3. CASE state = "half"
  <2>1. /\ halfOpenRequests < MaxRequests /\ halfOpenRequests' = halfOpenRequests + 1
        /\ UNCHANGED <<state, generation, expired, ring, halfOpenSuccesses>>
    BY <1>3 DEF BeforeRequest, Recovered
  <2>2. Recent' = Recent
    BY <1>3, <2>1 DEF Recent
  <2>3. InUse = halfOpenRequests /\ InUse' = InUse + 1
    BY <1>3, <2>1 DEF InUse
  <2> QED BY <1>3, <2>1, <2>2, <2>3 DEF Promise!Admit
<1> QED BY <1>1, <1>2, <1>3 DEF BeforeRequest

LEMMA BeforeRequestRefines ==
  ASSUME BreakerInv, NEW c \in Callers, NEW pc \in {"execute", "allowed"},
         BeforeRequest(c, pc)
  PROVE  Promise!Admit(c)
<1> DEFINE r(g) == [pc |-> pc, gen |-> g]
<1>0. generation \in Nat /\ call \in [Callers -> Calls] /\ call[c].pc = "idle"
      /\ \A d \in Callers : call[d].gen \in Nat /\ call[d].gen <= generation
  BY DEF BreakerInv, TypeOK, CallsAreDated, Calls, BeforeRequest
<1>1. \/ generation' = generation /\ call' = [call EXCEPT ![c] = r(generation)]
      \/ generation' = generation + 1 /\ call' = [call EXCEPT ![c] = r(generation + 1)]
  BY DEF BeforeRequest, NewState, NewCounters
<1>2. \A g : r(g).pc = pc /\ r(g).gen = g
  OBVIOUS
<1> HIDE DEF r
<1>3. /\ \A d \in Callers : d # c => call'[d] = call[d]
      /\ call'[c].pc = pc /\ call'[c].gen = generation'
  BY <1>0, <1>1, <1>2
<1>4. generation' = generation => Admitted' = Admitted \cup {c}
  BY <1>0, <1>3 DEF Admitted
<1>5. ASSUME generation' = generation + 1 PROVE Admitted' = {c}
  <2>1. \A d \in Callers : call[d].gen # generation'
    BY <1>0, <1>5
  <2> QED BY <1>3, <2>1 DEF Admitted
<1> QED BY <1>4, <1>5, BeforeRequestEnters

LEMMA CallReturnsRefines ==
  ASSUME BreakerInv, NEW c \in Callers, NEW ok \in BOOLEAN, AfterRequest(c, ok) \/ Mark(c, ok)
  PROVE  Promise!Finish(c, ok) \/ LateReport \/ UNCHANGED Promise!vars
<1>0. call \in [Callers -> Calls] /\ call' = [call EXCEPT ![c] = Idle] /\ Idle.pc = "idle"
      /\ call[c].pc # "idle"
  BY DEF BreakerInv, TypeOK, Calls, AfterRequest, Mark, Idle
<1>1. \A d \in Callers : IF d = c THEN call'[d].pc = "idle" ELSE call'[d] = call[d]
  BY <1>0
<1>2. CASE call[c].gen = generation
  <2>1. Report(ok) /\ c \in Admitted
    BY <1>0, <1>2 DEF AfterRequest, Mark, Admitted
  <2> QED BY <1>0, <2>1, ReportRefines
<1>3. CASE call[c].gen # generation /\ AfterRequest(c, ok)
  <2>1. UNCHANGED <<state, generation, expired, ring, halfOpenRequests, halfOpenSuccesses>>
    BY <1>3 DEF AfterRequest
  <2>2. UNCHANGED <<Recent, InUse>>
    BY <2>1 DEF Recent, RingContents, InUse, ring
  <2>3. Admitted' = Admitted
    BY <1>1, <1>3, <2>1 DEF Admitted
  <2> QED BY <2>1, <2>2, <2>3 DEF Promise!vars
<1>4. CASE call[c].gen # generation /\ Mark(c, ok)
  BY <1>4 DEF LateReport
<1> QED BY <1>2, <1>3, <1>4

LEMMA OpPanicsRefines ==
  ASSUME BreakerInv, NEW c \in Callers, OpPanics(c)
  PROVE  Promise!Abandon(c) \/ UNCHANGED Promise!vars
<1>0. /\ call \in [Callers -> Calls] /\ call' = [call EXCEPT ![c] = Idle] /\ Idle.pc = "idle"
      /\ call[c].pc = "execute"
      /\ UNCHANGED <<state, generation, expired, ring, halfOpenRequests, halfOpenSuccesses>>
  BY DEF BreakerInv, TypeOK, Calls, OpPanics, Idle
<1>1. \A d \in Callers : IF d = c THEN call'[d].pc = "idle" ELSE call'[d] = call[d]
  BY <1>0
<1>2. Admitted' = Admitted \ {c}
  BY <1>0, <1>1 DEF Admitted
<1>3. UNCHANGED <<Recent, InUse>>
  BY <1>0 DEF Recent, RingContents, InUse, ring
<1> QED BY <1>0, <1>2, <1>3 DEF Promise!Abandon, Promise!vars

\* Every step of the breaker is one of Breaker, or changes nothing there, or
\* is a late report.
LEMMA NextRefines ==
  BreakerInv /\ [Next]_vars => [Promise!Next \/ LateReport]_(Promise!vars)
<1> SUFFICES ASSUME BreakerInv, [Next]_vars
             PROVE  Promise!Next \/ LateReport \/ UNCHANGED Promise!vars
  OBVIOUS
<1>1. CASE UNCHANGED vars
  BY <1>1 DEF vars, ring, Promise!vars, Recent, RingContents, InUse, Admitted
<1>2. ASSUME NEW c \in Callers, NEW pc \in {"execute", "allowed"}, BeforeRequest(c, pc)
      PROVE  Promise!Next
  BY <1>2, BeforeRequestRefines DEF Promise!Next
<1>3. ASSUME NEW c \in Callers, CallReturns(c)
      PROVE  Promise!Next \/ LateReport \/ UNCHANGED Promise!vars
  BY <1>3, CallReturnsRefines DEF CallReturns, Promise!Next
<1>4. ASSUME NEW c \in Callers, OpPanics(c) PROVE Promise!Next \/ UNCHANGED Promise!vars
  BY <1>4, OpPanicsRefines DEF Promise!Next
<1>5. ASSUME NEW to \in {"closed", "half"}, NewState(to, 0), UNCHANGED call
      PROVE  Promise!Enter(to)
  <2>1. NewCounters(to, 0) /\ (to = "closed" => windowLen' = 0)
    BY <1>5 DEF NewState
  <2>2. \A c \in Callers : call'[c].gen <= generation
    BY <1>5 DEF BreakerInv, CallsAreDated
  <2> QED BY <1>5, <2>1, <2>2, NewStateEnters
<1>6. CASE CheckRecovery
  <2>1. Promise!Enter("half") /\ state = "open" /\ expired
    BY <1>5, <1>6 DEF CheckRecovery, Recovered
  <2> QED BY <2>1 DEF Promise!Recover, Promise!Next
<1>7. CASE Reset
  <2>1. Promise!Enter("closed")
    BY <1>5, <1>7 DEF Reset
  <2> QED BY <2>1 DEF Promise!Reset, Promise!Next
<1>8. CASE Elapse
  <2>1. /\ state = "open" /\ expired' = TRUE
        /\ UNCHANGED <<state, generation, ring, halfOpenRequests, halfOpenSuccesses, call>>
    BY <1>8 DEF Elapse
  <2>2. UNCHANGED <<Recent, InUse, Admitted>>
    BY <2>1 DEF Recent, InUse, Admitted
  <2> QED BY <2>1, <2>2 DEF Promise!Elapse, Promise!Next
<1> QED BY <1>1, <1>2, <1>3, <1>4, <1>6, <1>7, <1>8 DEF Next

\* KeepsPromise: but for late reports of callers of Allow, the circuit breaker
\* implements module Breaker.  The ring buffer holds the last outcomes since
\* it closed, a result counts in the state that admitted its call and in no
\* other, it opens exactly when the failures reach the threshold and closes
\* only on the result of a trial, whatever calls, panics and timeouts come
\* between.
THEOREM KeepsPromiseCorrect == Spec => KeepsPromise
  BY InitRefines, NextRefines, InvCorrect, PTL DEF Spec, KeepsPromise

\* The counters stay within the configuration: at most WindowSize outcomes in
\* the ring, at most MaxRequests successes among the trials, and no call holds
\* a generation the breaker has not had (circuitbreaker.go:217-367).
THEOREM TypeCorrect == Spec => []TypeOK
<1>1. BreakerInv => TypeOK
  BY DEF BreakerInv
<1> QED BY <1>1, InvCorrect, PTL
=============================================================================
