---------------------------- MODULE ContextProofs ----------------------------
(***************************************************************************)
(* Proofs about Context, for any names, values, documents and failures.    *)
(*                                                                         *)
(* An entry is known by its age, its place counted from the end of the     *)
(* list: an addition leaves the ages of the others alone and a removal     *)
(* moves the younger ones down by one, as it does with what the map holds. *)
(* Every action does one of a few things to list, map and blocks (Moves),   *)
(* and the invariant is shown of each of them.                             *)
(*                                                                         *)
(* A document is followed member by member: Loads says what lookups find   *)
(* when it is read up to its k-th.                                         *)
(***************************************************************************)
EXTENDS Context, SequenceTheorems, FiniteSetTheorems, WellFoundedInduction, TLAPS

Aged(list, a) == list[Len(list) + 1 - a]

\* The ages of the entries that own a block.
Owners(list) == {a \in 1 .. Len(list) : Freed(Aged(list, a)) = 1}

Typed ==
  /\ entries \in Seq(Entries)
  /\ DOMAIN map \subseteq Names
  /\ \A n \in DOMAIN map : map[n] \in 1 .. Len(entries)
  /\ todo \in Seq(Member)

\* The map holds the youngest entry of each name it knows.
Youngest ==
  \A n \in DOMAIN map :
    /\ Aged(entries, map[n]).name = n
    /\ \A a \in 1 .. Len(entries) : Aged(entries, a).name = n => a <= map[n]

Counted == blocks = Cardinality(Owners(entries))

IInv == Typed /\ Youngest /\ Counted

-----------------------------------------------------------------------------
(***************************************************************************)
(* Lists.                                                                  *)
(***************************************************************************)
LEMMA Ages ==
  ASSUME NEW list \in Seq(Entries)
  PROVE  /\ Len(list) \in Nat /\ DOMAIN list = 1 .. Len(list)
         /\ \A a \in 1 .. Len(list) :
              Len(list) + 1 - a \in 1 .. Len(list) /\ Aged(list, a) \in Entries
<1>1. Len(list) \in Nat /\ DOMAIN list = 1 .. Len(list)
  BY LenProperties
<1>2. \A a \in 1 .. Len(list) : Len(list) + 1 - a \in 1 .. Len(list)
  BY <1>1
<1>3. \A i \in 1 .. Len(list) : list[i] \in Entries
  BY <1>1, ElementOfSeq
<1> QED
  BY <1>1, <1>2, <1>3 DEF Aged

LEMMA FreedIsBit ==
  ASSUME NEW e \in Entries
  PROVE  Freed(e) \in {0, 1}
BY DEF Freed, Owned

LEMMA OwnersAreFinite ==
  ASSUME NEW list \in Seq(Entries)
  PROVE  IsFiniteSet(Owners(list)) /\ Cardinality(Owners(list)) \in Nat
<1>1. Len(list) \in Nat /\ IsFiniteSet(1 .. Len(list))
  BY Ages, FS_Interval
<1>2. Owners(list) \in SUBSET (1 .. Len(list))
  BY DEF Owners
<1>3. IsFiniteSet(Owners(list))
  BY <1>1, <1>2, FS_Subset
<1> QED
  BY <1>3, FS_CardinalityType

\* The entry of one age is exchanged.
LEMMA ExchangedAt ==
  ASSUME NEW list \in Seq(Entries), NEW a \in 1 .. Len(list), NEW e \in Entries
  PROVE  LET next == [list EXCEPT ![Len(list) + 1 - a] = e] IN
         /\ next \in Seq(Entries) /\ Len(next) = Len(list)
         /\ \A b \in 1 .. Len(list) : Aged(next, b) = IF b = a THEN e ELSE Aged(list, b)
         /\ Cardinality(Owners(next)) =
              Cardinality(Owners(list)) + Freed(e) - Freed(Aged(list, a))
<1> DEFINE p == Len(list) + 1 - a
           next == [list EXCEPT ![p] = e]
<1>0. Len(list) \in Nat /\ p \in 1 .. Len(list)
  BY Ages
<1>1. /\ next \in Seq(Entries) /\ Len(next) = Len(list)
      /\ \A j \in 1 .. Len(list) : next[j] = IF j = p THEN e ELSE list[j]
  BY <1>0, ExceptSeq
<1> HIDE DEF next
<1>2. \A b \in 1 .. Len(list) : Aged(next, b) = IF b = a THEN e ELSE Aged(list, b)
  <2>1. ASSUME NEW b \in 1 .. Len(list)
        PROVE  Aged(next, b) = IF b = a THEN e ELSE Aged(list, b)
    <3>1. Len(list) + 1 - b \in 1 .. Len(list) /\ (Len(list) + 1 - b = p <=> b = a)
      BY <1>0
    <3> QED
      BY <3>1, <1>1 DEF Aged
  <2> QED
    BY <2>1
<1>3. IsFiniteSet(Owners(list)) /\ Cardinality(Owners(list)) \in Nat
  BY OwnersAreFinite
<1>4. Aged(list, a) \in Entries
  BY Ages
<1>5. Freed(e) \in {0, 1} /\ Freed(Aged(list, a)) \in {0, 1}
  BY <1>4, FreedIsBit
<1>6. Cardinality(Owners(next)) = Cardinality(Owners(list)) + Freed(e) - Freed(Aged(list, a))
  <2>1. CASE Freed(e) = Freed(Aged(list, a))
    <3>1. Owners(next) = Owners(list)
      BY <2>1, <1>1, <1>2 DEF Owners
    <3> QED
      BY <3>1, <2>1, <1>3, <1>5
  <2>2. CASE Freed(e) = 1 /\ Freed(Aged(list, a)) = 0
    <3>1. Owners(next) = Owners(list) \cup {a} /\ a \notin Owners(list)
      BY <2>2, <1>1, <1>2 DEF Owners
    <3>2. Cardinality(Owners(next)) = Cardinality(Owners(list)) + 1
      BY <3>1, <1>3, FS_AddElement
    <3> QED
      BY <3>2, <2>2, <1>3
  <2>3. CASE Freed(e) = 0 /\ Freed(Aged(list, a)) = 1
    <3>1. Owners(next) = Owners(list) \ {a} /\ a \in Owners(list)
      BY <2>3, <1>1, <1>2 DEF Owners
    <3>2. Cardinality(Owners(next)) = Cardinality(Owners(list)) - 1
      BY <3>1, <1>3, FS_RemoveElement
    <3> QED
      BY <3>2, <2>3, <1>3
  <2> QED
    BY <2>1, <2>2, <2>3, <1>5
<1> QED
  BY <1>1, <1>2, <1>6 DEF next

\* A new entry comes to the front.
LEMMA FrontedAt ==
  ASSUME NEW list \in Seq(Entries), NEW e \in Entries
  PROVE  LET next == <<e>> \o list IN
         /\ next \in Seq(Entries) /\ Len(next) = Len(list) + 1
         /\ Aged(next, Len(list) + 1) = e
         /\ \A b \in 1 .. Len(list) : Aged(next, b) = Aged(list, b)
         /\ Cardinality(Owners(next)) = Cardinality(Owners(list)) + Freed(e)
<1> DEFINE next == <<e>> \o list
           m == Len(list) + 1
<1>0. Len(list) \in Nat
  BY Ages
<1>1. /\ next \in Seq(Entries) /\ Len(next) = m
      /\ \A j \in 1 .. m : next[j] = IF j <= 1 THEN e ELSE list[j - 1]
  <2>1. <<e>> \in Seq(Entries) /\ Len(<<e>>) = 1 /\ <<e>>[1] = e
    OBVIOUS
  <2>2. /\ next \in Seq(Entries) /\ Len(next) = 1 + Len(list)
        /\ \A j \in 1 .. 1 + Len(list) : next[j] = IF j <= 1 THEN <<e>>[j] ELSE list[j - 1]
    BY <2>1, ConcatProperties
  <2>3. 1 + Len(list) = m
    BY <1>0
  <2>4. \A j \in 1 .. m : j <= 1 => j = 1
    BY <1>0
  <2> QED
    BY <2>1, <2>2, <2>3, <2>4
<1> HIDE DEF next
<1>2. Aged(next, m) = e
  <2>1. m + 1 - m = 1 /\ 1 \in 1 .. m
    BY <1>0
  <2> QED
    BY <2>1, <1>1 DEF Aged
<1>3. \A b \in 1 .. Len(list) : Aged(next, b) = Aged(list, b)
  <2>1. ASSUME NEW b \in 1 .. Len(list) PROVE Aged(next, b) = Aged(list, b)
    <3>1. m + 1 - b \in 1 .. m /\ ~(m + 1 - b <= 1) /\ (m + 1 - b) - 1 = Len(list) + 1 - b
      BY <1>0
    <3> QED
      BY <3>1, <1>1 DEF Aged
  <2> QED
    BY <2>1
<1>4. 1 .. m = (1 .. Len(list)) \cup {m} /\ m \notin 1 .. Len(list)
  BY <1>0
<1>5. IsFiniteSet(Owners(list)) /\ Cardinality(Owners(list)) \in Nat
  BY OwnersAreFinite
<1>6. Freed(e) \in {0, 1}
  BY FreedIsBit
<1>7. Owners(next) = {b \in 1 .. m : Freed(Aged(next, b)) = 1}
  BY <1>1 DEF Owners
<1> HIDE DEF m
<1>8. Cardinality(Owners(next)) = Cardinality(Owners(list)) + Freed(e)
  <2>1. CASE Freed(e) = 0
    <3>1. Owners(next) = Owners(list)
      BY <2>1, <1>2, <1>3, <1>4, <1>7 DEF Owners
    <3> QED
      BY <3>1, <2>1, <1>5
  <2>2. CASE Freed(e) = 1
    <3>1. Owners(next) = Owners(list) \cup {m} /\ m \notin Owners(list)
      BY <2>2, <1>2, <1>3, <1>4, <1>7 DEF Owners
    <3> QED
      BY <3>1, <2>2, <1>5, FS_AddElement
  <2> QED
    BY <2>1, <2>2, <1>6
<1> QED
  BY <1>1, <1>2, <1>3, <1>8 DEF next, m

\* A bijection keeps the number of elements.
LEMMA SameNumber ==
  ASSUME NEW S, NEW T, IsFiniteSet(S), NEW f \in [S -> T],
         \A x, y \in S : f[x] = f[y] => x = y,
         \A z \in T : \E x \in S : f[x] = z
  PROVE  Cardinality(T) = Cardinality(S)
<1>1. f \in Bijection(S, T)
  BY DEF Bijection, Injection, Surjection, IsInjective
<1> QED
  BY <1>1, FS_Bijection DEF ExistsBijection

\* The entry of one age is taken off the list.
LEMMA RemovedAt ==
  ASSUME NEW list \in Seq(Entries), NEW a \in 1 .. Len(list)
  PROVE  LET next == RemoveAt(list, Len(list) + 1 - a) IN
         /\ next \in Seq(Entries) /\ Len(next) = Len(list) - 1
         /\ \A b \in 1 .. Len(list) - 1 :
              Aged(next, b) = IF b < a THEN Aged(list, b) ELSE Aged(list, b + 1)
         /\ Cardinality(Owners(next)) = Cardinality(Owners(list)) - Freed(Aged(list, a))
<1> DEFINE n == Len(list)
           p == n + 1 - a
           u == SubSeq(list, 1, p - 1)
           v == SubSeq(list, p + 1, n)
           next == RemoveAt(list, p)
<1>0. n \in Nat /\ p \in 1 .. n /\ p \in Int /\ a \in Int /\ 1 <= a /\ a <= n
  BY Ages
<1>1. \A i \in 1 .. n : list[i] \in Entries
  BY Ages, ElementOfSeq
<1>2. u \in Seq(Entries) /\ Len(u) = p - 1 /\ \A i \in 1 .. p - 1 : u[i] = list[i]
  <2>1. \A i \in 1 .. p - 1 : list[i] \in Entries
    BY <1>0, <1>1
  <2>2. /\ u \in Seq(Entries) /\ Len(u) = IF 1 <= p - 1 THEN (p - 1) - 1 + 1 ELSE 0
        /\ \A i \in 1 .. (p - 1) - 1 + 1 : u[i] = list[1 + i - 1]
    BY <2>1, <1>0, SubSeqProperties
  <2> QED
    BY <2>2, <1>0
<1>3. v \in Seq(Entries) /\ Len(v) = n - p /\ \A i \in 1 .. n - p : v[i] = list[p + i]
  <2>1. \A i \in p + 1 .. n : list[i] \in Entries
    BY <1>0, <1>1
  <2>2. /\ v \in Seq(Entries) /\ Len(v) = IF p + 1 <= n THEN n - (p + 1) + 1 ELSE 0
        /\ \A i \in 1 .. n - (p + 1) + 1 : v[i] = list[(p + 1) + i - 1]
    BY <2>1, <1>0, SubSeqProperties
  <2>3. ASSUME NEW i \in 1 .. n - p PROVE v[i] = list[p + i]
    <3>1. i \in 1 .. n - (p + 1) + 1 /\ (p + 1) + i - 1 = p + i
      BY <1>0
    <3> QED
      BY <3>1, <2>2
  <2> QED
    BY <2>2, <2>3, <1>0
<1>4. next = u \o v
  BY DEF RemoveAt
<1> HIDE DEF u, v, next
<1>5. /\ next \in Seq(Entries) /\ Len(next) = n - 1
      /\ \A i \in 1 .. n - 1 : next[i] = IF i < p THEN list[i] ELSE list[i + 1]
  <2>1. /\ next \in Seq(Entries) /\ Len(next) = Len(u) + Len(v)
        /\ \A i \in 1 .. Len(u) + Len(v) : next[i] = IF i <= Len(u) THEN u[i] ELSE v[i - Len(u)]
    BY <1>2, <1>3, <1>4, ConcatProperties
  <2>2. Len(u) + Len(v) = n - 1
    BY <1>0, <1>2, <1>3
  <2>3. ASSUME NEW i \in 1 .. n - 1 PROVE next[i] = IF i < p THEN list[i] ELSE list[i + 1]
    <3>1. next[i] = IF i <= p - 1 THEN u[i] ELSE v[i - (p - 1)]
      BY <2>1, <2>2, <1>2
    <3>2. CASE i < p
      <4>1. i <= p - 1 /\ i \in 1 .. p - 1
        BY <3>2, <1>0
      <4> QED
        BY <4>1, <3>1, <3>2, <1>2
    <3>3. CASE ~(i < p)
      <4>1. ~(i <= p - 1) /\ i - (p - 1) \in 1 .. n - p /\ p + (i - (p - 1)) = i + 1
        BY <3>3, <1>0
      <4> QED
        BY <4>1, <3>1, <3>3, <1>3
    <3> QED
      BY <3>2, <3>3
  <2> QED
    BY <2>1, <2>2, <2>3
<1>6. \A b \in 1 .. n - 1 : Aged(next, b) = IF b < a THEN Aged(list, b) ELSE Aged(list, b + 1)
  <2>1. ASSUME NEW b \in 1 .. n - 1
        PROVE  Aged(next, b) = IF b < a THEN Aged(list, b) ELSE Aged(list, b + 1)
    <3>1. /\ (n - 1) + 1 - b \in 1 .. n - 1
          /\ (n - 1) + 1 - b < p <=> ~(b < a)
          /\ ((n - 1) + 1 - b) + 1 = n + 1 - b
          /\ (n - 1) + 1 - b = n + 1 - (b + 1)
      BY <1>0
    <3>2. Aged(next, b) = IF (n - 1) + 1 - b < p THEN list[(n - 1) + 1 - b]
                                                 ELSE list[((n - 1) + 1 - b) + 1]
      BY <3>1, <1>5 DEF Aged
    <3> QED
      BY <3>1, <3>2 DEF Aged
  <2> QED
    BY <2>1
<1>7. IsFiniteSet(Owners(list)) /\ Cardinality(Owners(list)) \in Nat
  BY OwnersAreFinite
<1>8. Freed(Aged(list, a)) \in {0, 1}
  BY Ages, FreedIsBit
<1>9. Cardinality(Owners(next)) = Cardinality(Owners(list)) - Freed(Aged(list, a))
  <2> DEFINE S == Owners(list) \ {a}
             f == [b \in S |-> IF b < a THEN b ELSE b - 1]
  <2>1. /\ IsFiniteSet(S)
        /\ Cardinality(S) = Cardinality(Owners(list)) - Freed(Aged(list, a))
    <3>1. a \in Owners(list) <=> Freed(Aged(list, a)) = 1
      BY DEF Owners
    <3> QED
      BY <3>1, <1>7, <1>8, FS_RemoveElement
  <2>2. \A b \in S : b \in 1 .. n /\ b # a /\ Freed(Aged(list, b)) = 1
    BY DEF Owners
  <2>3. \A b \in Owners(next) : b \in 1 .. n - 1 /\ Freed(Aged(next, b)) = 1
    BY <1>5 DEF Owners
  <2>4. ASSUME NEW b \in S PROVE f[b] \in Owners(next)
    <3>1. CASE b < a
      <4>1. b \in 1 .. n - 1
        BY <2>2, <3>1, <1>0
      <4>2. Freed(Aged(next, b)) = 1
        BY <4>1, <3>1, <2>2, <1>6
      <4> QED
        BY <4>1, <4>2, <3>1, <1>5 DEF Owners
    <3>2. CASE ~(b < a)
      <4>1. b - 1 \in 1 .. n - 1 /\ ~(b - 1 < a) /\ (b - 1) + 1 = b
        BY <2>2, <3>2, <1>0
      <4>2. Freed(Aged(next, b - 1)) = 1
        BY <4>1, <3>2, <2>2, <1>6
      <4> QED
        BY <4>1, <4>2, <3>2, <1>5 DEF Owners
    <3> QED
      BY <3>1, <3>2
  <2>5. f \in [S -> Owners(next)]
    BY <2>4
  <2>6. \A x, y \in S : f[x] = f[y] => x = y
    <3>1. \A x, y \in S : x \in Int /\ y \in Int /\ x # a /\ y # a
      BY <2>2
    <3> QED
      BY <3>1, <1>0
  <2>7. \A z \in Owners(next) : \E x \in S : f[x] = z
    <3>1. ASSUME NEW z \in Owners(next) PROVE \E x \in S : f[x] = z
      <4>1. CASE z < a
        <5>1. z \in 1 .. n /\ z # a /\ Freed(Aged(list, z)) = 1
          BY <4>1, <2>3, <1>0, <1>6
        <5>2. z \in S
          BY <5>1 DEF Owners
        <5> QED
          BY <5>2, <4>1
      <4>2. CASE ~(z < a)
        <5>1. z \in Int /\ z + 1 \in 1 .. n /\ z + 1 # a /\ ~(z + 1 < a) /\ (z + 1) - 1 = z
          BY <4>2, <2>3, <1>0
        <5>2. Freed(Aged(list, z + 1)) = 1
          BY <4>2, <2>3, <1>6
        <5>3. z + 1 \in S
          BY <5>1, <5>2 DEF Owners
        <5> QED
          BY <5>1, <5>3
      <4> QED
        BY <4>1, <4>2
    <3> QED
      BY <3>1
  <2> HIDE DEF S, f
  <2>8. Cardinality(Owners(next)) = Cardinality(S)
    BY <2>1, <2>5, <2>6, <2>7, SameNumber
  <2> QED
    BY <2>1, <2>8
<1> QED
  BY <1>5, <1>6, <1>9 DEF next

LEMMA SmallestPlace ==
  ASSUME NEW T, T \subseteq Nat, T # {}
  PROVE  \E x \in T : \A y \in T : x <= y
<1>1. PICK x \in T : \A y \in T : <<y, x>> \notin OpToRel(<, Nat)
  BY WFMin, NatLessThanWellFounded, Zenon
<1>2. \A y \in T : ~(y < x)
  BY <1>1, Zenon DEF OpToRel
<1> QED
  BY <1>2

\* Counted by age or by place, the entries that own a block are as many.
LEMMA ReferencedByAge ==
  ASSUME entries \in Seq(Entries)
  PROVE  Referenced = Cardinality(Owners(entries))
<1> DEFINE n == Len(entries)
           T == {i \in DOMAIN entries : Freed(entries[i]) = 1}
           f == [a \in Owners(entries) |-> n + 1 - a]
<1>1. n \in Nat /\ DOMAIN entries = 1 .. n
  BY Ages
<1>2. f \in [Owners(entries) -> T]
  BY <1>1 DEF Owners, Aged
<1>3. \A a, b \in Owners(entries) : f[a] = f[b] => a = b
  BY <1>1 DEF Owners
<1>4. ASSUME NEW i \in T PROVE \E a \in Owners(entries) : f[a] = i
  <2>1. n + 1 - i \in 1 .. n /\ n + 1 - (n + 1 - i) = i
    BY <1>1
  <2>2. n + 1 - i \in Owners(entries)
    BY <2>1 DEF Owners, Aged
  <2> QED
    BY <2>1, <2>2
<1>5. IsFiniteSet(Owners(entries))
  BY OwnersAreFinite
<1> HIDE DEF f, T
<1>6. Cardinality(T) = Cardinality(Owners(entries))
  BY <1>2, <1>3, <1>4, <1>5, SameNumber
<1> QED
  BY <1>6 DEF Referenced, T

-----------------------------------------------------------------------------
(***************************************************************************)
(* What an action does to the list, the map and the blocks.                *)
(***************************************************************************)
Stays == UNCHANGED <<entries, map, blocks>>

\* Only an array's block is freed behind its entry.
Sound(e) == e.dangling => e.value \in Arrays

\* The entry of a name is exchanged.
Exchanges ==
  \E n \in DOMAIN map, e \in Entries :
    /\ e.name = n
    /\ n \in ReadOnly => e.value = entries[Place(n)].value
    /\ Sound(e)
    /\ entries' = [entries EXCEPT ![Place(n)] = e]
    /\ blocks' = blocks + Freed(e) - Freed(entries[Place(n)])
    /\ UNCHANGED map

\* An entry of a name the map does not know is added, mapped or not.
Enters ==
  \E n \in Names \ DOMAIN map, e \in Entries :
    /\ e.name = n /\ ~e.dangling
    /\ entries' = <<e>> \o entries
    /\ blocks' = blocks + Freed(e)
    /\ \/ UNCHANGED map
       \/ map' = [x \in DOMAIN map \cup {n} |-> IF x = n THEN Len(entries) + 1 ELSE map[x]]

\* The first entry of a name is removed.
Goes ==
  \E n \in Names : \E i \in Places(n) :
    /\ \A j \in Places(n) : i <= j
    /\ entries' = RemoveAt(entries, i)
    /\ blocks' = blocks - Freed(entries[i])
    /\ map' = MapWithout(n, Len(entries) + 1 - i)

Clears == entries' = <<>> /\ DOMAIN map' = {} /\ blocks' = blocks - Referenced

Solid == \A e \in Range(entries) : Sound(e)

\* What a step has to show.
ReadOnlyStays ==
  \A n \in ReadOnly :
    n \in DOMAIN map /\ n \in DOMAIN map' =>
      Aged(entries', map'[n]).value = Aged(entries, map[n]).value

Kept ==
  /\ entries' \in Seq(Entries)
  /\ DOMAIN map' \subseteq Names
  /\ \A n \in DOMAIN map' : map'[n] \in 1 .. Len(entries')
  /\ Youngest'
  /\ Counted'
  /\ ReadOnlyStays
  /\ Solid => Solid'

LEMMA SolidByAge ==
  ASSUME NEW list \in Seq(Entries)
  PROVE  (\A e \in Range(list) : Sound(e))
           <=> \A a \in 1 .. Len(list) : Sound(Aged(list, a))
<1>1. Len(list) \in Nat /\ DOMAIN list = 1 .. Len(list)
  BY Ages
<1>2. \A a \in 1 .. Len(list) : Aged(list, a) \in Range(list)
  BY <1>1, Ages DEF Aged, Range
<1>3. ASSUME NEW e \in Range(list) PROVE \E a \in 1 .. Len(list) : Aged(list, a) = e
  <2>1. PICK i \in DOMAIN list : list[i] = e
    BY DEF Range
  <2>2. /\ Len(list) + 1 - i \in 1 .. Len(list)
        /\ Len(list) + 1 - (Len(list) + 1 - i) = i
    BY <1>1
  <2> QED
    BY <2>1, <2>2 DEF Aged
<1> QED
  BY <1>2, <1>3

LEMMA StaysKeeps == IInv /\ Stays => Kept
<1> SUFFICES ASSUME IInv, Stays PROVE Kept
  OBVIOUS
<1> USE DEF IInv, Stays
<1>1. entries' = entries /\ map' = map /\ blocks' = blocks
  OBVIOUS
<1>2. Youngest'
  BY <1>1 DEF Youngest
<1>3. Counted'
  BY <1>1 DEF Counted
<1>4. ReadOnlyStays
  BY <1>1 DEF ReadOnlyStays
<1>5. Solid => Solid'
  BY <1>1 DEF Solid
<1> QED
  BY <1>1, <1>2, <1>3, <1>4, <1>5 DEF Kept, Typed

LEMMA ExchangesKeeps == IInv /\ Exchanges => Kept
<1> SUFFICES ASSUME IInv, Exchanges PROVE Kept
  OBVIOUS
<1>0. /\ entries \in Seq(Entries) /\ DOMAIN map \subseteq Names
      /\ \A n \in DOMAIN map : map[n] \in 1 .. Len(entries)
  BY DEF IInv, Typed
<1>1. PICK n \in DOMAIN map, e \in Entries :
        /\ e.name = n
        /\ n \in ReadOnly => e.value = entries[Place(n)].value
        /\ Sound(e)
        /\ entries' = [entries EXCEPT ![Place(n)] = e]
        /\ blocks' = blocks + Freed(e) - Freed(entries[Place(n)])
        /\ map' = map
  BY DEF Exchanges
<1> DEFINE a == map[n]
<1>2. a \in 1 .. Len(entries) /\ Place(n) = Len(entries) + 1 - a
  BY <1>0 DEF Place
<1>3. entries[Place(n)] = Aged(entries, a)
  BY <1>2 DEF Aged
<1>4. /\ entries' \in Seq(Entries) /\ Len(entries') = Len(entries)
      /\ \A b \in 1 .. Len(entries) :
           Aged(entries', b) = IF b = a THEN e ELSE Aged(entries, b)
      /\ Cardinality(Owners(entries')) =
           Cardinality(Owners(entries)) + Freed(e) - Freed(Aged(entries, a))
  <2>1. entries' = [entries EXCEPT ![Len(entries) + 1 - a] = e]
    BY <1>1, <1>2
  <2>2. a \in 1 .. Len(entries) /\ entries \in Seq(Entries) /\ e \in Entries
    BY <1>0, <1>2
  <2> HIDE DEF a
  <2> DEFINE next == [entries EXCEPT ![Len(entries) + 1 - a] = e]
  <2>3. /\ next \in Seq(Entries) /\ Len(next) = Len(entries)
        /\ \A b \in 1 .. Len(entries) : Aged(next, b) = IF b = a THEN e ELSE Aged(entries, b)
        /\ Cardinality(Owners(next)) =
             Cardinality(Owners(entries)) + Freed(e) - Freed(Aged(entries, a))
    BY <2>2, ExchangedAt, Zenon
  <2> QED
    BY <2>1, <2>3, Zenon
<1>5. Aged(entries, a).name = n
  BY DEF IInv, Youngest
<1>6. \A b \in 1 .. Len(entries) : Aged(entries', b).name = Aged(entries, b).name
  BY <1>1, <1>4, <1>5
<1>7. Youngest'
  BY <1>0, <1>1, <1>4, <1>6 DEF IInv, Youngest
<1>8. Counted'
  BY <1>1, <1>3, <1>4 DEF IInv, Counted
<1>9. ReadOnlyStays
  <2>1. ASSUME NEW x \in ReadOnly, x \in DOMAIN map
        PROVE  Aged(entries', map[x]).value = Aged(entries, map[x]).value
    <3>1. map[x] \in 1 .. Len(entries) /\ Aged(entries, map[x]).name = x
      BY <2>1, <1>0 DEF IInv, Youngest
    <3>2. CASE x = n
      <4>1. Aged(entries', a) = e
        BY <1>2, <1>4
      <4> QED
        BY <4>1, <3>2, <2>1, <1>1, <1>3
    <3>3. CASE x # n
      <4>1. map[x] # a
        BY <3>1, <3>3, <1>5
      <4> QED
        BY <4>1, <3>1, <1>4
    <3> QED
      BY <3>2, <3>3
  <2> QED
    BY <2>1, <1>1 DEF ReadOnlyStays
<1>10. ASSUME Solid PROVE Solid'
  <2>1. \A b \in 1 .. Len(entries) : Sound(Aged(entries, b))
    BY <1>0, <1>10, SolidByAge DEF Solid
  <2>2. \A b \in 1 .. Len(entries') : Sound(Aged(entries', b))
    BY <2>1, <1>1, <1>2, <1>3, <1>4, <1>10
  <2> QED
    BY <2>2, <1>4, SolidByAge DEF Solid
<1> QED
  BY <1>0, <1>1, <1>4, <1>7, <1>8, <1>9, <1>10 DEF Kept

LEMMA EntersKeeps == IInv /\ Enters => Kept
<1> SUFFICES ASSUME IInv, Enters PROVE Kept
  OBVIOUS
<1> DEFINE m == Len(entries) + 1
<1>0. /\ entries \in Seq(Entries) /\ DOMAIN map \subseteq Names
      /\ \A x \in DOMAIN map : map[x] \in 1 .. Len(entries)
      /\ Len(entries) \in Nat
  BY Ages DEF IInv, Typed
<1>1. PICK n \in Names \ DOMAIN map, e \in Entries :
        /\ e.name = n /\ ~e.dangling
        /\ entries' = <<e>> \o entries
        /\ blocks' = blocks + Freed(e)
        /\ \/ map' = map
           \/ map' = [x \in DOMAIN map \cup {n} |-> IF x = n THEN m ELSE map[x]]
  BY DEF Enters
<1>2. /\ entries' \in Seq(Entries) /\ Len(entries') = m
      /\ Aged(entries', m) = e
      /\ \A b \in 1 .. Len(entries) : Aged(entries', b) = Aged(entries, b)
      /\ Cardinality(Owners(entries')) = Cardinality(Owners(entries)) + Freed(e)
  BY <1>0, <1>1, FrontedAt
<1>3. 1 .. m = (1 .. Len(entries)) \cup {m} /\ m \notin 1 .. Len(entries)
  BY <1>0
<1>4. \A x \in DOMAIN map : x \in DOMAIN map' /\ map'[x] = map[x] /\ x # n
  BY <1>1
<1>5. \A x \in DOMAIN map' : x \in DOMAIN map \/ (x = n /\ map'[x] = m)
  BY <1>1
<1>6. DOMAIN map' \subseteq Names /\ \A x \in DOMAIN map' : map'[x] \in 1 .. m
  BY <1>0, <1>3, <1>4, <1>5
<1>7. Youngest'
  <2>1. ASSUME NEW x \in DOMAIN map'
        PROVE  /\ Aged(entries', map'[x]).name = x
               /\ \A b \in 1 .. m : Aged(entries', b).name = x => b <= map'[x]
    <3>1. CASE x \in DOMAIN map
      <4>1. /\ map'[x] = map[x] /\ x # n /\ map[x] \in 1 .. Len(entries)
            /\ Aged(entries, map[x]).name = x
            /\ \A b \in 1 .. Len(entries) : Aged(entries, b).name = x => b <= map[x]
        BY <3>1, <1>0, <1>4 DEF IInv, Youngest
      <4> QED
        BY <4>1, <1>1, <1>2, <1>3
    <3>2. CASE x = n /\ map'[x] = m
      <4>1. \A b \in 1 .. m : b <= m
        BY <1>0
      <4> QED
        BY <4>1, <3>2, <1>1, <1>2
    <3> QED
      BY <3>1, <3>2, <1>5
  <2> QED
    BY <2>1, <1>2 DEF Youngest
<1>8. Counted'
  BY <1>1, <1>2 DEF IInv, Counted
<1>9. ReadOnlyStays
  BY <1>0, <1>2, <1>4 DEF ReadOnlyStays
<1>10. ASSUME Solid PROVE Solid'
  <2>1. \A b \in 1 .. Len(entries) : Sound(Aged(entries, b))
    BY <1>0, <1>10, SolidByAge DEF Solid
  <2>2. \A b \in 1 .. Len(entries') : Sound(Aged(entries', b))
    BY <2>1, <1>1, <1>2, <1>3 DEF Sound
  <2> QED
    BY <2>2, <1>2, SolidByAge DEF Solid
<1> QED
  BY <1>2, <1>6, <1>7, <1>8, <1>9, <1>10 DEF Kept

LEMMA GoesKeeps == IInv /\ Goes => Kept
<1> SUFFICES ASSUME IInv, Goes PROVE Kept
  OBVIOUS
<1>0. /\ entries \in Seq(Entries) /\ DOMAIN map \subseteq Names
      /\ \A x \in DOMAIN map : map[x] \in 1 .. Len(entries)
      /\ Len(entries) \in Nat /\ DOMAIN entries = 1 .. Len(entries)
  BY Ages DEF IInv, Typed
<1>a. PICK n \in Names : \E i \in Places(n) :
        /\ \A j \in Places(n) : i <= j
        /\ entries' = RemoveAt(entries, i)
        /\ blocks' = blocks - Freed(entries[i])
        /\ map' = MapWithout(n, Len(entries) + 1 - i)
  BY DEF Goes
<1>1. PICK i \in Places(n) :
        /\ \A j \in Places(n) : i <= j
        /\ entries' = RemoveAt(entries, i)
        /\ blocks' = blocks - Freed(entries[i])
        /\ map' = MapWithout(n, Len(entries) + 1 - i)
  BY <1>a
<1> DEFINE a == Len(entries) + 1 - i
           k == Len(entries)
<1>2. /\ i \in 1 .. k /\ entries[i].name = n
      /\ a \in 1 .. k /\ k + 1 - a = i
  BY <1>0 DEF Places
<1>3. entries[i] = Aged(entries, a)
  BY <1>2 DEF Aged
<1>4. /\ entries' \in Seq(Entries) /\ Len(entries') = k - 1
      /\ \A b \in 1 .. k - 1 :
           Aged(entries', b) = IF b < a THEN Aged(entries, b) ELSE Aged(entries, b + 1)
      /\ Cardinality(Owners(entries')) = Cardinality(Owners(entries)) - Freed(Aged(entries, a))
  BY <1>0, <1>1, <1>2, RemovedAt
<1>5. /\ DOMAIN map' = DOMAIN map \ {n}
      /\ \A x \in DOMAIN map' : map'[x] = IF map[x] > a THEN map[x] - 1 ELSE map[x]
  BY <1>1 DEF MapWithout
<1> HIDE DEF a
<1>6. \A x \in DOMAIN map' :
        /\ x \in DOMAIN map /\ x # n /\ map[x] \in 1 .. k /\ map[x] # a
        /\ Aged(entries, map[x]).name = x
        /\ \A b \in 1 .. k : Aged(entries, b).name = x => b <= map[x]
  BY <1>0, <1>2, <1>3, <1>5 DEF IInv, Youngest
<1>7. ASSUME NEW x \in DOMAIN map'
      PROVE  map'[x] \in 1 .. k - 1 /\ Aged(entries', map'[x]) = Aged(entries, map[x])
  <2>1. CASE map[x] > a
    <3>1. map[x] - 1 \in 1 .. k - 1 /\ ~(map[x] - 1 < a) /\ (map[x] - 1) + 1 = map[x]
      BY <2>1, <1>0, <1>2, <1>6
    <3> QED
      BY <3>1, <2>1, <1>4, <1>5
  <2>2. CASE ~(map[x] > a)
    <3>1. map[x] \in 1 .. k - 1 /\ map[x] < a
      BY <2>2, <1>0, <1>2, <1>6
    <3> QED
      BY <3>1, <2>2, <1>4, <1>5
  <2> QED
    BY <2>1, <2>2
<1>8. Youngest'
  <2>1. ASSUME NEW x \in DOMAIN map', NEW b \in 1 .. k - 1, Aged(entries', b).name = x
        PROVE  b <= map'[x]
    <3>1. CASE b < a
      <4>1. b \in 1 .. k /\ Aged(entries, b).name = x
        BY <3>1, <2>1, <1>0, <1>4
      <4>2. b <= map[x]
        BY <4>1, <1>6
      <4> QED
        BY <4>2, <3>1, <1>0, <1>2, <1>5, <1>6
    <3>2. CASE ~(b < a)
      <4>1. b + 1 \in 1 .. k /\ Aged(entries, b + 1).name = x
        BY <3>2, <2>1, <1>0, <1>4
      <4>2. b + 1 <= map[x]
        BY <4>1, <1>6
      <4> QED
        BY <4>2, <3>2, <1>0, <1>2, <1>5, <1>6
    <3> QED
      BY <3>1, <3>2
  <2> QED
    BY <2>1, <1>4, <1>6, <1>7 DEF Youngest
<1>9. Counted'
  BY <1>1, <1>3, <1>4 DEF IInv, Counted
<1>10. ReadOnlyStays
  BY <1>7 DEF ReadOnlyStays
<1>11. ASSUME Solid PROVE Solid'
  <2>1. \A b \in 1 .. k : Sound(Aged(entries, b))
    BY <1>0, <1>11, SolidByAge DEF Solid
  <2>2. \A b \in 1 .. k - 1 : b \in 1 .. k /\ b + 1 \in 1 .. k
    BY <1>0
  <2>3. \A b \in 1 .. k - 1 : Sound(Aged(entries', b))
    BY <2>1, <2>2, <1>4
  <2> QED
    BY <2>3, <1>4, SolidByAge DEF Solid
<1>12. DOMAIN map' \subseteq Names
  BY <1>0, <1>5
<1> QED
  BY <1>4, <1>7, <1>8, <1>9, <1>10, <1>11, <1>12 DEF Kept

LEMMA ClearsKeeps == IInv /\ Clears => Kept
<1> SUFFICES ASSUME IInv, Clears PROVE Kept
  OBVIOUS
<1>1. entries' = <<>> /\ DOMAIN map' = {} /\ blocks' = blocks - Referenced
  BY DEF Clears
<1>2. blocks = Cardinality(Owners(entries)) /\ Referenced = Cardinality(Owners(entries))
  BY ReferencedByAge DEF IInv, Typed, Counted
<1>3. Cardinality(Owners(entries)) \in Nat
  BY OwnersAreFinite DEF IInv, Typed
<1>4. blocks' = 0
  BY <1>1, <1>2, <1>3
<1>5. Owners(<<>>) = {}
  BY DEF Owners
<1>6. Counted'
  BY <1>1, <1>4, <1>5, FS_EmptySet DEF Counted
<1>7. Solid'
  BY <1>1 DEF Solid, Range
<1>8. Youngest' /\ ReadOnlyStays
  BY <1>1 DEF Youngest, ReadOnlyStays
<1> QED
  BY <1>1, <1>6, <1>7, <1>8 DEF Kept

-----------------------------------------------------------------------------
(***************************************************************************)
(* Every action is such a step.                                            *)
(***************************************************************************)
Moves == Stays \/ Exchanges \/ Enters \/ Goes \/ Clears

LEMMA EntryOf ==
  ASSUME IInv, NEW n \in DOMAIN map
  PROVE  /\ n \in Names /\ Place(n) \in 1 .. Len(entries)
         /\ entries[Place(n)] \in Entries /\ entries[Place(n)].name = n
<1>1. n \in Names /\ map[n] \in 1 .. Len(entries) /\ entries \in Seq(Entries)
  BY DEF IInv, Typed
<1>2. Aged(entries, map[n]).name = n
  BY DEF IInv, Youngest
<1> QED
  BY <1>1, <1>2, Ages DEF Place, Aged

\* A value that is replaced is an entry that is exchanged.
LEMMA ReplacedEntry ==
  ASSUME IInv, NEW n \in Names, NEW v \in Values, NEW lost, Replace(n, v, lost)
  PROVE  /\ n \in DOMAIN map /\ n \notin ReadOnly /\ map' = map
         /\ blocks' = blocks + Owned(v) - Freed(entries[Place(n)])
         /\ entries' = [entries EXCEPT ![Place(n)] = [name |-> n, value |-> v, dangling |-> FALSE]]
<1> DEFINE e == [name |-> n, value |-> v, dangling |-> FALSE]
<1>1. /\ n \in DOMAIN map /\ n \notin ReadOnly
      /\ entries' = [entries EXCEPT ![Place(n)].value = v, ![Place(n)].dangling = FALSE]
      /\ blocks' = blocks + Owned(v) - Freed(entries[Place(n)])
      /\ map' = map
  BY DEF Replace, MayReplace, Found, Replaced, Stored
<1>2. /\ entries \in Seq(Entries) /\ Place(n) \in 1 .. Len(entries)
      /\ entries[Place(n)] \in Entries /\ entries[Place(n)].name = n
  BY <1>1, EntryOf DEF IInv, Typed
<1>3. [[entries[Place(n)] EXCEPT !.value = v] EXCEPT !.dangling = FALSE] = e
  <2> DEFINE half == [name |-> n, value |-> v, dangling |-> entries[Place(n)].dangling]
  <2>1. [entries[Place(n)] EXCEPT !.value = v] = half
    BY <1>2 DEF Entries
  <2>2. half \in Entries /\ half.name = n /\ half.value = v
    BY <1>2 DEF Entries
  <2> HIDE DEF half
  <2>3. \A b \in BOOLEAN : [half EXCEPT !.dangling = b] = [name |-> n, value |-> v, dangling |-> b]
    BY <2>2 DEF Entries
  <2>4. [half EXCEPT !.dangling = FALSE] = e
    BY <2>3, Zenon
  <2> QED
    BY <2>1, <2>4, Zenon
<1>4. entries' = [entries EXCEPT ![Place(n)] = e]
  BY <1>1, <1>2, <1>3
<1> QED
  BY <1>1, <1>4

\* The setters and the array branch of the loader.
LEMMA AssignMoves ==
  ASSUME IInv, NEW n \in Names, NEW v \in Values, NEW lost, Assign(n, v, lost)
  PROVE  Moves
<1>1. CASE Replace(n, v, lost)
  <2> DEFINE e == [name |-> n, value |-> v, dangling |-> FALSE]
  <2>1. e \in Entries /\ e.name = n /\ Sound(e) /\ Freed(e) = Owned(v)
    BY DEF Entries, Freed, Sound
  <2>2. /\ n \in DOMAIN map /\ n \notin ReadOnly /\ map' = map
        /\ blocks' = blocks + Owned(v) - Freed(entries[Place(n)])
        /\ entries' = [entries EXCEPT ![Place(n)] = e]
    BY <1>1, ReplacedEntry
  <2> HIDE DEF e
  <2> QED
    BY <2>1, <2>2 DEF Exchanges, Moves
<1>2. CASE Add(n, v, lost) \/ AddUnmapped(n, v, lost)
  <2> DEFINE e == [name |-> n, value |-> v, dangling |-> FALSE]
  <2>1. e \in Entries /\ e.name = n /\ e.dangling = FALSE /\ Freed(e) = Owned(v)
    BY DEF Entries, Freed
  <2>2. /\ n \in Names \ DOMAIN map
        /\ entries' = <<e>> \o entries
        /\ blocks' = blocks + Owned(v)
        /\ \/ map' = map
           \/ map' = [x \in DOMAIN map \cup {n} |-> IF x = n THEN Len(entries) + 1 ELSE map[x]]
    BY <1>2 DEF Add, AddUnmapped, Link, Found
  <2> HIDE DEF e
  <2> QED
    BY <2>1, <2>2 DEF Enters, Moves
<1>3. CASE ReplaceCrashes(n, v, lost) \/ SetFails(n, v, lost) \/ Ignore(n, v, lost)
  BY <1>3 DEF ReplaceCrashes, SetFails, Ignore, Crash, Stays, Moves
<1> QED
  BY <1>1, <1>2, <1>3 DEF Assign

LEMMA RemoveMoves ==
  ASSUME IInv, NEW n \in Names, RemoveVariable(n)
  PROVE  Moves
<1> DEFINE i == CHOOSE i \in Places(n) : \A j \in Places(n) : i <= j
<1>1. Places(n) \subseteq Nat /\ Places(n) # {}
  BY Ages, SMTT(60) DEF RemoveVariable, Places, IInv, Typed
<1>2. i \in Places(n) /\ \A j \in Places(n) : i <= j
  BY <1>1, SmallestPlace
<1>3. CASE Broken(entries[i])
  BY <1>3 DEF RemoveVariable, Crash, Stays, Moves
<1>4. CASE ~Broken(entries[i])
  <2>1. /\ entries' = RemoveAt(entries, i)
        /\ blocks' = blocks - Freed(entries[i])
        /\ map' = MapWithout(n, Len(entries) + 1 - i)
    BY <1>4 DEF RemoveVariable
  <2> HIDE DEF i
  <2> QED
    BY <1>2, <2>1 DEF Goes, Moves
<1> QED
  BY <1>3, <1>4

LEMMA EvaluateMoves ==
  ASSUME IInv, NEW n \in Names, Evaluate(n)
  PROVE  Moves
<1>1. CASE Broken(entries[Place(n)])
  BY <1>1 DEF Evaluate, Crash, Stays, Moves
<1>2. CASE ~Broken(entries[Place(n)])
  <2> DEFINE old == entries[Place(n)]
             e == [name |-> n, value |-> old.value, dangling |-> old.value \in Arrays]
  <2>1. /\ n \in DOMAIN map
        /\ entries' = [entries EXCEPT ![Place(n)].dangling = old.value \in Arrays]
        /\ blocks' = IF old.value \in Arrays THEN blocks - Owned(old.value) ELSE blocks
        /\ map' = map
    BY <1>2 DEF Evaluate, Found
  <2>2. /\ entries \in Seq(Entries) /\ Place(n) \in 1 .. Len(entries)
        /\ old \in Entries /\ old.name = n
    BY <2>1, EntryOf DEF IInv, Typed
  <2>3. e \in Entries
    BY <2>2 DEF Entries
  <2>4. e = [old EXCEPT !.dangling = old.value \in Arrays]
    BY <2>2 DEF Entries
  <2>5. entries' = [entries EXCEPT ![Place(n)] = e]
    BY <2>1, <2>2, <2>4
  <2>6. blocks \in Nat
    BY OwnersAreFinite DEF IInv, Typed, Counted
  <2>7. Freed(old) = Owned(old.value) /\ Freed(old) \in {0, 1}
    BY <1>2, <2>2, FreedIsBit DEF Freed, Broken
  <2>8. Freed(e) = IF old.value \in Arrays THEN 0 ELSE Owned(old.value)
    <3>1. e.value = old.value /\ e.dangling = (old.value \in Arrays)
      OBVIOUS
    <3>2. CASE old.value \in Arrays
      BY <3>1, <3>2 DEF Freed
    <3>3. CASE old.value \notin Arrays
      BY <3>1, <3>3 DEF Freed
    <3> QED
      BY <3>2, <3>3
  <2>9. blocks' = blocks + Freed(e) - Freed(old)
    BY <2>1, <2>6, <2>7, <2>8
  <2>10. e.name = n /\ e.value = old.value /\ Sound(e)
    BY DEF Sound
  <2> HIDE DEF e
  <2> QED
    BY <2>1, <2>3, <2>5, <2>9, <2>10 DEF Exchanges, Moves
<1> QED
  BY <1>1, <1>2

LEMMA FreeMoves ==
  ASSUME IInv, Free
  PROVE  Moves
BY DEF Free, Crash, Stays, Clears, Moves

LEMMA HeadIsMember ==
  ASSUME IInv, todo # <<>>
  PROVE  Head(todo) \in Member /\ Head(todo).name \in Names /\ Tail(todo) \in Seq(Member)
<1>1. Head(todo) \in Member /\ Tail(todo) \in Seq(Member)
  BY HeadTailProperties DEF IInv, Typed
<1> QED
  BY <1>1 DEF Member

LEMMA LoadMemberMoves ==
  ASSUME IInv, LoadMember
  PROVE  Moves
<1>1. Head(todo).name \in Names /\ LoadedValue(Head(todo)) \in Values /\ NoItems \in Values
  BY HeadIsMember DEF LoadMember, Loading, Values, Owning
<1> QED
  BY <1>1, AssignMoves DEF LoadMember

LEMMA RestIsMembers ==
  ASSUME IInv, todo # <<>>
  PROVE  AfterObject(todo) \in Seq(Member)
<1> DEFINE outer == {i \in DOMAIN todo : todo[i].depth < Head(todo).depth}
           first == CHOOSE i \in outer : \A j \in outer : i <= j
<1>1. todo \in Seq(Member) /\ Len(todo) \in Nat /\ DOMAIN todo = 1 .. Len(todo)
  BY LenProperties DEF IInv, Typed
<1>2. CASE outer = {}
  BY <1>2 DEF AfterObject
<1>3. CASE outer # {}
  <2>1. first \in outer
    <3>1. outer \subseteq Nat
      BY <1>1
    <3> HIDE DEF outer
    <3>2. \E i \in outer : \A j \in outer : i <= j
      BY <1>3, <3>1, SmallestPlace
    <3> QED
      BY <3>2
  <2>2. first \in 1 .. Len(todo)
    BY <2>1, <1>1
  <2>3. AfterObject(todo) = SubSeq(todo, first, Len(todo))
    BY <1>3 DEF AfterObject
  <2> HIDE DEF first
  <2>4. \A i \in first .. Len(todo) : todo[i] \in Member
    BY <1>1, <2>2, ElementOfSeq
  <2> QED
    BY <1>1, <2>2, <2>3, <2>4, SubSeqProperties
<1> QED
  BY <1>2, <1>3

LEMMA NextSteps == IInv /\ [Next]_vars => Moves /\ todo' \in Seq(Member)
<1> SUFFICES ASSUME IInv, [Next]_vars PROVE Moves /\ todo' \in Seq(Member)
  OBVIOUS
<1>0. todo \in Seq(Member)
  BY DEF IInv, Typed
<1>1. ASSUME NEW n \in Names, NEW v \in Scalars \cup Strings, Set(n, v)
      PROVE  Moves /\ todo' \in Seq(Member)
  BY <1>0, <1>1, AssignMoves DEF Set, loadVars, Values, Owning
<1>2. ASSUME NEW n \in Names, RemoveVariable(n) PROVE Moves /\ todo' \in Seq(Member)
  BY <1>0, <1>2, RemoveMoves DEF RemoveVariable, loadVars
<1>3. ASSUME NEW n \in Names, Evaluate(n) PROVE Moves /\ todo' \in Seq(Member)
  BY <1>0, <1>3, EvaluateMoves DEF Evaluate, loadVars
<1>4. ASSUME NEW d \in Documents, Load(d) PROVE Moves /\ todo' \in Seq(Member)
  BY <1>4, ContextAssumption DEF Load, Stays, Moves
<1>5. CASE LoadMember
  BY <1>5, LoadMemberMoves, HeadIsMember DEF LoadMember, Loading
<1>6. CASE PassMember
  BY <1>6, HeadIsMember DEF PassMember, Loading, Stays, Moves
<1>7. CASE AbandonObject
  BY <1>7, RestIsMembers DEF AbandonObject, Loading, Stays, Moves
<1>8. CASE LoadReturns
  BY <1>0, <1>8 DEF LoadReturns, Stays, Moves
<1>9. CASE Free
  BY <1>0, <1>9, FreeMoves DEF Free, loadVars
<1>10. CASE Ended \/ UNCHANGED vars
  BY <1>0, <1>10 DEF Ended, vars, loadVars, Stays, Moves
<1> QED
  BY <1>1, <1>2, <1>3, <1>4, <1>5, <1>6, <1>7, <1>8, <1>9, <1>10 DEF Next

LEMMA StepKeeps == IInv /\ [Next]_vars => IInv' /\ Kept
<1> SUFFICES ASSUME IInv, [Next]_vars PROVE IInv' /\ Kept
  OBVIOUS
<1>1. Moves /\ todo' \in Seq(Member)
  BY NextSteps
<1>2. Kept
  BY <1>1, StaysKeeps, ExchangesKeeps, EntersKeeps, GoesKeeps, ClearsKeeps DEF Moves
<1>3. Typed'
  BY <1>1, <1>2 DEF Kept, Typed
<1> QED
  BY <1>2, <1>3 DEF Kept, IInv

LEMMA InitHolds == Init => IInv /\ Solid
<1> SUFFICES ASSUME Init PROVE IInv /\ Solid
  OBVIOUS
<1>1. entries = <<>> /\ DOMAIN map = {} /\ blocks = 0 /\ todo = <<>>
  BY DEF Init
<1>2. Owners(<<>>) = {}
  BY DEF Owners
<1>3. Counted
  BY <1>1, <1>2, FS_EmptySet DEF Counted
<1>4. Solid
  BY <1>1 DEF Solid, Range
<1> QED
  BY <1>1, <1>3, <1>4 DEF IInv, Typed, Youngest

LEMMA Invariance == Spec => []IInv
<1>1. IInv /\ [Next]_vars => IInv'
  BY StepKeeps
<1> QED
  BY <1>1, InitHolds, PTL DEF Spec

-----------------------------------------------------------------------------
(***************************************************************************)
(* The theorems.                                                           *)
(***************************************************************************)
\* What the map finds for a name is the first entry of that name in the list,
\* the one cdsl_context_remove unlinks, whatever entries failed allocations have
\* hidden from the map.
THEOREM FirstEntry == Spec => []MapFindsFirstEntry
<1>1. IInv => MapFindsFirstEntry
  <2> SUFFICES ASSUME IInv, NEW n \in DOMAIN map
               PROVE  Place(n) \in Places(n) /\ \A j \in Places(n) : Place(n) <= j
    BY DEF MapFindsFirstEntry
  <2>1. /\ entries \in Seq(Entries) /\ map[n] \in 1 .. Len(entries)
        /\ Len(entries) \in Nat /\ DOMAIN entries = 1 .. Len(entries)
    BY Ages DEF IInv, Typed
  <2>2. Place(n) \in Places(n)
    BY <2>1, EntryOf DEF Places
  <2>3. ASSUME NEW j \in Places(n) PROVE Place(n) <= j
    <3>1. /\ j \in 1 .. Len(entries) /\ entries[j].name = n
          /\ Len(entries) + 1 - j \in 1 .. Len(entries)
          /\ Len(entries) + 1 - (Len(entries) + 1 - j) = j
      BY <2>1 DEF Places
    <3>2. Aged(entries, Len(entries) + 1 - j).name = n
      BY <3>1 DEF Aged
    <3>3. Len(entries) + 1 - j <= map[n]
      BY <3>1, <3>2 DEF IInv, Youngest
    <3> QED
      BY <2>1, <3>1, <3>3 DEF Place
  <2> QED
    BY <2>2, <2>3
<1> QED
  BY <1>1, Invariance, PTL

\* A read-only variable that has a value keeps it through every setter and every
\* document, until it is removed.
THEOREM ReadOnlyKept == Spec => ReadOnlyIsKept
<1>1. IInv /\ [Next]_vars =>
        [\A n \in ReadOnly : Found(n) /\ Found(n)' => Lookup'[n] = Lookup[n]]_vars
  <2> SUFFICES ASSUME IInv, [Next]_vars, NEW n \in ReadOnly, n \in DOMAIN map, n \in DOMAIN map'
               PROVE  Lookup'[n] = Lookup[n]
    BY DEF Found
  <2>1. Aged(entries', map'[n]).value = Aged(entries, map[n]).value
    BY StepKeeps DEF Kept, ReadOnlyStays
  <2>2. Lookup[n] = Aged(entries, map[n]).value
    BY DEF Lookup, Place, Aged
  <2>3. Lookup'[n] = Aged(entries', map'[n]).value
    BY DEF Lookup, Place, Aged
  <2> QED
    BY <2>1, <2>2, <2>3
<1> QED
  BY <1>1, Invariance, PTL DEF Spec, ReadOnlyIsKept

\* Every block that is allocated for a value is owned by one entry, and no entry has
\* lost its own but one whose array a rule has evaluated: no setter, document,
\* removal or failed allocation leaves a block behind or frees one twice.
THEOREM MemoryOwned == Spec => []MemoryIsOwned
<1>1. Solid /\ IInv /\ [Next]_vars => Solid'
  BY StepKeeps DEF Kept
<1>2. Solid /\ IInv => MemoryIsOwned
  BY ReferencedByAge DEF Solid, Sound, IInv, Typed, Counted, MemoryIsOwned
<1> QED
  BY <1>1, <1>2, InitHolds, Invariance, PTL DEF Spec

-----------------------------------------------------------------------------
(***************************************************************************)
(* What a document has made of the variables when it is read up to its     *)
(* k-th member.                                                            *)
(***************************************************************************)
ValuesTo(d, k, n) == {i \in 1 .. k : d[i].name = n /\ d[i].value \in Values}

LoadedTo(d, k, before, look) ==
  /\ \A n : n \in DOMAIN look <=> n \in DOMAIN before \/ ValuesTo(d, k, n) # {}
  /\ \A n \in DOMAIN look :
       /\ ValuesTo(d, k, n) = {} \/ (n \in ReadOnly /\ n \in DOMAIN before) =>
            look[n] = before[n]
       /\ ValuesTo(d, k, n) # {} /\ n \notin ReadOnly =>
            \E i \in ValuesTo(d, k, n) :
              look[n] = d[i].value /\ \A j \in ValuesTo(d, k, n) : i >= j
       /\ ValuesTo(d, k, n) # {} /\ n \in ReadOnly /\ n \notin DOMAIN before =>
            \E i \in ValuesTo(d, k, n) :
              look[n] = d[i].value /\ \A j \in ValuesTo(d, k, n) : i <= j

\* The members that are left are the last ones of the document, and a load that
\* met no failure has made of the others what they say.
Loads ==
  /\ faults \in Nat
  /\ (job # NoJob /\ ended = "no") =>
       /\ job.document \in Seq(Member) /\ job.faults \in Nat /\ job.faults <= faults
       /\ job.faults = faults =>
            \E k \in 0 .. Len(job.document) :
              /\ Len(todo) = Len(job.document) - k
              /\ \A i \in 1 .. Len(todo) : todo[i] = job.document[k + i]
              /\ LoadedTo(job.document, k, job.before, Lookup)

LEMMA PassedMember ==
  ASSUME NEW d, NEW k \in Nat, NEW before, NEW look,
         LoadedTo(d, k, before, look), d[k + 1].value \notin Values
  PROVE  LoadedTo(d, k + 1, before, look)
<1>1. 1 .. k + 1 = (1 .. k) \cup {k + 1}
  OBVIOUS
<1>2. \A n : ValuesTo(d, k + 1, n) = ValuesTo(d, k, n)
  BY <1>1 DEF ValuesTo
<1> QED
  BY <1>2 DEF LoadedTo

\* A member with a value gives it to its variable, unless that is read-only and
\* has one.
LEMMA ReadMember ==
  ASSUME NEW d, NEW k \in Nat, NEW before, NEW look, NEW next, NEW n,
         LoadedTo(d, k, before, look),
         d[k + 1].name = n, d[k + 1].value \in Values,
         DOMAIN next = DOMAIN look \cup {n},
         \A x \in DOMAIN look : x # n => next[x] = look[x],
         n \in DOMAIN look /\ n \in ReadOnly => next[n] = look[n],
         ~(n \in DOMAIN look /\ n \in ReadOnly) => next[n] = d[k + 1].value
  PROVE  LoadedTo(d, k + 1, before, next)
<1>1. 1 .. k + 1 = (1 .. k) \cup {k + 1} /\ \A i \in 1 .. k : i <= k + 1
  OBVIOUS
<1>2. \A x : x # n => ValuesTo(d, k + 1, x) = ValuesTo(d, k, x)
  BY <1>1 DEF ValuesTo
<1>3. ValuesTo(d, k + 1, n) = ValuesTo(d, k, n) \cup {k + 1}
  BY <1>1 DEF ValuesTo
<1>4. \A i \in ValuesTo(d, k, n) : i <= k + 1 /\ k + 1 >= i /\ k + 1 >= k + 1
  BY <1>1 DEF ValuesTo
<1>5. \A x : x \in DOMAIN next <=> x \in DOMAIN before \/ ValuesTo(d, k + 1, x) # {}
  BY <1>2, <1>3 DEF LoadedTo
<1>6. ASSUME NEW x \in DOMAIN next, x # n
      PROVE  /\ ValuesTo(d, k + 1, x) = {} \/ (x \in ReadOnly /\ x \in DOMAIN before) =>
                  next[x] = before[x]
             /\ ValuesTo(d, k + 1, x) # {} /\ x \notin ReadOnly =>
                  \E i \in ValuesTo(d, k + 1, x) :
                    next[x] = d[i].value /\ \A j \in ValuesTo(d, k + 1, x) : i >= j
             /\ ValuesTo(d, k + 1, x) # {} /\ x \in ReadOnly /\ x \notin DOMAIN before =>
                  \E i \in ValuesTo(d, k + 1, x) :
                    next[x] = d[i].value /\ \A j \in ValuesTo(d, k + 1, x) : i <= j
  <2>1. x \in DOMAIN look /\ next[x] = look[x] /\ ValuesTo(d, k + 1, x) = ValuesTo(d, k, x)
    BY <1>2, <1>6
  <2> QED
    BY <2>1 DEF LoadedTo
<1>7. n \in ReadOnly /\ n \in DOMAIN before => next[n] = before[n]
  BY DEF LoadedTo
<1>8. n \notin ReadOnly =>
        \E i \in ValuesTo(d, k + 1, n) :
          next[n] = d[i].value /\ \A j \in ValuesTo(d, k + 1, n) : i >= j
  BY <1>3, <1>4
<1>9. ASSUME n \in ReadOnly, n \notin DOMAIN before
      PROVE  \E i \in ValuesTo(d, k + 1, n) :
               next[n] = d[i].value /\ \A j \in ValuesTo(d, k + 1, n) : i <= j
  <2>1. CASE ValuesTo(d, k, n) = {}
    <3>1. n \notin DOMAIN look
      BY <2>1, <1>9 DEF LoadedTo
    <3> QED
      BY <3>1, <2>1, <1>3
  <2>2. CASE ValuesTo(d, k, n) # {}
    <3>1. n \in DOMAIN look
      BY <2>2 DEF LoadedTo
    <3>2. PICK i \in ValuesTo(d, k, n) :
            look[n] = d[i].value /\ \A j \in ValuesTo(d, k, n) : i <= j
      BY <2>2, <3>1, <1>9 DEF LoadedTo
    <3> QED
      BY <3>1, <3>2, <1>3, <1>4, <1>9
  <2> QED
    BY <2>1, <2>2
<1> QED
  BY <1>3, <1>5, <1>6, <1>7, <1>8, <1>9 DEF LoadedTo

-----------------------------------------------------------------------------
(***************************************************************************)
(* What a setter that finds memory does to what lookups find.              *)
(***************************************************************************)
Looks(n, v) ==
  /\ DOMAIN Lookup' = DOMAIN Lookup \cup {n}
  /\ \A x \in DOMAIN Lookup : x # n => Lookup'[x] = Lookup[x]
  /\ n \in DOMAIN Lookup /\ n \in ReadOnly => Lookup'[n] = Lookup[n]
  /\ ~(n \in DOMAIN Lookup /\ n \in ReadOnly) => Lookup'[n] = v

LEMMA LooksUp ==
  /\ DOMAIN Lookup = DOMAIN map
  /\ \A n \in DOMAIN map : Lookup[n] = Aged(entries, map[n]).value
  /\ DOMAIN Lookup' = DOMAIN map'
  /\ \A n \in DOMAIN map' : Lookup'[n] = Aged(entries', map'[n]).value
BY DEF Lookup, Place, Aged

LEMMA ReplaceLooks ==
  ASSUME IInv, NEW n \in Names, NEW v \in Values, Replace(n, v, 0)
  PROVE  Looks(n, v)
<1> DEFINE e == [name |-> n, value |-> v, dangling |-> FALSE]
           a == map[n]
           next == [entries EXCEPT ![Len(entries) + 1 - a] = e]
<1>1. /\ n \in DOMAIN map /\ n \notin ReadOnly /\ map' = map
      /\ entries' = next
  BY ReplacedEntry DEF Place
<1>2. /\ entries \in Seq(Entries) /\ e \in Entries /\ e.value = v
      /\ \A x \in DOMAIN map : map[x] \in 1 .. Len(entries)
      /\ \A x \in DOMAIN map : Aged(entries, map[x]).name = x
  BY DEF IInv, Typed, Youngest, Entries
<1>3. a \in 1 .. Len(entries)
  BY <1>1, <1>2
<1> HIDE DEF e, a
<1>4. \A b \in 1 .. Len(entries) : Aged(next, b) = IF b = a THEN e ELSE Aged(entries, b)
  BY <1>2, <1>3, ExchangedAt, ZenonT(60)
<1> HIDE DEF next
<1>5. Aged(entries', map'[n]).value = v
  BY <1>1, <1>2, <1>3, <1>4 DEF a
<1>6. ASSUME NEW x \in DOMAIN map, x # n
      PROVE  Aged(entries', map'[x]).value = Aged(entries, map[x]).value
  <2>1. map[x] \in 1 .. Len(entries) /\ map[x] # a
    BY <1>1, <1>2, <1>6 DEF a
  <2> QED
    BY <2>1, <1>1, <1>4
<1> QED
  BY <1>1, <1>5, <1>6, LooksUp DEF Looks

LEMMA AddLooks ==
  ASSUME IInv, NEW n \in Names, NEW v \in Values, Add(n, v, 0)
  PROVE  Looks(n, v)
<1> DEFINE e == [name |-> n, value |-> v, dangling |-> FALSE]
           next == <<e>> \o entries
<1>1. /\ n \notin DOMAIN map /\ entries' = next
      /\ map' = [x \in DOMAIN map \cup {n} |-> IF x = n THEN Len(entries) + 1 ELSE map[x]]
  BY DEF Add, Link, Found
<1>2. /\ entries \in Seq(Entries) /\ e \in Entries /\ e.value = v
      /\ \A x \in DOMAIN map : map[x] \in 1 .. Len(entries)
  BY DEF IInv, Typed, Entries
<1> HIDE DEF e
<1>3. /\ Aged(next, Len(entries) + 1) = e
      /\ \A b \in 1 .. Len(entries) : Aged(next, b) = Aged(entries, b)
  BY <1>2, FrontedAt, Zenon
<1> HIDE DEF next
<1>4. Aged(entries', map'[n]).value = v
  BY <1>1, <1>2, <1>3
<1>5. ASSUME NEW x \in DOMAIN map
      PROVE  Aged(entries', map'[x]).value = Aged(entries, map[x]).value
  <2>1. map'[x] = map[x] /\ map[x] \in 1 .. Len(entries)
    BY <1>1, <1>2
  <2> QED
    BY <2>1, <1>1, <1>3
<1>6. DOMAIN map' = DOMAIN map \cup {n}
  BY <1>1
<1>7. \A x \in DOMAIN map : Lookup'[x] = Lookup[x]
  BY <1>5, <1>6, LooksUp
<1>8. Lookup'[n] = v
  BY <1>4, <1>6, LooksUp
<1>9. n \notin DOMAIN Lookup /\ DOMAIN Lookup' = DOMAIN Lookup \cup {n}
  BY <1>1, <1>6, LooksUp
<1> QED
  BY <1>7, <1>8, <1>9, LooksUp DEF Looks

\* A setter that reports no failed allocation has done what it says, or crashed.
LEMMA AssignLooks ==
  ASSUME IInv, Loads, NEW n \in Names, NEW v \in Values, NEW lost \in {0, 1},
         Assign(n, v, lost)
  PROVE  /\ faults' \in Nat /\ faults + lost <= faults'
         /\ faults' = faults /\ ended' = "no" => Looks(n, v)
<1>0. faults \in Nat
  BY DEF Loads
<1>1. CASE Replace(n, v, lost)
  <2>1. faults' = faults + lost
    BY <1>1 DEF Replace, Faulty
  <2>2. lost = 0 => Looks(n, v)
    BY <1>1, ReplaceLooks
  <2> QED
    BY <1>0, <2>1, <2>2
<1>2. CASE ReplaceCrashes(n, v, lost)
  BY <1>0, <1>2 DEF ReplaceCrashes, Crash, Faulty
<1>3. CASE Add(n, v, lost)
  <2>1. faults' = faults + lost
    BY <1>3 DEF Add, Faulty
  <2>2. lost = 0 => Looks(n, v)
    BY <1>3, AddLooks
  <2> QED
    BY <1>0, <2>1, <2>2
<1>4. CASE AddUnmapped(n, v, lost) \/ SetFails(n, v, lost)
  <2>1. faults' = faults + (lost + 1)
    BY <1>4 DEF AddUnmapped, SetFails, Faulty
  <2> QED
    BY <1>0, <2>1
<1>5. CASE Ignore(n, v, lost)
  <2>1. faults' = faults + lost /\ n \in DOMAIN map /\ n \in ReadOnly
    BY <1>5 DEF Ignore, Faulty, MayReplace, Found
  <2>2. ended' = "no" => entries' = entries /\ map' = map
    BY <1>5 DEF Ignore, Crash
  <2>3. ASSUME ended' = "no" PROVE Looks(n, v)
    BY <2>1, <2>2, <2>3, LooksUp DEF Looks
  <2> QED
    BY <1>0, <2>1, <2>3
<1> QED
  BY <1>1, <1>2, <1>3, <1>4, <1>5 DEF Assign

-----------------------------------------------------------------------------
(***************************************************************************)
(* Loads is kept by every step.                                            *)
(***************************************************************************)
LEMMA LoadMemberLoads ==
  ASSUME IInv, Loads, LoadMember
  PROVE  Loads'
<1> DEFINE m == Head(todo)
           d == job.document
<1>0. /\ faults \in Nat /\ todo # <<>> /\ ended = "no" /\ job' = job
      /\ todo \in Seq(Member) /\ todo' = Tail(todo)
  BY DEF Loads, LoadMember, Loading, IInv, Typed
<1>1. /\ m.name \in Names /\ m.value \in Values /\ NoItems \in Values
      /\ Assign(m.name, m.value, 0) \/ Assign(m.name, NoItems, 1)
  BY <1>0, HeadIsMember DEF LoadMember, LoadedValue, Values, Owning
<1>2. /\ faults' \in Nat /\ faults <= faults'
      /\ faults' = faults /\ ended' = "no" => Looks(m.name, m.value)
  <2>1. CASE Assign(m.name, m.value, 0)
    <3>1. /\ faults' \in Nat /\ faults + 0 <= faults'
          /\ faults' = faults /\ ended' = "no" => Looks(m.name, m.value)
      BY <2>1, <1>1, AssignLooks
    <3> QED
      BY <3>1, <1>0
  <2>2. CASE Assign(m.name, NoItems, 1)
    <3>1. faults' \in Nat /\ faults + 1 <= faults'
      BY <2>2, <1>1, AssignLooks
    <3> QED
      BY <3>1, <1>0
  <2> QED
    BY <1>1, <2>1, <2>2
<1> SUFFICES ASSUME job # NoJob, ended' = "no"
             PROVE  /\ d \in Seq(Member) /\ job.faults \in Nat /\ job.faults <= faults'
                    /\ job.faults = faults' =>
                         \E k \in 0 .. Len(d) :
                           /\ Len(todo') = Len(d) - k
                           /\ \A i \in 1 .. Len(todo') : todo'[i] = d[k + i]
                           /\ LoadedTo(d, k, job.before, Lookup')
  BY <1>0, <1>2 DEF Loads
<1>3. d \in Seq(Member) /\ Len(d) \in Nat /\ job.faults \in Nat /\ job.faults <= faults
  BY <1>0, LenProperties DEF Loads
<1>4. ASSUME job.faults = faults'
      PROVE  \E k \in 0 .. Len(d) :
               /\ Len(todo') = Len(d) - k
               /\ \A i \in 1 .. Len(todo') : todo'[i] = d[k + i]
               /\ LoadedTo(d, k, job.before, Lookup')
  <2>1. job.faults = faults /\ faults' = faults
    BY <1>0, <1>2, <1>3, <1>4
  <2>2. PICK k \in 0 .. Len(d) :
          /\ Len(todo) = Len(d) - k
          /\ \A i \in 1 .. Len(todo) : todo[i] = d[k + i]
          /\ LoadedTo(d, k, job.before, Lookup)
    BY <1>0, <2>1 DEF Loads
  <2>3. /\ Len(todo) \in Nat \ {0} /\ Len(todo') = Len(todo) - 1 /\ m = todo[1]
        /\ \A i \in 1 .. Len(todo') : todo'[i] = todo[i + 1]
    BY <1>0, HeadTailProperties, LenProperties, EmptySeq
  <2>4. k + 1 \in 0 .. Len(d) /\ k \in Nat /\ m = d[k + 1]
    BY <1>3, <2>2, <2>3
  <2>5. Len(todo') = Len(d) - (k + 1)
    BY <1>3, <2>2, <2>3
  <2>6. ASSUME NEW i \in 1 .. Len(todo') PROVE todo'[i] = d[(k + 1) + i]
    <3>1. i + 1 \in 1 .. Len(todo) /\ k + (i + 1) = (k + 1) + i
      BY <2>3, <2>4
    <3> QED
      BY <3>1, <2>2, <2>3
  <2>7. LoadedTo(d, k + 1, job.before, Lookup')
    <3>1. Looks(m.name, m.value)
      BY <1>2, <2>1
    <3> DEFINE look == Lookup
               next == Lookup'
    <3>2. /\ DOMAIN next = DOMAIN look \cup {m.name}
          /\ \A x \in DOMAIN look : x # m.name => next[x] = look[x]
          /\ m.name \in DOMAIN look /\ m.name \in ReadOnly => next[m.name] = look[m.name]
          /\ ~(m.name \in DOMAIN look /\ m.name \in ReadOnly) => next[m.name] = d[k + 1].value
      BY <3>1, <2>4 DEF Looks
    <3>3. d[k + 1].name = m.name /\ d[k + 1].value \in Values
      BY <1>1, <2>4
    <3>4. LoadedTo(d, k, job.before, look)
      BY <2>2
    <3> HIDE DEF look, next, m, d
    <3>5. LoadedTo(d, k + 1, job.before, next)
      BY <2>4, <3>2, <3>3, <3>4, ReadMember
    <3> QED
      BY <3>5 DEF next
  <2> QED
    BY <2>4, <2>5, <2>6, <2>7
<1> QED
  BY <1>0, <1>2, <1>3, <1>4

LEMMA PassMemberLoads ==
  ASSUME IInv, Loads, PassMember
  PROVE  Loads'
<1> DEFINE m == Head(todo)
           d == job.document
<1>0. /\ faults \in Nat /\ todo # <<>> /\ ended = "no" /\ job' = job
      /\ todo \in Seq(Member) /\ todo' = Tail(todo) /\ faults' = faults /\ ended' = ended
      /\ entries' = entries /\ map' = map
  BY DEF Loads, PassMember, Loading, IInv, Typed
<1>1. m.value \notin Values
  BY ContextAssumption DEF PassMember, LoadedValue
<1>2. Lookup' = Lookup
  BY <1>0 DEF Lookup, Place
<1> SUFFICES ASSUME job # NoJob, job.faults = faults
             PROVE  \E k \in 0 .. Len(d) :
                      /\ Len(todo') = Len(d) - k
                      /\ \A i \in 1 .. Len(todo') : todo'[i] = d[k + i]
                      /\ LoadedTo(d, k, job.before, Lookup)
  BY <1>0, <1>2 DEF Loads
<1>3. d \in Seq(Member) /\ Len(d) \in Nat
  BY <1>0, LenProperties DEF Loads
<1>4. PICK k \in 0 .. Len(d) :
        /\ Len(todo) = Len(d) - k
        /\ \A i \in 1 .. Len(todo) : todo[i] = d[k + i]
        /\ LoadedTo(d, k, job.before, Lookup)
  BY <1>0 DEF Loads
<1>5. /\ Len(todo) \in Nat \ {0} /\ Len(todo') = Len(todo) - 1 /\ m = todo[1]
      /\ \A i \in 1 .. Len(todo') : todo'[i] = todo[i + 1]
  BY <1>0, HeadTailProperties, LenProperties, EmptySeq
<1>6. k + 1 \in 0 .. Len(d) /\ k \in Nat /\ m = d[k + 1]
  BY <1>3, <1>4, <1>5
<1>7. Len(todo') = Len(d) - (k + 1)
  BY <1>3, <1>4, <1>5
<1>8. ASSUME NEW i \in 1 .. Len(todo') PROVE todo'[i] = d[(k + 1) + i]
  <2>1. i + 1 \in 1 .. Len(todo) /\ k + (i + 1) = (k + 1) + i
    BY <1>5, <1>6
  <2> QED
    BY <2>1, <1>4, <1>5
<1>9. LoadedTo(d, k + 1, job.before, Lookup)
  <2>1. d[k + 1].value \notin Values
    BY <1>1, <1>6
  <2> HIDE DEF d
  <2> QED
    BY <2>1, <1>4, <1>6, PassedMember
<1> QED
  BY <1>6, <1>7, <1>8, <1>9

LEMMA LoadLoads ==
  ASSUME Loads, NEW d \in Documents, Load(d)
  PROVE  Loads'
<1>0. /\ faults \in Nat /\ faults' = faults /\ todo' = d
      /\ entries' = entries /\ map' = map
      /\ job' = [document |-> d, before |-> Lookup, faults |-> faults]
  BY DEF Loads, Load
<1>1. job'.document = d /\ job'.before = Lookup /\ job'.faults = faults
  BY <1>0
<1>2. Lookup' = Lookup
  BY <1>0 DEF Lookup, Place
<1>3. d \in Seq(Member) /\ Len(d) \in Nat
  BY ContextAssumption, LenProperties
<1>4. LoadedTo(d, 0, Lookup, Lookup)
  <2>1. \A n : ValuesTo(d, 0, n) = {}
    BY DEF ValuesTo
  <2> QED
    BY <2>1 DEF LoadedTo
<1>5. 0 \in 0 .. Len(d) /\ Len(d) = Len(d) - 0 /\ \A i \in 1 .. Len(d) : 0 + i = i
  BY <1>3
<1>6. \E k \in 0 .. Len(d) :
        /\ Len(todo') = Len(d) - k
        /\ \A i \in 1 .. Len(todo') : todo'[i] = d[k + i]
        /\ LoadedTo(d, k, job'.before, Lookup')
  BY <1>0, <1>1, <1>2, <1>4, <1>5
<1>7. job'.document \in Seq(Member) /\ job'.faults \in Nat /\ job'.faults <= faults'
  BY <1>0, <1>1, <1>3
<1> QED
  BY <1>0, <1>1, <1>6, <1>7 DEF Loads

LEMMA LoadsStep == IInv /\ Loads /\ [Next]_vars => Loads'
<1> SUFFICES ASSUME IInv, Loads, [Next]_vars PROVE Loads'
  OBVIOUS
<1>0. faults \in Nat
  BY DEF Loads
<1>1. ASSUME NEW n \in Names, NEW v \in Scalars \cup Strings, Set(n, v) PROVE Loads'
  <2>1. job' = NoJob /\ v \in Values /\ Assign(n, v, 0)
    BY <1>1 DEF Set, Idle, loadVars, Values, Owning
  <2>2. faults' \in Nat
    BY <2>1, AssignLooks
  <2> QED
    BY <2>1, <2>2 DEF Loads
<1>2. ASSUME NEW n \in Names, RemoveVariable(n) \/ Evaluate(n) PROVE Loads'
  BY <1>0, <1>2 DEF RemoveVariable, Evaluate, Idle, loadVars, Loads
<1>3. ASSUME NEW d \in Documents, Load(d) PROVE Loads'
  BY <1>3, LoadLoads
<1>4. CASE LoadMember
  BY <1>4, LoadMemberLoads
<1>5. CASE PassMember
  BY <1>5, PassMemberLoads
<1>6. CASE AbandonObject
  <2>1. faults' = faults + 1 /\ job' = job /\ ended' = ended /\ ended = "no"
    BY <1>6 DEF AbandonObject, Loading, Faulty
  <2>2. job # NoJob => job.document \in Seq(Member) /\ job.faults \in Nat /\ job.faults <= faults
    BY <2>1 DEF Loads
  <2>3. faults' \in Nat /\ (job # NoJob => job.faults <= faults' /\ job.faults # faults')
    BY <1>0, <2>1, <2>2
  <2> QED
    BY <2>1, <2>2, <2>3 DEF Loads
<1>7. CASE LoadReturns \/ Free
  BY <1>0, <1>7 DEF LoadReturns, Free, Idle, loadVars, Loads
<1>8. CASE Ended \/ UNCHANGED vars
  <2>1. /\ entries' = entries /\ map' = map /\ job' = job /\ todo' = todo
        /\ ended' = ended /\ faults' = faults
    BY <1>8 DEF Ended, vars, loadVars
  <2>2. Lookup' = Lookup
    BY <2>1 DEF Lookup, Place
  <2> QED
    BY <2>1, <2>2 DEF Loads
<1> QED
  BY <1>1, <1>2, <1>3, <1>4, <1>5, <1>6, <1>7, <1>8 DEF Next

\* What the members say one by one is what the document says.
LEMMA WholeDocument ==
  ASSUME NEW d \in Seq(Member), NEW before, LoadedTo(d, Len(d), before, Lookup)
  PROVE  Lookup = LoadedFrom(d, before)
<1> DEFINE valued == {m.name : m \in {x \in Range(d) : x.value \in Values}}
<1>1. Len(d) \in Nat /\ DOMAIN d = 1 .. Len(d)
  BY LenProperties
<1>2. \A n : ValuesFor(d, n) = ValuesTo(d, Len(d), n)
  BY <1>1 DEF ValuesFor, ValuesTo
<1>3. \A n : ValuesFor(d, n) # {} <=> n \in valued
  BY DEF ValuesFor, Range
<1>4. DOMAIN Lookup = DOMAIN before \cup valued
  BY <1>2, <1>3 DEF LoadedTo
<1>5. \A n : ValuesFor(d, n) \subseteq Int
  BY <1>1 DEF ValuesFor
<1>6. ASSUME NEW n \in DOMAIN Lookup
      PROVE  Lookup[n] =
               IF ValuesFor(d, n) = {} \/ (n \in ReadOnly /\ n \in DOMAIN before)
               THEN before[n]
               ELSE IF n \in ReadOnly THEN d[Min(ValuesFor(d, n))].value
               ELSE d[Max(ValuesFor(d, n))].value
  <2> DEFINE T == ValuesFor(d, n)
  <2>1. CASE T = {} \/ (n \in ReadOnly /\ n \in DOMAIN before)
    BY <2>1, <1>2 DEF LoadedTo
  <2>2. CASE T # {} /\ n \notin ReadOnly
    <3>1. PICK i \in T : Lookup[n] = d[i].value /\ \A j \in T : i >= j
      BY <2>2, <1>2 DEF LoadedTo
    <3>2. Max(T) \in T /\ \A j \in T : Max(T) >= j
      BY <3>1 DEF Max
    <3>3. Max(T) = i
      BY <3>1, <3>2, <1>5
    <3> QED
      BY <3>1, <3>3, <2>2
  <2>3. CASE T # {} /\ n \in ReadOnly /\ n \notin DOMAIN before
    <3>1. PICK i \in T : Lookup[n] = d[i].value /\ \A j \in T : i <= j
      BY <2>3, <1>2 DEF LoadedTo
    <3>2. Min(T) \in T /\ \A j \in T : Min(T) <= j
      BY <3>1 DEF Min
    <3>3. Min(T) = i
      BY <3>1, <3>2, <1>5
    <3> QED
      BY <3>1, <3>3, <2>3
  <2> QED
    BY <2>1, <2>2, <2>3
<1>7. Lookup = [n \in DOMAIN Lookup |-> Lookup[n]]
  BY DEF Lookup
<1> QED
  BY <1>4, <1>6, <1>7 DEF LoadedFrom

\* A document that is loaded without a failed allocation leaves exactly what its
\* members say, for every document, nesting and repetition of names: the last
\* value of a name counts, the first of a read-only one that was not there.
THEOREM CompleteLoad == Spec => []LoadIsComplete
<1>1. Init => Loads
  BY DEF Init, Loads
<1>2. Loads => LoadIsComplete
  <2> SUFFICES ASSUME Loads, job # NoJob, todo = <<>>, ended = "no", job.faults = faults
               PROVE  Lookup = LoadedFrom(job.document, job.before)
    BY DEF LoadIsComplete
  <2>1. job.document \in Seq(Member) /\ Len(job.document) \in Nat
    BY LenProperties DEF Loads
  <2>2. PICK k \in 0 .. Len(job.document) :
          Len(todo) = Len(job.document) - k /\ LoadedTo(job.document, k, job.before, Lookup)
    BY DEF Loads
  <2>3. k = Len(job.document)
    BY <2>1, <2>2
  <2> QED
    BY <2>1, <2>2, <2>3, WholeDocument
<1> QED
  BY <1>1, <1>2, LoadsStep, InitHolds, Invariance, PTL DEF Spec
=============================================================================
