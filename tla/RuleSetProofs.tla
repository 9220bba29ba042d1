---------------------------- MODULE RuleSetProofs ----------------------------
(***************************************************************************)
(* Proofs about RuleSet, for any names, texts, priorities and failures,    *)
(* and about DependencyOrder, the sort that reorders such a set, for every *)
(* set of rules, cyclic ones too.                                          *)
(***************************************************************************)
EXTENDS RuleSet, DependencyOrder, SequenceTheorems, FiniteSetTheorems, WellFoundedInduction,
        TLAPS

(***************************************************************************)
(* The rule set.  A reload is a removal and an addition in one action, so  *)
(* the facts are stated of a list, its length and the allocated rules      *)
(* (Good), which each half of an action takes from one list to the next.   *)
(* What an insertion and a removal do to a list is said place by place     *)
(* (InsertedAt, UnlinkedAt), and the rest is arithmetic on places.         *)
(***************************************************************************)
Entries == [rule : Int, name : Names, priority : Int]

\* The entries of a list by priority, and by age within a priority.
InOrder(list) ==
  \A i, j \in DOMAIN list :
    i < j => \/ list[i].priority < list[j].priority
             \/ /\ list[i].priority = list[j].priority
                /\ list[i].rule < list[j].rule

DistinctRules(list) ==
  \A i, j \in DOMAIN list : list[i].rule = list[j].rule => i = j

\* A list of n entries that owns the allocated rules, all created by now.
Good(list, n, alive) ==
  /\ list \in Seq(Entries)
  /\ \A i \in DOMAIN list : list[i].rule \in 1 .. born
  /\ DistinctRules(list)
  /\ alive = RulesOf(list)
  /\ n = Len(list)
  /\ reordered \/ InOrder(list)

\* Two entries that both lists hold are in the same order in both.
Keeps(list, after) ==
  \A i, j \in DOMAIN list : \A k, l \in DOMAIN after :
    /\ i < j
    /\ after[k].rule = list[i].rule
    /\ after[l].rule = list[j].rule
    => k < l

SetTyped == born \in Nat /\ reordered \in BOOLEAN /\ setFaults \in Nat

SetInv == SetTyped /\ Good(entries, count, live)

-----------------------------------------------------------------------------
(***************************************************************************)
(* Lists.                                                                  *)
(***************************************************************************)
LEMMA SmallestPlace ==
  ASSUME NEW T, T \subseteq Nat, T # {}
  PROVE  \E x \in T : \A y \in T : x <= y
<1>1. PICK x \in T : \A y \in T : <<y, x>> \notin OpToRel(<, Nat)
  BY WFMin, NatLessThanWellFounded, Zenon
<1>2. \A y \in T : ~(y < x)
  BY <1>1, Zenon DEF OpToRel
<1> QED
  BY <1>2

LEMMA Places ==
  ASSUME NEW list \in Seq(Entries)
  PROVE  /\ Len(list) \in Nat /\ DOMAIN list = 1 .. Len(list)
         /\ list = <<>> <=> Len(list) = 0
         /\ \A i \in DOMAIN list :
              list[i] \in Entries /\ list[i].rule \in Int /\ list[i].priority \in Int
<1>1. Len(list) \in Nat /\ DOMAIN list = 1 .. Len(list)
  BY LenProperties
<1>2. list = <<>> <=> Len(list) = 0
  BY <1>1, EmptySeq
<1>3. \A i \in DOMAIN list : list[i] \in Entries
  BY <1>1, ElementOfSeq
<1>4. \A e \in Entries : e.rule \in Int /\ e.priority \in Int
  BY DEF Entries
<1> QED
  BY <1>1, <1>2, <1>3, <1>4

LEMMA Joined ==
  ASSUME NEW u \in Seq(Entries), NEW v \in Seq(Entries)
  PROVE  /\ u \o v \in Seq(Entries) /\ Len(u \o v) = Len(u) + Len(v)
         /\ \A i \in 1 .. Len(u) + Len(v) :
              (u \o v)[i] = IF i <= Len(u) THEN u[i] ELSE v[i - Len(u)]
  BY ConcatProperties

\* A list whose places k + 1 to m are replaced by those of another one.
Spliced(list, k, mid, m) ==
  SubSeq(list, 1, k) \o mid \o SubSeq(list, m + 1, Len(list))

LEMMA SplicedAt ==
  ASSUME NEW list \in Seq(Entries), NEW k \in 0 .. Len(list), NEW m \in k .. Len(list),
         NEW mid \in Seq(Entries)
  PROVE  /\ Spliced(list, k, mid, m) \in Seq(Entries)
         /\ Len(Spliced(list, k, mid, m)) = k + Len(mid) + (Len(list) - m)
         /\ \A i \in 1 .. k : Spliced(list, k, mid, m)[i] = list[i]
         /\ \A i \in 1 .. Len(mid) : Spliced(list, k, mid, m)[k + i] = mid[i]
         /\ \A i \in 1 .. Len(list) - m :
              Spliced(list, k, mid, m)[k + Len(mid) + i] = list[m + i]
<1> DEFINE a == SubSeq(list, 1, k)
           b == SubSeq(list, m + 1, Len(list))
           n == Len(mid)
<1>0. /\ Len(list) \in Nat /\ k \in Nat /\ k <= Len(list) /\ n \in Nat
      /\ m \in Nat /\ k <= m /\ m <= Len(list)
      /\ \A i \in 1 .. Len(list) : list[i] \in Entries
  BY Places
<1>1. a \in Seq(Entries) /\ Len(a) = k /\ \A i \in 1 .. k : a[i] = list[i]
  <2>1. \A i \in 1 .. k : list[i] \in Entries
    BY <1>0
  <2>2. /\ a \in Seq(Entries) /\ Len(a) = IF 1 <= k THEN k - 1 + 1 ELSE 0
        /\ \A i \in 1 .. k - 1 + 1 : a[i] = list[1 + i - 1]
    BY <2>1, <1>0, SubSeqProperties
  <2> QED
    BY <2>2, <1>0
<1>2. /\ b \in Seq(Entries) /\ Len(b) = Len(list) - m
      /\ \A i \in 1 .. Len(list) - m : b[i] = list[m + i]
  <2>1. \A i \in m + 1 .. Len(list) : list[i] \in Entries
    BY <1>0
  <2>2. m + 1 \in Int /\ Len(list) \in Int
    BY <1>0
  <2>3. /\ b \in Seq(Entries)
        /\ Len(b) = IF m + 1 <= Len(list) THEN Len(list) - (m + 1) + 1 ELSE 0
        /\ \A i \in 1 .. Len(list) - (m + 1) + 1 : b[i] = list[(m + 1) + i - 1]
    BY <2>1, <2>2, SubSeqProperties
  <2>4. \A i \in 1 .. Len(list) - m : b[i] = list[m + i]
    <3>1. ASSUME NEW i \in 1 .. Len(list) - m PROVE b[i] = list[m + i]
      <4>1. i \in 1 .. Len(list) - (m + 1) + 1 /\ (m + 1) + i - 1 = m + i
        BY <1>0
      <4> QED
        BY <4>1, <2>3
    <3> QED
      BY <3>1
  <2> QED
    BY <2>3, <2>4, <1>0
<1> HIDE DEF a, b
<1>3. /\ a \o mid \in Seq(Entries) /\ Len(a \o mid) = k + n
      /\ \A i \in 1 .. k + n : (a \o mid)[i] = IF i <= k THEN a[i] ELSE mid[i - k]
  BY <1>1, ConcatProperties
<1> DEFINE c == a \o mid
<1>4. /\ c \o b \in Seq(Entries)
      /\ Len(c \o b) = k + n + (Len(list) - m)
      /\ \A i \in 1 .. k + n + (Len(list) - m) :
           (c \o b)[i] = IF i <= k + n THEN c[i] ELSE b[i - (k + n)]
  <2>1. c \in Seq(Entries) /\ b \in Seq(Entries) /\ Len(c) = k + n /\ Len(b) = Len(list) - m
    BY <1>2, <1>3
  <2> HIDE DEF c
  <2>2. /\ c \o b \in Seq(Entries) /\ Len(c \o b) = Len(c) + Len(b)
        /\ \A i \in 1 .. Len(c) + Len(b) :
             (c \o b)[i] = IF i <= Len(c) THEN c[i] ELSE b[i - Len(c)]
    BY <2>1, Joined
  <2> QED
    BY <2>1, <2>2
<1>5. Spliced(list, k, mid, m) = c \o b
  BY DEF Spliced, a, b
<1> HIDE DEF c
<1>6. \A i \in 1 .. k : (c \o b)[i] = list[i]
  BY <1>0, <1>1, <1>3, <1>4 DEF c
<1>7. \A i \in 1 .. n : (c \o b)[k + i] = mid[i]
  <2>1. ASSUME NEW i \in 1 .. n PROVE (c \o b)[k + i] = mid[i]
    <3>1. k + i \in 1 .. k + n + (Len(list) - m) /\ k + i <= k + n /\ k + i \in 1 .. k + n
      BY <1>0
    <3>2. (c \o b)[k + i] = c[k + i]
      BY <3>1, <1>4
    <3>3. ~(k + i <= k) /\ (k + i) - k = i
      BY <1>0
    <3>4. c[k + i] = mid[i]
      BY <3>1, <3>3, <1>3 DEF c
    <3> QED
      BY <3>2, <3>4
  <2> QED
    BY <2>1
<1>8. \A i \in 1 .. Len(list) - m : (c \o b)[k + n + i] = list[m + i]
  <2>1. ASSUME NEW i \in 1 .. Len(list) - m PROVE (c \o b)[k + n + i] = list[m + i]
    <3>1. /\ k + n + i \in 1 .. k + n + (Len(list) - m) /\ ~(k + n + i <= k + n)
          /\ (k + n + i) - (k + n) = i
      BY <1>0
    <3>2. (c \o b)[k + n + i] = b[i]
      BY <3>1, <1>4
    <3> QED
      BY <3>2, <1>2
  <2> QED
    BY <2>1
<1> QED
  BY <1>4, <1>5, <1>6, <1>7, <1>8

\* Where an insertion puts the new entry.
LEMMA PointExists ==
  ASSUME NEW list \in Seq(Entries), NEW p \in Int
  PROVE  LET k == InsertionPoint(list, p) IN
         /\ k \in 0 .. Len(list)
         /\ \A j \in 1 .. k : list[j].priority <= p
         /\ k = Len(list) \/ list[k + 1].priority > p
<1>1. CASE list = <<>>
  BY <1>1, Places DEF InsertionPoint
<1>2. CASE list # <<>> /\ p < list[1].priority
  BY <1>2, Places DEF InsertionPoint
<1>3. CASE list # <<>> /\ ~(p < list[1].priority)
  <2> DEFINE T == {k \in DOMAIN list : k = Len(list) \/ list[k + 1].priority > p}
             OK(k) == /\ \A j \in 2 .. k : list[j].priority <= p
                      /\ k = Len(list) \/ list[k + 1].priority > p
  <2>1. T \subseteq Nat /\ Len(list) \in T
    BY <1>3, Places
  <2>2. PICK k \in T : \A y \in T : k <= y
    BY <2>1, SmallestPlace
  <2>3. ASSUME NEW j \in 2 .. k PROVE list[j].priority <= p
    <3>1. j - 1 \in DOMAIN list /\ j \in DOMAIN list /\ ~(k <= j - 1)
      BY <2>1, Places
    <3>2. ~(list[(j - 1) + 1].priority > p)
      BY <3>1, <2>2
    <3> QED
      BY <3>1, <3>2, Places
  <2>4. k \in DOMAIN list /\ OK(k)
    BY <2>3
  <2>5. InsertionPoint(list, p) = CHOOSE i \in DOMAIN list : OK(i)
    BY <1>3 DEF InsertionPoint
  <2> HIDE DEF OK
  <2>6. InsertionPoint(list, p) \in DOMAIN list /\ OK(InsertionPoint(list, p))
    BY <2>4, <2>5
  <2>7. list[1].priority <= p
    BY <1>3, Places
  <2> QED
    BY <2>6, <2>7, Places DEF OK
<1> QED
  BY <1>1, <1>2, <1>3

LEMMA InsertedAt ==
  ASSUME NEW list \in Seq(Entries), NEW e \in Entries
  PROVE  LET k == InsertionPoint(list, e.priority)
             s == Inserted(list, e) IN
         /\ s \in Seq(Entries) /\ Len(s) = Len(list) + 1 /\ DOMAIN s = 1 .. Len(list) + 1
         /\ k \in 0 .. Len(list)
         /\ \A j \in 1 .. k : list[j].priority <= e.priority
         /\ k = Len(list) \/ list[k + 1].priority > e.priority
         /\ \A i \in 1 .. k : s[i] = list[i]
         /\ s[k + 1] = e
         /\ \A i \in k + 2 .. Len(list) + 1 : s[i] = list[i - 1]
<1> DEFINE k == InsertionPoint(list, e.priority)
           one == <<e>>
           s == Spliced(list, k, one, k)
<1>1. e.priority \in Int
  BY DEF Entries
<1>2. /\ k \in 0 .. Len(list)
      /\ \A j \in 1 .. k : list[j].priority <= e.priority
      /\ k = Len(list) \/ list[k + 1].priority > e.priority
  BY <1>1, PointExists
<1>3. one \in Seq(Entries) /\ Len(one) = 1 /\ one[1] = e
  OBVIOUS
<1>4. Len(list) \in Nat
  BY Places
<1>5. Inserted(list, e) = s
  BY DEF Inserted, Spliced
<1> HIDE DEF k, one
<1>6. k \in Nat /\ k <= Len(list) /\ k \in k .. Len(list)
  BY <1>2, <1>4
<1>7. /\ s \in Seq(Entries)
      /\ Len(s) = k + Len(one) + (Len(list) - k)
      /\ \A i \in 1 .. k : s[i] = list[i]
      /\ \A i \in 1 .. Len(one) : s[k + i] = one[i]
      /\ \A i \in 1 .. Len(list) - k : s[k + Len(one) + i] = list[k + i]
  BY <1>2, <1>3, <1>6, SplicedAt, ZenonT(60)
<1> HIDE DEF s
<1>8. Len(s) = Len(list) + 1 /\ DOMAIN s = 1 .. Len(list) + 1
  BY <1>3, <1>4, <1>6, <1>7, LenProperties
<1>9. s[k + 1] = e
  BY <1>3, <1>7
<1>10. ASSUME NEW i \in k + 2 .. Len(list) + 1 PROVE s[i] = list[i - 1]
  <2>1. i - k - 1 \in 1 .. Len(list) - k /\ k + 1 + (i - k - 1) = i /\ k + (i - k - 1) = i - 1
    BY <1>4, <1>6
  <2> QED
    BY <2>1, <1>3, <1>7
<1> QED
  BY <1>2, <1>5, <1>7, <1>8, <1>9, <1>10 DEF k

LEMMA FirstIsFirst ==
  ASSUME NEW list \in Seq(Entries), NEW n, Named(list, n) # {}
  PROVE  First(list, n) \in 1 .. Len(list) /\ list[First(list, n)].name = n
<1>1. Named(list, n) \subseteq Nat /\ DOMAIN list = 1 .. Len(list)
  BY Places DEF Named
<1>2. \E i \in Named(list, n) : \A j \in Named(list, n) : i <= j
  BY <1>1, SmallestPlace
<1>3. First(list, n) \in Named(list, n)
  BY <1>2 DEF First
<1> QED
  BY <1>1, <1>3 DEF Named

LEMMA UnlinkedAt ==
  ASSUME NEW list \in Seq(Entries), NEW n, Named(list, n) # {}
  PROVE  LET f == First(list, n)
             s == Unlinked(list, n) IN
         /\ s \in Seq(Entries) /\ Len(s) = Len(list) - 1 /\ DOMAIN s = 1 .. Len(list) - 1
         /\ f \in 1 .. Len(list)
         /\ \A i \in 1 .. f - 1 : s[i] = list[i]
         /\ \A i \in f .. Len(list) - 1 : s[i] = list[i + 1]
<1> DEFINE f == First(list, n)
           none == <<>>
           s == Spliced(list, f - 1, none, f)
<1>1. f \in 1 .. Len(list) /\ Len(list) \in Nat
  BY FirstIsFirst, Places
<1>2. none \in Seq(Entries) /\ Len(none) = 0
  OBVIOUS
<1>3. Unlinked(list, n) = s
  <2>1. \A i \in 1 .. f - 1 : list[i] \in Entries
    BY <1>1, Places
  <2>2. SubSeq(list, 1, f - 1) \in Seq(Entries)
    BY <2>1, <1>1, SubSeqProperties
  <2>3. SubSeq(list, 1, f - 1) \o none = SubSeq(list, 1, f - 1)
    BY <2>2, ConcatEmptySeq
  <2> QED
    BY <2>3 DEF Unlinked, Spliced
<1> HIDE DEF f, none
<1>4. f - 1 \in 0 .. Len(list) /\ f \in f - 1 .. Len(list)
  BY <1>1
<1>5. /\ s \in Seq(Entries)
      /\ Len(s) = (f - 1) + Len(none) + (Len(list) - f)
      /\ \A i \in 1 .. f - 1 : s[i] = list[i]
      /\ \A i \in 1 .. Len(list) - f : s[(f - 1) + Len(none) + i] = list[f + i]
  BY <1>2, <1>4, SplicedAt, ZenonT(60)
<1> HIDE DEF s
<1>6. Len(s) = Len(list) - 1 /\ DOMAIN s = 1 .. Len(list) - 1
  BY <1>1, <1>2, <1>5, LenProperties
<1>7. ASSUME NEW i \in f .. Len(list) - 1 PROVE s[i] = list[i + 1]
  <2>1. /\ i - f + 1 \in 1 .. Len(list) - f /\ (f - 1) + 0 + (i - f + 1) = i
        /\ f + (i - f + 1) = i + 1
    BY <1>1
  <2> QED
    BY <2>1, <1>2, <1>5
<1> QED
  BY <1>1, <1>3, <1>5, <1>6, <1>7 DEF f

-----------------------------------------------------------------------------
(***************************************************************************)
(* What removing and adding do to a list that is as it should be.          *)
(***************************************************************************)

\* Leaving entries out disturbs nothing.
LEMMA Thinned ==
  ASSUME NEW list \in Seq(Entries), NEW s \in Seq(Entries), DistinctRules(list),
         NEW g \in [DOMAIN s -> DOMAIN list],
         \A i, j \in DOMAIN s : i < j => g[i] < g[j],
         \A i \in DOMAIN s : s[i] = list[g[i]]
  PROVE  /\ DistinctRules(s)
         /\ InOrder(list) => InOrder(s)
         /\ Keeps(list, s)
<1>1. DOMAIN s = 1 .. Len(s) /\ DOMAIN list = 1 .. Len(list) /\ Len(s) \in Nat /\ Len(list) \in Nat
  BY Places
<1>2. \A i, j \in DOMAIN s : g[i] = g[j] => i = j
  BY <1>1
<1>3. DistinctRules(s)
  BY <1>2 DEF DistinctRules
<1>4. ASSUME InOrder(list), NEW i \in DOMAIN s, NEW j \in DOMAIN s, i < j
      PROVE  \/ s[i].priority < s[j].priority
             \/ s[i].priority = s[j].priority /\ s[i].rule < s[j].rule
  <2>1. g[i] \in DOMAIN list /\ g[j] \in DOMAIN list /\ g[i] < g[j]
    BY <1>4
  <2>2. s[i] = list[g[i]] /\ s[j] = list[g[j]]
    OBVIOUS
  <2> QED
    BY <1>4, <2>1, <2>2 DEF InOrder
<1>5. ASSUME NEW i \in DOMAIN list, NEW j \in DOMAIN list, NEW k \in DOMAIN s, NEW l \in DOMAIN s,
             i < j, s[k].rule = list[i].rule, s[l].rule = list[j].rule
      PROVE  k < l
  <2>1. g[k] = i /\ g[l] = j
    BY <1>5 DEF DistinctRules
  <2>2. ~(l <= k)
    BY <2>1, <1>5, <1>1
  <2> QED
    BY <2>2, <1>1
<1>6. InOrder(list) => InOrder(s)
  BY <1>4 DEF InOrder
<1> QED
  BY <1>3, <1>5, <1>6 DEF Keeps

LEMMA KeepsItself ==
  ASSUME NEW list \in Seq(Entries), DistinctRules(list)
  PROVE  Keeps(list, list)
  BY DEF Keeps, DistinctRules

LEMMA RemovalGood ==
  ASSUME Good(entries, count, live), NEW name
  PROVE  /\ Good(Unlinked(entries, name), CountWithout(name), AliveWithout(name))
         /\ Keeps(entries, Unlinked(entries, name))
<1>0. /\ entries \in Seq(Entries) /\ DistinctRules(entries) /\ live = RulesOf(entries)
      /\ count = Len(entries) /\ \A i \in DOMAIN entries : entries[i].rule \in 1 .. born
      /\ reordered \/ InOrder(entries)
  BY DEF Good
<1>1. CASE Named(entries, name) = {}
  BY <1>0, <1>1, KeepsItself DEF Unlinked, CountWithout, AliveWithout, Good
<1>2. CASE Named(entries, name) # {}
  <2> DEFINE f == First(entries, name)
             s == Unlinked(entries, name)
             g == [i \in DOMAIN s |-> IF i < f THEN i ELSE i + 1]
  <2>1. /\ s \in Seq(Entries) /\ Len(s) = Len(entries) - 1 /\ DOMAIN s = 1 .. Len(entries) - 1
        /\ f \in 1 .. Len(entries)
        /\ \A i \in 1 .. f - 1 : s[i] = entries[i]
        /\ \A i \in f .. Len(entries) - 1 : s[i] = entries[i + 1]
    BY <1>0, <1>2, UnlinkedAt
  <2>2. Len(entries) \in Nat /\ DOMAIN entries = 1 .. Len(entries)
    BY <1>0, Places
  <2> HIDE DEF f, s
  <2>3. /\ g \in [DOMAIN s -> DOMAIN entries]
        /\ \A i, j \in DOMAIN s : i < j => g[i] < g[j]
        /\ \A i \in DOMAIN s : g[i] # f
    BY <2>1, <2>2
  <2>4. \A i \in DOMAIN s : s[i] = entries[g[i]]
    BY <2>1, <2>2
  <2>5. \A j \in DOMAIN entries : j # f => \E i \in DOMAIN s : g[i] = j
    <3>1. ASSUME NEW j \in DOMAIN entries, j # f PROVE \E i \in DOMAIN s : g[i] = j
      <4>1. CASE j < f
        BY <4>1, <2>1, <2>2
      <4>2. CASE j > f
        <5>1. j - 1 \in DOMAIN s /\ g[j - 1] = j
          BY <4>2, <2>1, <2>2
        <5> QED
          BY <5>1
      <4> QED
        BY <3>1, <4>1, <4>2, <2>1, <2>2
    <3> QED
      BY <3>1
  <2> HIDE DEF g
  <2>6. DistinctRules(s) /\ (InOrder(entries) => InOrder(s)) /\ Keeps(entries, s)
    BY <2>1, <2>3, <2>4, <1>0, Thinned
  <2>7. RulesOf(s) = RulesOf(entries) \ {entries[f].rule}
    <3>1. ASSUME NEW r \in RulesOf(s) PROVE r \in RulesOf(entries) /\ r # entries[f].rule
      <4>1. PICK i \in DOMAIN s : r = s[i].rule
        BY DEF RulesOf
      <4>2. g[i] \in DOMAIN entries /\ r = entries[g[i]].rule /\ g[i] # f /\ f \in DOMAIN entries
        BY <4>1, <2>1, <2>2, <2>3, <2>4
      <4> QED
        BY <4>2, <1>0 DEF RulesOf, DistinctRules
    <3>2. ASSUME NEW r \in RulesOf(entries), r # entries[f].rule PROVE r \in RulesOf(s)
      <4>1. PICK j \in DOMAIN entries : r = entries[j].rule
        BY DEF RulesOf
      <4>2. PICK i \in DOMAIN s : g[i] = j
        BY <4>1, <3>2, <2>5
      <4> QED
        BY <4>1, <4>2, <2>4 DEF RulesOf
    <3> QED
      BY <3>1, <3>2
  <2>8. \A i \in DOMAIN s : s[i].rule \in 1 .. born
    BY <2>3, <2>4, <1>0
  <2>9. AliveWithout(name) = RulesOf(s) /\ CountWithout(name) = Len(s)
    BY <1>0, <1>2, <2>1, <2>7 DEF AliveWithout, CountWithout, f
  <2> QED
    BY <1>0, <2>1, <2>6, <2>8, <2>9 DEF Good, s
<1> QED
  BY <1>1, <1>2

LEMMA AdditionGood ==
  ASSUME SetTyped, NEW list, NEW n, NEW alive, Good(list, n, alive),
         NEW name \in Names, NEW p \in Int,
         AddRule(list, n, alive, name, p), UNCHANGED reordered
  PROVE  /\ SetTyped'
         /\ Good(entries, count, live)'
         /\ Keeps(list, entries')
         /\ RulesOf(entries') \subseteq RulesOf(list) \cup {born + 1}
<1>0. /\ list \in Seq(Entries) /\ DistinctRules(list) /\ alive = RulesOf(list)
      /\ n = Len(list) /\ \A i \in DOMAIN list : list[i].rule \in 1 .. born
      /\ reordered \/ InOrder(list)
      /\ born \in Nat /\ setFaults \in Nat /\ born' = born + 1 /\ reordered' = reordered
  BY DEF Good, AddRule, SetTyped
<1>1. CASE /\ entries' = list /\ count' = n /\ live' = alive /\ setFaults' = setFaults + 1
  <2>1. \A i \in DOMAIN list : list[i].rule \in 1 .. born'
    BY <1>0
  <2> QED
    BY <1>0, <1>1, <2>1, KeepsItself DEF SetTyped, Good, DistinctRules, InOrder, RulesOf
<1>2. CASE /\ entries' = Inserted(list, Entry(born + 1, name, p))
           /\ count' = n + 1 /\ live' = alive \cup {born + 1} /\ setFaults' = setFaults
  <2> DEFINE e == Entry(born + 1, name, p)
             k == InsertionPoint(list, e.priority)
             s == Inserted(list, e)
  <2>1. e \in Entries /\ e.rule = born + 1 /\ e.priority = p
    BY <1>0 DEF Entry, Entries
  <2>2. /\ s \in Seq(Entries) /\ Len(s) = Len(list) + 1 /\ DOMAIN s = 1 .. Len(list) + 1
        /\ k \in 0 .. Len(list)
        /\ \A j \in 1 .. k : list[j].priority <= p
        /\ k = Len(list) \/ list[k + 1].priority > p
        /\ \A i \in 1 .. k : s[i] = list[i]
        /\ s[k + 1] = e
        /\ \A i \in k + 2 .. Len(list) + 1 : s[i] = list[i - 1]
    BY <1>0, <2>1, InsertedAt, ZenonT(60)
  <2>3. /\ Len(list) \in Nat /\ DOMAIN list = 1 .. Len(list)
        /\ \A i \in DOMAIN list : list[i].priority \in Int /\ list[i].rule \in Int
    BY <1>0, Places
  <2>4. entries' = s
    BY <1>2
  <2> HIDE DEF e, k, s
  <2>a. /\ Len(list) \in Nat /\ k \in Nat /\ k <= Len(list)
        /\ DOMAIN list = 1 .. Len(list) /\ DOMAIN s = 1 .. Len(list) + 1
    <3>1. /\ Len(list) \in Nat /\ DOMAIN list = 1 .. Len(list)
          /\ DOMAIN s = 1 .. Len(list) + 1 /\ k \in 0 .. Len(list)
      BY <2>2, <2>3, Zenon
    <3>2. \A j \in Nat : \A i \in 0 .. j : i \in Nat /\ i <= j
      OBVIOUS
    <3> QED
      BY <3>1, <3>2, Zenon
  <2>b. ASSUME NEW i \in DOMAIN s, i # k + 1
        PROVE  \/ i <= k /\ i \in DOMAIN list /\ s[i] = list[i]
               \/ ~(i <= k) /\ i - 1 \in DOMAIN list /\ s[i] = list[i - 1]
    <3>1. CASE i <= k
      <4>1. i \in 1 .. k /\ i \in DOMAIN list
        BY <3>1, <2>a
      <4> QED
        BY <3>1, <4>1, <2>2
    <3>2. CASE ~(i <= k)
      <4>1. i \in k + 2 .. Len(list) + 1 /\ i - 1 \in DOMAIN list
        BY <3>2, <2>a, <2>b
      <4> QED
        BY <3>2, <4>1, <2>2
    <3> QED
      BY <3>1, <3>2
  <2>5. \A i \in DOMAIN s : i # k + 1 => \E j \in DOMAIN list :
          /\ s[i] = list[j]
          /\ j = IF i <= k THEN i ELSE i - 1
    BY <2>b
  <2>6. \A j \in DOMAIN list : \E i \in DOMAIN s : s[i] = list[j]
    <3>1. ASSUME NEW j \in DOMAIN list PROVE \E i \in DOMAIN s : s[i] = list[j]
      <4>1. CASE j <= k
        <5>1. j \in 1 .. k /\ j \in DOMAIN s
          BY <4>1, <2>a
        <5> QED
          BY <5>1, <2>2
      <4>2. CASE ~(j <= k)
        <5>1. j + 1 \in k + 2 .. Len(list) + 1 /\ j + 1 \in DOMAIN s /\ (j + 1) - 1 = j
          BY <4>2, <2>a
        <5> QED
          BY <5>1, <2>2
      <4> QED
        BY <4>1, <4>2
    <3> QED
      BY <3>1
  <2>7. \A i \in DOMAIN s : s[i].rule \in 1 .. born + 1 /\ (i # k + 1 => s[i].rule # born + 1)
    BY <1>0, <2>1, <2>2, <2>5
  <2>8. DistinctRules(s)
    <3>1. ASSUME NEW i \in DOMAIN s, NEW j \in DOMAIN s, s[i].rule = s[j].rule PROVE i = j
      <4>1. CASE i = k + 1 \/ j = k + 1
        BY <3>1, <4>1, <2>1, <2>2, <2>7
      <4>2. CASE i # k + 1 /\ j # k + 1
        <5>1. PICK a \in DOMAIN list : s[i] = list[a] /\ a = IF i <= k THEN i ELSE i - 1
          BY <4>2, <2>5
        <5>2. PICK b \in DOMAIN list : s[j] = list[b] /\ b = IF j <= k THEN j ELSE j - 1
          BY <4>2, <2>5
        <5>3. a = b
          BY <3>1, <5>1, <5>2, <1>0 DEF DistinctRules
        <5> QED
          BY <4>2, <5>1, <5>2, <5>3, <2>a
      <4> QED
        BY <4>1, <4>2
    <3> QED
      BY <3>1 DEF DistinctRules
  <2>9. InOrder(list) => InOrder(s)
    <3>1. ASSUME InOrder(list), NEW i \in DOMAIN s, NEW j \in DOMAIN s, i < j
          PROVE  \/ s[i].priority < s[j].priority
                 \/ s[i].priority = s[j].priority /\ s[i].rule < s[j].rule
      <4>1. CASE i = k + 1
        <5>0. j # k + 1 /\ ~(j <= k)
          BY <3>1, <4>1, <2>a
        <5>1. j - 1 \in DOMAIN list /\ s[j] = list[j - 1]
          BY <5>0, <2>b
        <5>a. j \in Int /\ k + 1 < j /\ j <= Len(list) + 1
          BY <3>1, <4>1, <2>a
        <5>b. \A a, b \in Nat : \A c \in Int : a + 1 < c /\ c <= b + 1 => a + 1 \in 1 .. b /\ a # b
          OBVIOUS
        <5>c. k + 1 = j - 1 \/ k + 1 < j - 1
          BY <5>a, <2>a
        <5>2. k + 1 \in DOMAIN list /\ k # Len(list) /\ (k + 1 = j - 1 \/ k + 1 < j - 1)
          BY <5>a, <5>b, <5>c, <2>a, Zenon
        <5>3. list[k + 1].priority > p /\ list[k + 1].priority \in Int /\ list[j - 1].priority \in Int
          BY <5>1, <5>2, <2>2, <2>3
        <5>4. list[k + 1].priority = list[j - 1].priority \/ list[k + 1].priority < list[j - 1].priority
          BY <3>1, <5>1, <5>2 DEF InOrder
        <5>5. s[i].priority = p /\ s[j].priority = list[j - 1].priority
          BY <4>1, <5>1, <2>1, <2>2
        <5> QED
          BY <5>3, <5>4, <5>5
      <4>2. CASE j = k + 1
        <5>0. i # k + 1 /\ i <= k /\ i \in 1 .. k
          BY <3>1, <4>2, <2>a
        <5>1. i \in DOMAIN list /\ s[i] = list[i]
          BY <5>0, <2>b
        <5>2. list[i].priority <= p /\ list[i].priority \in Int
          BY <5>0, <5>1, <2>2, <2>3
        <5>3. list[i].rule < born + 1
          BY <5>1, <1>0
        <5>4. s[j].priority = p /\ s[j].rule = born + 1
          BY <4>2, <2>1, <2>2
        <5> QED
          BY <5>1, <5>2, <5>3, <5>4
      <4>3. CASE i # k + 1 /\ j # k + 1
        <5>1. PICK a \in DOMAIN list : s[i] = list[a] /\ a = IF i <= k THEN i ELSE i - 1
          BY <4>3, <2>5
        <5>2. PICK b \in DOMAIN list : s[j] = list[b] /\ b = IF j <= k THEN j ELSE j - 1
          BY <4>3, <2>5
        <5>3. a < b
          BY <3>1, <4>3, <5>1, <5>2, <2>a
        <5> QED
          BY <3>1, <5>1, <5>2, <5>3 DEF InOrder
      <4> QED
        BY <4>1, <4>2, <4>3
    <3> QED
      BY <3>1 DEF InOrder
  <2>10. RulesOf(s) = RulesOf(list) \cup {born + 1}
    <3>1. ASSUME NEW r \in RulesOf(s) PROVE r \in RulesOf(list) \cup {born + 1}
      <4>1. PICK i \in DOMAIN s : r = s[i].rule
        BY DEF RulesOf
      <4>2. CASE i = k + 1
        BY <4>1, <4>2, <2>1, <2>2
      <4>3. CASE i # k + 1
        BY <4>1, <4>3, <2>5 DEF RulesOf
      <4> QED
        BY <4>2, <4>3
    <3>2. RulesOf(list) \subseteq RulesOf(s)
      BY <2>6 DEF RulesOf
    <3>3. born + 1 \in RulesOf(s)
      <4>1. k + 1 \in DOMAIN s
        BY <2>a
      <4>2. s[k + 1].rule = born + 1
        BY <2>1, <2>2
      <4> QED
        BY <4>1, <4>2 DEF RulesOf
    <3> QED
      BY <3>1, <3>2, <3>3
  <2>11. Keeps(list, s)
    <3>1. ASSUME NEW i \in DOMAIN list, NEW j \in DOMAIN list, NEW a \in DOMAIN s, NEW b \in DOMAIN s,
                 i < j, s[a].rule = list[i].rule, s[b].rule = list[j].rule
          PROVE  a < b
      <4>1. a # k + 1 /\ b # k + 1
        <5>1. list[i].rule # born + 1 /\ list[j].rule # born + 1
          BY <1>0
        <5> QED
          BY <5>1, <3>1, <2>1, <2>2
      <4>2. i = IF a <= k THEN a ELSE a - 1
        BY <3>1, <4>1, <2>5, <1>0 DEF DistinctRules
      <4>3. j = IF b <= k THEN b ELSE b - 1
        BY <3>1, <4>1, <2>5, <1>0 DEF DistinctRules
      <4> QED
        BY <3>1, <4>1, <4>2, <4>3, <2>a
    <3> QED
      BY <3>1 DEF Keeps
  <2>12. Good(entries, count, live)'
    <3>1. reordered' \/ InOrder(s)
      BY <1>0, <2>9
    <3>2. live' = RulesOf(s) /\ count' = Len(s) /\ \A i \in DOMAIN s : s[i].rule \in 1 .. born'
      BY <1>0, <1>2, <2>2, <2>7, <2>10
    <3> QED
      BY <3>1, <3>2, <2>2, <2>4, <2>8 DEF Good, DistinctRules, InOrder, RulesOf
  <2> QED
    BY <1>0, <1>2, <2>4, <2>10, <2>11, <2>12 DEF SetTyped
<1> QED
  BY <1>1, <1>2 DEF AddRule

\* A rule that is new on one side of a reload is on neither side of the order.
LEMMA KeepsAcross ==
  ASSUME NEW list, NEW middle, NEW after, NEW r,
         \A i \in DOMAIN list : list[i].rule # r,
         RulesOf(after) \subseteq RulesOf(middle) \cup {r},
         Keeps(list, middle), Keeps(middle, after)
  PROVE  Keeps(list, after)
<1>1. ASSUME NEW i \in DOMAIN list, NEW j \in DOMAIN list, NEW k \in DOMAIN after, NEW l \in DOMAIN after,
             i < j, after[k].rule = list[i].rule, after[l].rule = list[j].rule
      PROVE  k < l
  <2>1. after[k].rule \in RulesOf(middle) /\ after[l].rule \in RulesOf(middle)
    BY <1>1 DEF RulesOf
  <2>2. PICK a \in DOMAIN middle : middle[a].rule = after[k].rule
    BY <2>1 DEF RulesOf
  <2>3. PICK b \in DOMAIN middle : middle[b].rule = after[l].rule
    BY <2>1 DEF RulesOf
  <2>4. a < b
    BY <1>1, <2>2, <2>3 DEF Keeps
  <2> QED
    BY <2>2, <2>3, <2>4 DEF Keeps
<1> QED
  BY <1>1 DEF Keeps

-----------------------------------------------------------------------------
(***************************************************************************)
(* The calls.                                                              *)
(***************************************************************************)
Step == SetTyped' /\ Good(entries, count, live)' /\ (last'.op = "sort" \/ Keeps(entries, entries'))

LEMMA InitHolds == SetInit => SetInv
<1> SUFFICES ASSUME SetInit PROVE SetInv
  OBVIOUS
<1>1. <<>> \in Seq(Entries) /\ Len(<<>>) = 0 /\ DOMAIN <<>> = {}
  OBVIOUS
<1> QED
  BY <1>1, RuleSetAssumption DEF SetInit, SetInv, SetTyped, Good, DistinctRules, InOrder, RulesOf

LEMMA GoodAgain ==
  ASSUME NEW list, NEW n, NEW alive, Good(list, n, alive),
         entries' = list, count' = n, live' = alive, reordered' = reordered,
         born' = born \/ born' = born + 1, born \in Nat
  PROVE  Good(entries, count, live)'
<1>1. \A i \in DOMAIN list : list[i].rule \in 1 .. born'
  BY DEF Good
<1> QED
  BY <1>1 DEF Good, DistinctRules, InOrder, RulesOf

\* A load into a list that is as it should be, before or after a removal.
LEMMA LoadHolds ==
  ASSUME SetTyped, NEW list, NEW n, NEW alive, Good(list, n, alive), NEW op, NEW name,
         NEW t \in Texts \cup {NoFile}, NEW p \in Int, NEW checked \in BOOLEAN,
         Load(list, n, alive, op, name, t, p, checked), UNCHANGED reordered
  PROVE  /\ SetTyped' /\ Good(entries, count, live)' /\ Keeps(list, entries')
         /\ RulesOf(entries') \subseteq RulesOf(list) \cup {born + 1}
<1>1. CASE Parsed(t) /\ AddRule(list, n, alive, Parses[t], p)
  <2>1. Parses[t] \in Names
    BY <1>1, RuleSetAssumption DEF Parsed
  <2> QED
    BY <1>1, <2>1, AdditionGood
<1>2. CASE RejectRule(list, n, alive)
  <2>1. Good(entries, count, live)' /\ SetTyped'
    BY <1>2, GoodAgain DEF RejectRule, SetTyped
  <2>2. Keeps(list, entries')
    BY <1>2, KeepsItself DEF RejectRule, Good
  <2> QED
    BY <1>2, <2>1, <2>2 DEF RejectRule
<1>3. CASE LoadFails(list, n, alive)
  <2>1. Good(entries, count, live)' /\ SetTyped'
    BY <1>3, GoodAgain DEF LoadFails, SetTyped
  <2>2. Keeps(list, entries')
    BY <1>3, KeepsItself DEF LoadFails, Good
  <2> QED
    BY <1>3, <2>1, <2>2 DEF LoadFails
<1> QED
  BY <1>1, <1>2, <1>3 DEF Load

LEMMA AddHolds ==
  ASSUME SetInv, NEW n \in Names, NEW p \in Priorities, Add(n, p)
  PROVE  Step
<1>1. p \in Int
  BY RuleSetAssumption
<1> QED
  BY <1>1, AdditionGood DEF Add, SetInv, Step

LEMMA RemoveHolds ==
  ASSUME SetInv, NEW n \in Names, Remove(n)
  PROVE  Step
<1>1. /\ Good(Unlinked(entries, n), CountWithout(n), AliveWithout(n))
      /\ Keeps(entries, Unlinked(entries, n))
  BY RemovalGood DEF SetInv
<1>2. Good(entries, count, live)' /\ SetTyped'
  BY <1>1, GoodAgain DEF Remove, SetInv, SetTyped
<1> QED
  BY <1>1, <1>2 DEF Remove, Step

LEMMA LoadStringHolds ==
  ASSUME SetInv, NEW t \in Texts \cup {NoFile}, NEW p \in Priorities, NEW checked \in BOOLEAN,
         LoadString(t, p, checked)
  PROVE  Step
<1>1. p \in Int
  BY RuleSetAssumption
<1> QED
  BY <1>1, LoadHolds DEF LoadString, SetInv, Step

LEMMA ReloadHolds ==
  ASSUME SetInv, NEW n \in Names, NEW t \in Texts, NEW checked \in BOOLEAN, Reload(n, t, checked)
  PROVE  Step
<1> DEFINE u == Unlinked(entries, n)
           text == IF t \in LooksLikeDSL THEN t ELSE Content[t]
<1>1. Good(u, CountWithout(n), AliveWithout(n)) /\ Keeps(entries, u)
  BY RemovalGood DEF SetInv
<1>2. text \in Texts \cup {NoFile} /\ ReloadPriority \in Int
  BY RuleSetAssumption
<1>3. Load(u, CountWithout(n), AliveWithout(n), "reload", n, text, ReloadPriority, checked)
  BY DEF Reload
<1> HIDE DEF u, text
<1>4. /\ SetTyped' /\ Good(entries, count, live)' /\ Keeps(u, entries')
      /\ RulesOf(entries') \subseteq RulesOf(u) \cup {born + 1}
  BY <1>1, <1>2, <1>3, LoadHolds DEF SetInv, Reload
<1>5. \A i \in DOMAIN entries : entries[i].rule # born + 1
  BY DEF SetInv, Good, SetTyped
<1>6. Keeps(entries, entries')
  BY <1>1, <1>4, <1>5, KeepsAcross
<1> QED
  BY <1>4, <1>6 DEF Step

\* The sort lists each entry again.
LEMMA PermutationGood ==
  ASSUME NEW list \in Seq(Entries), NEW s \in Permuted(list), DistinctRules(list)
  PROVE  /\ s \in Seq(Entries) /\ Len(s) = Len(list)
         /\ DistinctRules(s) /\ RulesOf(s) = RulesOf(list)
<1>1. PICK g \in [DOMAIN list -> DOMAIN list] :
        /\ \A i, j \in DOMAIN list : g[i] = g[j] => i = j
        /\ s = [i \in DOMAIN list |-> list[g[i]]]
  BY DEF Permuted
<1>2. /\ Len(list) \in Nat /\ DOMAIN list = 1 .. Len(list)
      /\ \A i \in DOMAIN list : list[i] \in Entries
  BY Places
<1>3. g \in Surjection(DOMAIN list, DOMAIN list)
  <2>1. IsFiniteSet(DOMAIN list)
    BY <1>2, FS_Interval
  <2>2. g \in Injection(DOMAIN list, DOMAIN list)
    BY <1>1 DEF Injection, IsInjective
  <2> QED
    BY <2>1, <2>2, FS_Injection
<1>4. \A j \in DOMAIN list : \E i \in DOMAIN list : g[i] = j
  BY <1>3 DEF Surjection
<1>5. s \in Seq(Entries) /\ Len(s) = Len(list) /\ DOMAIN s = DOMAIN list
  <2>1. s \in [1 .. Len(list) -> Entries] /\ DOMAIN s = DOMAIN list
    BY <1>1, <1>2
  <2> QED
    BY <2>1, <1>2
<1>6. DistinctRules(s)
  BY <1>1, <1>5 DEF DistinctRules
<1>7. RulesOf(s) = RulesOf(list)
  <2>1. ASSUME NEW r \in RulesOf(s) PROVE r \in RulesOf(list)
    BY <1>1, <1>5 DEF RulesOf
  <2>2. ASSUME NEW r \in RulesOf(list) PROVE r \in RulesOf(s)
    <3>1. PICK j \in DOMAIN list : r = list[j].rule
      BY DEF RulesOf
    <3>2. PICK i \in DOMAIN list : g[i] = j
      BY <1>4
    <3> QED
      BY <1>1, <1>5, <3>1, <3>2 DEF RulesOf
  <2> QED
    BY <2>1, <2>2
<1> QED
  BY <1>5, <1>6, <1>7

LEMMA TopoSortHolds ==
  ASSUME SetInv, TopoSort
  PROVE  Step
<1>1. last'.op = "sort"
  BY DEF TopoSort, Call
<1>2. CASE /\ entries' \in Permuted(entries)
           /\ reordered' = (reordered \/ entries' # entries)
           /\ UNCHANGED <<count, live, born, setFaults>>
  <2>1. /\ entries \in Seq(Entries) /\ DistinctRules(entries) /\ live = RulesOf(entries)
        /\ count = Len(entries) /\ \A i \in DOMAIN entries : entries[i].rule \in 1 .. born
        /\ reordered \/ InOrder(entries)
    BY DEF SetInv, Good
  <2>2. /\ entries' \in Seq(Entries) /\ Len(entries') = Len(entries)
        /\ DistinctRules(entries') /\ RulesOf(entries') = RulesOf(entries)
    BY <1>2, <2>1, PermutationGood
  <2>3. \A i \in DOMAIN entries' : entries'[i].rule \in 1 .. born
    <3>1. RulesOf(entries) \subseteq 1 .. born
      BY <2>1 DEF RulesOf
    <3> QED
      BY <2>2, <3>1 DEF RulesOf
  <2>4. reordered' \/ InOrder(entries')
    BY <1>2, <2>1
  <2>5. SetTyped'
    BY <1>2 DEF SetInv, SetTyped
  <2>6. Good(entries, count, live)'
    BY <1>2, <2>1, <2>2, <2>3, <2>4 DEF Good, DistinctRules, InOrder, RulesOf
  <2> QED
    BY <1>1, <2>5, <2>6 DEF Step
<1>3. CASE UNCHANGED <<entries, count, live, born, reordered, setFaults>>
  BY <1>1, <1>3 DEF SetInv, SetTyped, Good, DistinctRules, InOrder, RulesOf, Step
<1> QED
  BY <1>2, <1>3 DEF TopoSort

LEMMA FreeSetHolds ==
  ASSUME SetInv, FreeSet
  PROVE  Step
<1>1. <<>> \in Seq(Entries) /\ Len(<<>>) = 0 /\ DOMAIN <<>> = {}
  OBVIOUS
<1>2. Good(entries, count, live)'
  BY <1>1 DEF FreeSet, SetInv, SetTyped, Good, DistinctRules, InOrder, RulesOf
<1>3. Keeps(entries, entries')
  BY <1>1 DEF FreeSet, Keeps
<1> QED
  BY <1>2, <1>3 DEF FreeSet, SetInv, SetTyped, Step

\* Every call leaves the set as it should be, and all but the sort keep the
\* order of what stays.
LEMMA NextHolds == SetInv /\ SetNext => Step
<1> SUFFICES ASSUME SetInv, SetNext PROVE Step
  OBVIOUS
<1>1. CASE \E n \in Names, p \in Priorities : Add(n, p)
  BY <1>1, AddHolds
<1>2. CASE \E n \in Names : Remove(n)
  BY <1>2, RemoveHolds
<1>3. CASE Loads
  <2>1. CASE \E t \in Texts, checked \in BOOLEAN, p \in Priorities : LoadString(t, p, checked)
    BY <2>1, LoadStringHolds
  <2>2. CASE \E t \in Texts, checked \in BOOLEAN, p \in Priorities : LoadFile(t, p, checked)
    <3>1. PICK t \in Texts, checked \in BOOLEAN, p \in Priorities : LoadFile(t, p, checked)
      BY <2>2
    <3>2. Content[t] \in Texts \cup {NoFile}
      BY RuleSetAssumption
    <3> QED
      BY <3>1, <3>2, LoadStringHolds DEF LoadFile
  <2>3. CASE \E t \in Texts, checked \in BOOLEAN, n \in Names : Reload(n, t, checked)
    BY <2>3, ReloadHolds
  <2> QED
    BY <1>3, <2>1, <2>2, <2>3 DEF Loads
<1>4. CASE TopoSort
  BY <1>4, TopoSortHolds
<1>5. CASE FreeSet
  BY <1>5, FreeSetHolds
<1> QED
  BY <1>1, <1>2, <1>3, <1>4, <1>5 DEF SetNext

LEMMA SetInvStep == SetInv /\ [SetNext]_setVars => SetInv'
<1>1. SetInv /\ SetNext => SetInv'
  BY NextHolds DEF Step, SetInv
<1>2. SetInv /\ UNCHANGED setVars => SetInv'
  BY DEF setVars, SetInv, SetTyped, Good, DistinctRules, InOrder, RulesOf
<1> QED
  BY <1>1, <1>2

LEMMA SetInvariance == SetSpec => []SetInv
  BY InitHolds, SetInvStep, PTL DEF SetSpec

-----------------------------------------------------------------------------
\* Until a topological sort changes the order, the rules are listed by
\* priority, and in the order they came within one, whatever is added, removed,
\* loaded and reloaded.
THEOREM PriorityOrder == SetSpec => []RulesInPriorityOrder
<1>1. SetInv => RulesInPriorityOrder
  BY DEF SetInv, Good, InOrder, RulesInPriorityOrder
<1> QED
  BY <1>1, SetInvariance, PTL

\* The set owns each listed rule once and none else, and counts them right,
\* after failed loads and failed allocations too.
THEOREM Ownership == SetSpec => []RulesAreOwnedOnce
<1>1. SetInv => RulesAreOwnedOnce
  BY DEF SetInv, Good, DistinctRules, RulesAreOwnedOnce
<1> QED
  BY <1>1, SetInvariance, PTL

\* No call but the sort turns two rules round that both stay.
THEOREM StableOrder == SetSpec => OrderIsKept
<1>1. SetInv /\ [SetNext]_setVars =>
        [last'.op # "sort" =>
           \A i, j \in DOMAIN entries : \A k, l \in DOMAIN entries' :
             /\ i < j
             /\ entries'[k].rule = entries[i].rule
             /\ entries'[l].rule = entries[j].rule
             => k < l]_setVars
  BY NextHolds DEF Step, Keeps
<1> QED
  BY <1>1, SetInvariance, PTL DEF SetSpec, OrderIsKept

-----------------------------------------------------------------------------
(***************************************************************************)
(* The dependency order: a refused set deserves it, the relinked list      *)
(* holds every rule exactly once, and a set whose lists were read to their *)
(* ends is sorted.                                                         *)
(*                                                                         *)
(* The searches are followed through the lists on the recursion's path.    *)
(* Each was named by the one before, so that any rank that respects the    *)
(* dependencies falls along the path; and each dependency of a rule on the *)
(* path was left unread, is still to be read, is the rule entered next, or *)
(* has been dealt with.                                                    *)
(***************************************************************************)
\* The names a list of the set d may hold, and the members of a sequence.
NamesOf(d) == DOMAIN d \cup {NoSuchRule}
Elements(s) == {s[i] : i \in DOMAIN s}
Distinct(s) == \A i, j \in DOMAIN s : s[i] = s[j] => i = j

\* A rank above the ranks of one's dependencies; along a path of rules that were
\* each named by the one before, it falls.
Ranking(d, rank) ==
  /\ rank \in [DOMAIN d -> Nat]
  /\ \A r \in DOMAIN d : \A x \in Elements(d[r]) \cap DOMAIN d : rank[x] < rank[r]
Descends(d, p) ==
  \A rank : Ranking(d, rank) => \A i, j \in DOMAIN p : i < j => rank[p[j]] < rank[p[i]]

\* What is left of the lists on the path p: a name was left unread, is still to
\* be read, is the rule entered next, or has been dealt with.
Remaining(d, p, left, names, done) ==
  \A i \in DOMAIN p : \A x \in Elements(d[p[i]]) :
    \/ x \in Elements(left[i])
    \/ i = Len(p) /\ x \in Elements(names)
    \/ i < Len(p) /\ x = p[i + 1]
    \/ x \in done

\* Every rule of a list stands after its dependencies, which are all there.
Ordered(d, s) ==
  \A i \in DOMAIN s : \A x \in Elements(d[s[i]]) : \E j \in DOMAIN s : j < i /\ s[j] = x

\* The lists that are being read, innermost last.
Reading(d, p, names, left, freed) ==
  /\ p \in Seq(DOMAIN d)
  /\ names \in Seq(NamesOf(d))
  /\ left \in Seq(Seq(NamesOf(d))) /\ Len(left) = Len(p)
  /\ freed => names = <<>>
  /\ p # <<>> => Elements(names) \subseteq Elements(d[p[Len(p)]])
  /\ p # <<>> /\ names # <<>> => left[Len(p)] = <<>>
  /\ Descends(d, p)
  /\ Distinct(p)

Typed ==
  /\ deps \in DependsOn
  /\ mode \in {"validate", "sort", "done"}
  /\ next \in 1 .. RuleCount + 1
  /\ color \in [Rules -> 0 .. 2]
  /\ visited \subseteq Rules
  /\ stale \in BOOLEAN
  /\ dropped \in BOOLEAN
  /\ output \in Seq(Rules) /\ Distinct(output)
  /\ order \in [Rules -> Rules]
  /\ result \in {"none", "ok", "cycle", "missing", "oom"}
  /\ faults \in 0 .. MaxFaults
  /\ mode = "done" <=> result # "none"

Trail == Reading(deps, path, tokens, unread, stale)

\* The marks of the validation.
Finished == {r \in Rules : color[r] = 2}
Marked ==
  /\ mode = "validate" =>
       /\ \A r \in Rules : color[r] = 1 <=> r \in Elements(path)
       /\ Remaining(deps, path, unread, tokens, Finished)
       /\ \A r \in Rules : r < next => color[r] # 0
       /\ output = <<>> /\ visited = {}
  /\ ~dropped => \A r \in Finished : Elements(deps[r]) \subseteq Finished
  /\ ~dropped => \E rank \in [Rules -> Nat], k \in Nat :
                   /\ \A r \in Rules : rank[r] <= k
                   /\ \A r \in Finished : \A x \in Elements(deps[r]) : rank[x] < rank[r]

\* What the sort has visited and emitted.
Sorted ==
  mode = "sort" =>
    /\ RuleCount > 1
    /\ Finished = Rules
    /\ visited = Elements(path) \cup Elements(output)
    /\ Elements(path) \cap Elements(output) = {}
    /\ \A r \in Rules : r < next => r \in visited
    /\ ~dropped => Remaining(deps, path, unread, tokens, Elements(output))
    /\ ~dropped /\ faults = 0 => Ordered(deps, output)

\* What the caller finds.
Answered ==
  /\ result = "cycle" => ~Acyclic
  /\ result # "ok" \/ RuleCount <= 1 => order = [i \in Rules |-> i]
  /\ result = "ok" /\ RuleCount > 1 =>
       /\ order \in Seq(Rules) /\ Distinct(order) /\ Elements(order) = Rules
       /\ ~dropped /\ faults = 0 => Ordered(deps, order)

IInv == Typed /\ Trail /\ Marked /\ Sorted /\ Answered


-----------------------------------------------------------------------------
(***************************************************************************)
(* Sequences.                                                              *)
(***************************************************************************)
LEMMA SeqFacts ==
  ASSUME NEW S, NEW s \in Seq(S)
  PROVE  /\ Len(s) \in Nat /\ DOMAIN s = 1 .. Len(s)
         /\ \A i \in 1 .. Len(s) : s[i] \in S
         /\ s # <<>> => Len(s) >= 1 /\ s[Len(s)] \in S
<1>1. Len(s) \in Nat /\ DOMAIN s = 1 .. Len(s)
  BY LenProperties
<1>2. \A i \in 1 .. Len(s) : s[i] \in S
  BY ElementOfSeq
<1>3. s # <<>> => Len(s) # 0
  BY EmptySeq
<1> QED
  BY <1>1, <1>2, <1>3

LEMMA NoElements == Elements(<<>>) = {} /\ Distinct(<<>>)
  BY DEF Elements, Distinct

LEMMA IsSequence ==
  ASSUME NEW S, NEW n \in Nat, NEW f \in [1 .. n -> S]
  PROVE  f \in Seq(S) /\ Len(f) = n
<1>1. [1 .. n -> S] \in {[1 .. m -> S] : m \in Nat}
  OBVIOUS
<1>2. f \in UNION {[1 .. m -> S] : m \in Nat}
  BY <1>1, Zenon
<1>3. f \in Seq(S)
  BY <1>2, SeqDef, Zenon
<1>4. DOMAIN f = 1 .. n /\ DOMAIN f = 1 .. Len(f) /\ Len(f) \in Nat
  BY <1>3, LenProperties
<1> QED
  BY <1>3, <1>4

LEMMA Appended ==
  ASSUME NEW S, NEW s \in Seq(S), NEW x \in S
  PROVE  LET a == Append(s, x) IN
         /\ a \in Seq(S) /\ Len(a) = Len(s) + 1 /\ DOMAIN a = 1 .. Len(s) + 1
         /\ a # <<>> /\ a[Len(s) + 1] = x /\ \A i \in 1 .. Len(s) : a[i] = s[i]
         /\ Elements(a) = Elements(s) \cup {x}
         /\ Distinct(s) /\ x \notin Elements(s) => Distinct(a)
<1> DEFINE a == Append(s, x)
           n == Len(s)
<1>1. n \in Nat /\ DOMAIN s = 1 .. n
  BY SeqFacts
<1>2. /\ a \in Seq(S) /\ Len(a) = n + 1 /\ a[n + 1] = x
      /\ \A i \in 1 .. n : a[i] = s[i]
  BY AppendProperties
<1>3. DOMAIN a = 1 .. n + 1 /\ a # <<>>
  BY <1>1, <1>2, LenProperties, EmptySeq
<1> HIDE DEF a, n
<1>4. Elements(a) = Elements(s) \cup {x}
  <2>1. 1 .. n + 1 = 1 .. n \cup {n + 1}
    BY <1>1
  <2> QED
    BY <1>1, <1>2, <1>3, <2>1 DEF Elements
<1>5. Distinct(s) /\ x \notin Elements(s) => Distinct(a)
  BY <1>1, <1>2, <1>3 DEF Elements, Distinct
<1> QED
  BY <1>2, <1>3, <1>4, <1>5 DEF a, n

LEMMA Prefix ==
  ASSUME NEW S, NEW s \in Seq(S), NEW k \in 0 .. Len(s)
  PROVE  /\ SubSeq(s, 1, k) \in Seq(S) /\ Len(SubSeq(s, 1, k)) = k
         /\ \A i \in 1 .. k : SubSeq(s, 1, k)[i] = s[i]
<1> DEFINE a == SubSeq(s, 1, k)
<1>1. Len(s) \in Nat /\ k \in Nat /\ k <= Len(s) /\ \A i \in 1 .. Len(s) : s[i] \in S
  BY SeqFacts
<1>2. \A i \in 1 .. k : s[i] \in S
  BY <1>1
<1>3. /\ a \in Seq(S) /\ Len(a) = IF 1 <= k THEN k - 1 + 1 ELSE 0
      /\ \A i \in 1 .. k - 1 + 1 : a[i] = s[1 + i - 1]
  BY <1>2, <1>1, SubSeqProperties
<1> QED
  BY <1>3, <1>1

LEMMA Popped ==
  ASSUME NEW S, NEW s \in Seq(S), s # <<>>
  PROVE  LET p == Pop(s)
             n == Len(s) - 1 IN
         /\ p \in Seq(S) /\ Len(p) = n /\ DOMAIN p = 1 .. n /\ n \in Nat
         /\ \A i \in 1 .. n : p[i] = s[i]
         /\ Elements(s) = Elements(p) \cup {s[Len(s)]}
         /\ Distinct(s) => Distinct(p) /\ s[Len(s)] \notin Elements(p)
<1> DEFINE p == Pop(s)
           n == Len(s) - 1
<1>1. n \in Nat /\ Len(s) = n + 1 /\ DOMAIN s = 1 .. n + 1 /\ \A i \in 1 .. n + 1 : s[i] \in S
  BY SeqFacts
<1>2. /\ p \in Seq(S) /\ Len(p) = n
      /\ \A i \in 1 .. n : p[i] = s[i]
  BY <1>1, Prefix DEF Pop
<1>3. DOMAIN p = 1 .. n
  BY <1>2, LenProperties
<1> HIDE DEF p, n
<1>4. Elements(s) = Elements(p) \cup {s[Len(s)]}
  <2>1. 1 .. n + 1 = 1 .. n \cup {n + 1}
    BY <1>1
  <2> QED
    BY <1>1, <1>2, <1>3, <2>1 DEF Elements
<1>5. Distinct(s) => Distinct(p) /\ s[Len(s)] \notin Elements(p)
  BY <1>1, <1>2, <1>3 DEF Elements, Distinct
<1> QED
  BY <1>1, <1>2, <1>3, <1>4, <1>5 DEF p, n

LEMMA Headed ==
  ASSUME NEW S, NEW s \in Seq(S), s # <<>>
  PROVE  /\ Head(s) \in S /\ Tail(s) \in Seq(S)
         /\ Elements(s) = Elements(Tail(s)) \cup {Head(s)}
<1> DEFINE h == Head(s)
           t == Tail(s)
           n == Len(t)
<1>1. /\ h \in S /\ t \in Seq(S) /\ n = Len(s) - 1
      /\ \A i \in 1 .. n : t[i] = s[i + 1]
  BY HeadTailProperties
<1>2. n \in Nat /\ DOMAIN s = 1 .. n + 1 /\ DOMAIN t = 1 .. n
  BY <1>1, SeqFacts
<1>3. h = s[1]
  BY <1>1, <1>2
<1> HIDE DEF h, t, n
<1>4. ASSUME NEW i \in 1 .. n + 1 PROVE s[i] \in Elements(t) \cup {h}
  <2>1. CASE i = 1
    BY <1>3, <2>1
  <2>2. CASE i # 1
    <3>1. i - 1 \in 1 .. n /\ i = (i - 1) + 1
      BY <1>2, <2>2
    <3> QED
      BY <1>1, <1>2, <3>1 DEF Elements
  <2> QED
    BY <2>1, <2>2
<1>5. \A i \in 1 .. n : t[i] \in Elements(s)
  <2>1. \A i \in 1 .. n : i + 1 \in 1 .. n + 1
    BY <1>2
  <2> QED
    BY <1>1, <1>2, <2>1 DEF Elements
<1>6. h \in Elements(s)
  BY <1>2, <1>3 DEF Elements
<1>7. Elements(s) = Elements(t) \cup {h}
  BY <1>2, <1>4, <1>5, <1>6 DEF Elements
<1> QED
  BY <1>1, <1>7 DEF h, t
-----------------------------------------------------------------------------
(***************************************************************************)
(* The rule set and the lists being read.                                  *)
(***************************************************************************)
LEMMA SetFacts ==
  ASSUME NEW d \in DependsOn
  PROVE  LET n == Cardinality(DOMAIN d) IN
         /\ n \in Nat /\ IsFiniteSet(DOMAIN d) /\ DOMAIN d = 1 .. n
         /\ NoSuchRule \notin DOMAIN d /\ DOMAIN d \subseteq Nat
         /\ \A r \in DOMAIN d : d[r] \in Seq(NamesOf(d)) /\ Elements(d[r]) \subseteq NamesOf(d)
<1> DEFINE n == Cardinality(DOMAIN d)
<1>1. IsFiniteSet(DOMAIN d) /\ d \in [1 .. n -> Seq(0 .. n)]
  BY DependencyAssumption
<1>2. n \in Nat
  BY <1>1, FS_CardinalityType
<1> HIDE DEF n
<1>3. DOMAIN d = 1 .. n /\ NoSuchRule \notin DOMAIN d /\ DOMAIN d \subseteq Nat
  BY <1>1, <1>2 DEF NoSuchRule
<1>4. 0 .. n = NamesOf(d)
  BY <1>2, <1>3 DEF NamesOf, NoSuchRule
<1>5. \A r \in DOMAIN d : d[r] \in Seq(NamesOf(d))
  BY <1>1, <1>3, <1>4
<1>6. \A r \in DOMAIN d : Elements(d[r]) \subseteq NamesOf(d)
  BY <1>5, SeqFacts DEF Elements
<1> QED
  BY <1>1, <1>2, <1>3, <1>5, <1>6 DEF n

\* A search enters r, with rest left of the list that named it.
Enters(p, names, r, rest) ==
  \/ p = <<>> /\ rest = <<>>
  \/ p # <<>> /\ names # <<>> /\ r = Head(names) /\ rest = Tail(names)

\* A rule named by the innermost list is outranked by every rule on the path: it
\* is not one of them when the set can be ranked.
LEMMA NamedIsBelow ==
  ASSUME NEW d \in DependsOn, NEW p, NEW names, NEW left, NEW freed,
         Reading(d, p, names, left, freed), p # <<>>,
         NEW r \in Elements(names) \cap DOMAIN d, NEW rank, Ranking(d, rank)
  PROVE  \A i \in DOMAIN p : rank[r] < rank[p[i]]
<1> DEFINE n == Len(p)
<1>1. n \in Nat /\ DOMAIN p = 1 .. n /\ n \in DOMAIN p /\ \A i \in DOMAIN p : p[i] \in DOMAIN d
  BY SeqFacts DEF Reading
<1>2. rank[r] < rank[p[n]]
  BY <1>1 DEF Reading, Ranking
<1>3. rank \in [DOMAIN d -> Nat]
  BY DEF Ranking
<1>4. ASSUME NEW i \in DOMAIN p PROVE rank[r] < rank[p[i]]
  <2>1. CASE i = n
    BY <1>2, <2>1
  <2>2. CASE i # n
    <3>1. i < n
      BY <1>1, <2>2
    <3>2. rank[p[n]] < rank[p[i]]
      BY <1>1, <3>1 DEF Reading, Descends
    <3>3. rank[r] \in Nat /\ rank[p[i]] \in Nat /\ rank[p[n]] \in Nat
      BY <1>1, <1>3
    <3> QED
      BY <1>2, <3>2, <3>3
  <2> QED
    BY <2>1, <2>2
<1> QED
  BY <1>4

LEMMA NoRankAgainst ==
  ASSUME NEW d \in DependsOn, NEW p, NEW names, NEW left, NEW freed,
         Reading(d, p, names, left, freed), p # <<>>,
         NEW r \in Elements(names) \cap Elements(p)
  PROVE  \A rank : ~Ranking(d, rank)
<1>1. PICK i \in DOMAIN p : p[i] = r
  BY DEF Elements
<1>2. r \in DOMAIN d
  BY <1>1, SeqFacts DEF Reading
<1>3. ASSUME NEW rank, Ranking(d, rank) PROVE FALSE
  <2>1. rank[r] < rank[p[i]]
    BY <1>1, <1>2, <1>3, NamedIsBelow
  <2>2. rank[r] \in Nat
    BY <1>2, <1>3 DEF Ranking
  <2> QED
    BY <1>1, <2>1, <2>2
<1> QED
  BY <1>3

\* A list is opened.
LEMMA ReadingOpens ==
  ASSUME NEW d \in DependsOn, NEW p, NEW names, NEW left, NEW freed,
         Reading(d, p, names, left, freed),
         NEW r \in DOMAIN d, NEW rest, Enters(p, names, r, rest), r \notin Elements(p)
  PROVE  LET into == Append(p, r)
             kept == [i \in 1 .. Len(p) + 1 |->
                       IF i < Len(p) THEN left[i] ELSE IF i = Len(p) THEN rest ELSE <<>>] IN
         /\ Reading(d, into, d[r], kept, FALSE)
         /\ \A done : Remaining(d, p, left, names, done)
                      => Remaining(d, into, kept, d[r], done)
<1> DEFINE into == Append(p, r)
           n == Len(p)
           kept == [i \in 1 .. n + 1 |->
                     IF i < n THEN left[i] ELSE IF i = n THEN rest ELSE <<>>]
<1>1. /\ n \in Nat /\ DOMAIN p = 1 .. n /\ p \in Seq(DOMAIN d)
      /\ \A i \in 1 .. n : p[i] \in DOMAIN d
      /\ p # <<>> => n >= 1
  BY SeqFacts DEF Reading
<1>2. /\ into \in Seq(DOMAIN d) /\ Len(into) = n + 1 /\ DOMAIN into = 1 .. n + 1 /\ into # <<>>
      /\ into[n + 1] = r /\ \A i \in 1 .. n : into[i] = p[i]
      /\ Elements(into) = Elements(p) \cup {r} /\ Distinct(into)
  BY <1>1, Appended DEF Reading
<1>3. d[r] \in Seq(NamesOf(d))
  BY SetFacts
<1>4. /\ rest \in Seq(NamesOf(d))
      /\ n # 0 => /\ r \in Elements(d[p[n]]) /\ left[n] = <<>>
                  /\ Elements(names) = Elements(rest) \cup {r}
  <2>1. CASE p = <<>>
    BY <2>1, <1>1, EmptySeq DEF Enters
  <2>2. CASE p # <<>>
    <3>1. names # <<>> /\ names \in Seq(NamesOf(d)) /\ r = Head(names) /\ rest = Tail(names)
      BY <2>2 DEF Enters, Reading
    <3>2. rest \in Seq(NamesOf(d)) /\ Elements(names) = Elements(rest) \cup {r}
      BY <3>1, Headed
    <3> QED
      BY <2>2, <3>1, <3>2 DEF Reading
  <2> QED
    BY <2>1, <2>2
<1>5. /\ left \in Seq(Seq(NamesOf(d))) /\ Len(left) = n /\ \A i \in 1 .. n : left[i] \in Seq(NamesOf(d))
  BY <1>1, SeqFacts DEF Reading
<1> HIDE DEF into, n
<1>6. /\ kept \in Seq(Seq(NamesOf(d))) /\ Len(kept) = n + 1 /\ kept[n + 1] = <<>>
      /\ \A i \in 1 .. n : kept[i] = IF i < n THEN left[i] ELSE rest
  <2>1. kept \in [1 .. n + 1 -> Seq(NamesOf(d))]
    BY <1>1, <1>4, <1>5, EmptySeq
  <2>2. n + 1 \in Nat
    BY <1>1
  <2>3. kept \in Seq(Seq(NamesOf(d))) /\ Len(kept) = n + 1
    BY <2>1, <2>2, IsSequence
  <2> QED
    BY <1>1, <2>3
<1> HIDE DEF kept
<1>7. Descends(d, into)
  <2> SUFFICES ASSUME NEW rank, Ranking(d, rank), NEW i \in 1 .. n + 1, NEW j \in 1 .. n + 1, i < j
               PROVE  rank[into[j]] < rank[into[i]]
    BY <1>2 DEF Descends
  <2>1. CASE j = n + 1
    <3>1. i \in 1 .. n /\ n # 0
      BY <1>1, <2>1
    <3>2. p # <<>> /\ r \in Elements(names) \cap DOMAIN d
      BY <1>1, <1>4, <3>1
    <3>3. rank[r] < rank[p[i]]
      BY <1>1, <3>1, <3>2, NamedIsBelow
    <3> QED
      BY <1>2, <2>1, <3>1, <3>3
  <2>2. CASE j # n + 1
    <3>1. i \in 1 .. n /\ j \in 1 .. n
      BY <1>1, <2>2
    <3> QED
      BY <1>1, <1>2, <3>1 DEF Reading, Descends
  <2> QED
    BY <2>1, <2>2
<1>8. Reading(d, into, d[r], kept, FALSE)
  BY <1>2, <1>3, <1>6, <1>7 DEF Reading
<1>9. ASSUME NEW done, Remaining(d, p, left, names, done)
      PROVE  Remaining(d, into, kept, d[r], done)
  <2> SUFFICES ASSUME NEW i \in 1 .. n + 1, NEW x \in Elements(d[into[i]])
               PROVE  \/ x \in Elements(kept[i])
                      \/ i = n + 1 /\ x \in Elements(d[r])
                      \/ i < n + 1 /\ x = into[i + 1]
                      \/ x \in done
    BY <1>2 DEF Remaining
  <2>1. CASE i = n + 1
    BY <1>2, <2>1
  <2>2. CASE i = n
    <3>1. n \in 1 .. n /\ n # 0
      BY <1>1, <2>2
    <3>2. x \in Elements(left[n]) \/ x \in Elements(names) \/ x \in done
      BY <1>1, <1>2, <1>9, <2>2, <3>1 DEF Remaining, n
    <3>3. x \in Elements(rest) \/ x = r \/ x \in done
      BY <1>4, <3>1, <3>2, NoElements
    <3> QED
      BY <1>1, <1>2, <1>6, <2>2, <3>1, <3>3
  <2>3. CASE i < n
    <3>1. i \in 1 .. n /\ i + 1 \in 1 .. n /\ i < n + 1 /\ i # n
      BY <1>1, <2>3
    <3>2. x \in Elements(left[i]) \/ x = p[i + 1] \/ x \in done
      BY <1>1, <1>2, <1>9, <3>1 DEF Remaining, n
    <3> QED
      BY <1>2, <1>6, <2>3, <3>1, <3>2
  <2> QED
    BY <1>1, <2>1, <2>2, <2>3
<1> QED
  BY <1>8, <1>9 DEF into, kept, n

\* A name is passed over.
LEMMA ReadingSkips ==
  ASSUME NEW d \in DependsOn, NEW p, NEW names, NEW left, NEW freed,
         Reading(d, p, names, left, freed),
         NEW r, NEW rest, Enters(p, names, r, rest)
  PROVE  /\ Reading(d, p, rest, left, freed)
         /\ \A done, more :
              Remaining(d, p, left, names, done) /\ done \subseteq more /\ r \in more
              => Remaining(d, p, left, rest, more)
<1>1. CASE p = <<>>
  <2>1. rest = <<>> /\ DOMAIN p = {}
    BY <1>1, SeqFacts, EmptySeq DEF Enters
  <2> QED
    BY <1>1, <2>1, NoElements, EmptySeq DEF Reading, Remaining
<1>2. CASE p # <<>>
  <2>1. names # <<>> /\ names \in Seq(NamesOf(d)) /\ r = Head(names) /\ rest = Tail(names)
    BY <1>2 DEF Enters, Reading
  <2>2. rest \in Seq(NamesOf(d)) /\ Elements(names) = Elements(rest) \cup {r}
    BY <2>1, Headed
  <2>3. Reading(d, p, rest, left, freed)
    BY <2>1, <2>2 DEF Reading
  <2>4. \A done, more :
              Remaining(d, p, left, names, done) /\ done \subseteq more /\ r \in more
              => Remaining(d, p, left, rest, more)
    BY <2>2 DEF Remaining
  <2> QED
    BY <2>3, <2>4
<1> QED
  BY <1>1, <1>2

\* The innermost list is closed.
LEMMA ReadingCloses ==
  ASSUME NEW d \in DependsOn, NEW p, NEW names, NEW left, NEW freed,
         Reading(d, p, names, left, freed), p # <<>>, names = <<>>
  PROVE  LET top == p[Len(p)] IN
         /\ top \in DOMAIN d /\ Len(left) = Len(p)
         /\ Reading(d, Pop(p), <<>>, Pop(left), TRUE)
         /\ Elements(p) = Elements(Pop(p)) \cup {top} /\ top \notin Elements(Pop(p))
         /\ \A done : Remaining(d, p, left, names, done) =>
              /\ \A more : done \subseteq more /\ top \in more =>
                   Remaining(d, Pop(p), Pop(left), <<>>, more)
              /\ left[Len(p)] = <<>> => Elements(d[top]) \subseteq done
<1> DEFINE q == Pop(p)
           n == Len(p) - 1
           rest == Pop(left)
           top == p[Len(p)]
<1>1. /\ n \in Nat /\ Len(p) = n + 1 /\ DOMAIN p = 1 .. n + 1 /\ p \in Seq(DOMAIN d)
      /\ \A i \in 1 .. n + 1 : p[i] \in DOMAIN d
  BY SeqFacts DEF Reading
<1>2. /\ q \in Seq(DOMAIN d) /\ Len(q) = n /\ DOMAIN q = 1 .. n
      /\ \A i \in 1 .. n : q[i] = p[i]
      /\ Elements(p) = Elements(q) \cup {top} /\ Distinct(q) /\ top \notin Elements(q)
  BY <1>1, Popped DEF Reading
<1>3. left \in Seq(Seq(NamesOf(d))) /\ Len(left) = n + 1 /\ left # <<>>
  BY <1>1, EmptySeq DEF Reading
<1>4. rest \in Seq(Seq(NamesOf(d))) /\ Len(rest) = n /\ \A i \in 1 .. n : rest[i] = left[i]
  BY <1>3, <1>1, Popped
<1>5. names = <<>> /\ top = p[n + 1] /\ top \in DOMAIN d
  BY <1>1 DEF Reading
<1> HIDE DEF q, n, rest, top
<1>6. Descends(d, q)
  <2>1. 1 .. n \subseteq 1 .. n + 1
    BY <1>1
  <2>2. Descends(d, p)
    BY DEF Reading
  <2> QED
    BY <1>1, <1>2, <2>1, <2>2 DEF Descends
<1>7. Reading(d, q, <<>>, rest, TRUE)
  BY <1>2, <1>4, <1>6, NoElements, EmptySeq DEF Reading
<1>8. ASSUME NEW done, Remaining(d, p, left, names, done), NEW more, done \subseteq more, top \in more
      PROVE  Remaining(d, q, rest, <<>>, more)
  <2> SUFFICES ASSUME NEW i \in 1 .. n, NEW x \in Elements(d[q[i]])
               PROVE  \/ x \in Elements(rest[i])
                      \/ i < n /\ x = q[i + 1]
                      \/ x \in more
    BY <1>2 DEF Remaining
  <2>1. i \in 1 .. n + 1 /\ i < n + 1 /\ i # n + 1
    BY <1>1
  <2>2. x \in Elements(left[i]) \/ x = p[i + 1] \/ x \in done
    BY <1>1, <1>2, <1>8, <2>1 DEF Remaining
  <2>3. CASE i = n
    BY <1>4, <1>5, <1>8, <2>2, <2>3
  <2>4. CASE i # n
    <3>1. i + 1 \in 1 .. n /\ i < n
      BY <1>1, <2>4
    <3> QED
      BY <1>2, <1>4, <1>8, <2>2, <3>1
  <2> QED
    BY <2>3, <2>4
<1>9. ASSUME NEW done, Remaining(d, p, left, names, done), left[n + 1] = <<>>
      PROVE  Elements(d[top]) \subseteq done
  <2>1. n + 1 \in DOMAIN p /\ ~(n + 1 < Len(p))
    BY <1>1
  <2> QED
    BY <1>1, <1>5, <1>9, <2>1, NoElements DEF Remaining
<1> QED
  BY <1>1, <1>2, <1>3, <1>5, <1>7, <1>8, <1>9 DEF q, n, rest, top

-----------------------------------------------------------------------------
(***************************************************************************)
(* The steps of the validation.                                            *)
(***************************************************************************)
LEMMA Setting ==
  ASSUME Typed
  PROVE  /\ RuleCount \in Nat /\ IsFiniteSet(Rules) /\ Rules = 1 .. RuleCount
         /\ NoSuchRule \notin Rules /\ Rules \subseteq Nat /\ Rules = DOMAIN deps
         /\ \A r \in Rules : /\ deps[r] \in Seq(NamesOf(deps))
                             /\ Elements(deps[r]) \subseteq NamesOf(deps)
                             /\ Dependencies(r) = Elements(deps[r])
<1>1. deps \in DependsOn
  BY DEF Typed
<1>2. \A r : Dependencies(r) = Elements(deps[r])
  BY DEF Dependencies, Elements
<1> QED
  BY <1>1, <1>2, SetFacts DEF RuleCount, Rules

\* An acyclic set can be ranked.
LEMMA AcyclicRanks ==
  ASSUME Typed, Acyclic
  PROVE  \E rank : Ranking(deps, rank)
<1>1. PICK rank \in [Rules -> Rules] :
        \A r \in Rules : \A x \in Dependencies(r) \cap Rules : rank[x] < rank[r]
  BY DEF Acyclic
<1>2. rank \in [Rules -> Nat]
  BY <1>1, Setting
<1>3. Ranking(deps, rank)
  BY <1>1, <1>2, Setting DEF Ranking
<1> QED
  BY <1>3

\* A search is refused: nothing changes but the answer.
LEMMA Refused ==
  ASSUME IInv, Running, NEW why \in {"cycle", "missing", "oom"}, Reject(why),
         UNCHANGED <<deps, visited, path, tokens, stale, unread, output, order>>,
         next' \in 1 .. RuleCount + 1, color' \in [Rules -> 0 .. 2], Finished' = Finished,
         dropped' \in BOOLEAN, dropped => dropped', faults' \in 0 .. MaxFaults,
         why = "cycle" => ~Acyclic
  PROVE  IInv'
<1>1. Rules' = Rules /\ RuleCount' = RuleCount /\ (Acyclic <=> Acyclic')
  BY DEF Rules, RuleCount, Acyclic, Dependencies
<1>2. mode' = "done" /\ result' = why /\ result = "none"
  BY DEF Reject, Running
<1>3. Typed'
  BY <1>1, <1>2 DEF IInv, Typed
<1>4. Trail'
  BY DEF IInv, Trail
<1>5. Marked'
  BY <1>1, <1>2 DEF IInv, Marked
<1>6. Sorted'
  BY <1>2 DEF Sorted
<1>7. Answered'
  BY <1>1, <1>2 DEF IInv, Answered
<1> QED
  BY <1>3, <1>4, <1>5, <1>6, <1>7 DEF IInv

LEMMA EnteredRule ==
  ASSUME Typed, Trail, NEW r, NEW rest, Enters(path, tokens, r, rest)
  PROVE  /\ path # <<>> => r \in Elements(tokens) /\ r \in Elements(deps[Top]) /\ Top \in Rules
         /\ path # <<>> /\ r \in Elements(path) => \A rank : ~Ranking(deps, rank)
<1>1. CASE path = <<>>
  BY <1>1
<1>2. CASE path # <<>>
  <2>1. tokens # <<>> /\ tokens \in Seq(NamesOf(deps)) /\ r = Head(tokens)
    BY <1>2 DEF Enters, Trail, Reading
  <2>2. r \in Elements(tokens)
    BY <2>1, Headed
  <2>3. r \in Elements(deps[Top])
    BY <1>2, <2>2 DEF Trail, Reading, Top
  <2>4. Top \in Rules
    BY <1>2, SeqFacts DEF Trail, Reading, Rules, Top
  <2>5. r \in Elements(path) => \A rank : ~Ranking(deps, rank)
    BY <1>2, <2>2, NoRankAgainst DEF Trail, Typed
  <2> QED
    BY <2>2, <2>3, <2>4, <2>5
<1> QED
  BY <1>1, <1>2

LEMMA ValidateEntryStep ==
  ASSUME IInv, mode = "validate", Running, NEW r \in Rules, NEW rest,
         Enters(path, tokens, r, rest), path = <<>> => color[r] = 0,
         ValidateEntry(r, rest),
         UNCHANGED <<deps, visited, dropped, output, order>>,
         next' \in 1 .. RuleCount + 1, \A q \in Rules : q < next' => q < next \/ q = r
  PROVE  IInv'
<1> USE DEF IInv
<1>1. Rules' = Rules /\ RuleCount' = RuleCount
  BY DEF Rules, RuleCount
<1>2. color \in [Rules -> 0 .. 2] /\ faults \in 0 .. MaxFaults /\ result = "none"
  BY DEF Typed, Running
<1>3. CASE color[r] = 1 /\ Reject("cycle") /\ UNCHANGED <<color, path, unread, tokens, stale, faults>>
  <2>1. path # <<>> /\ r \in Elements(path)
    BY <1>3 DEF Marked
  <2>2. ~Acyclic
    BY <2>1, AcyclicRanks, EnteredRule
  <2>3. Finished' = Finished
    BY <1>1, <1>3 DEF Finished
  <2> QED
    BY <1>2, <1>3, <2>2, <2>3, Refused DEF Typed
<1>4. CASE /\ color[r] = 2 \/ (color[r] = 0 /\ deps[r] = <<>>)
           /\ color' = [color EXCEPT ![r] = 2]
           /\ tokens' = rest
           /\ UNCHANGED <<path, unread, stale, result, mode, faults>>
  <2>1. /\ color' \in [Rules -> 0 .. 2] /\ color'[r] = 2
        /\ \A q \in Rules : q # r => color'[q] = color[q]
        /\ Finished' = Finished \cup {r}
    BY <1>1, <1>2, <1>4 DEF Finished
  <2>2. r \notin Finished => Elements(deps[r]) = {}
    BY <1>2, <1>4, NoElements DEF Finished
  <2>3. Typed'
    BY <1>1, <1>4, <2>1 DEF Typed
  <2>4. Trail' /\ Remaining(deps, path, unread, tokens', Finished')
    <3>1. Remaining(deps, path, unread, tokens, Finished)
      BY DEF Marked
    <3>2. deps \in DependsOn /\ Reading(deps, path, tokens, unread, stale)
      BY DEF Typed, Trail
    <3> QED
      BY <1>4, <2>1, <3>1, <3>2, ReadingSkips DEF Trail
  <2>5. Marked'
    <3>1. \A q \in Rules : color'[q] = 1 <=> q \in Elements(path')
      BY <1>4, <2>1 DEF Marked
    <3>2. \A q \in Rules : q < next' => color'[q] # 0
      BY <2>1 DEF Marked
    <3>3. ~dropped => \A q \in Finished' : Elements(deps[q]) \subseteq Finished'
      BY <2>1, <2>2 DEF Marked
    <3>4. ~dropped => \E rank \in [Rules -> Nat], k \in Nat :
                   /\ \A q \in Rules : rank[q] <= k
                   /\ \A q \in Finished' : \A x \in Elements(deps[q]) : rank[x] < rank[q]
      BY <2>1, <2>2 DEF Marked
    <3>5. output' = <<>> /\ visited' = {}
      BY DEF Marked
    <3> QED
      BY <1>1, <1>4, <2>4, <3>1, <3>2, <3>3, <3>4, <3>5 DEF Marked
  <2>6. Sorted' /\ Answered'
    <3>1. mode' = "validate" /\ result' = "none"
      BY <1>2, <1>4
    <3> QED
      BY <1>1, <1>2, <3>1 DEF Sorted, Answered
  <2> QED
    BY <2>3, <2>4, <2>5, <2>6
<1>5. CASE /\ color[r] = 0 /\ deps[r] # <<>> /\ color' = [color EXCEPT ![r] = 1]
           /\ OpenList(r, rest) /\ UNCHANGED <<result, mode, faults>>
  <2>1. /\ color' \in [Rules -> 0 .. 2] /\ color'[r] = 1
        /\ \A q \in Rules : q # r => color'[q] = color[q]
        /\ Finished' = Finished
    BY <1>1, <1>2, <1>5 DEF Finished
  <2>2. r \notin Elements(path)
    BY <1>5 DEF Marked
  <2>3. Typed'
    BY <1>1, <1>5, <2>1 DEF Typed, OpenList
  <2>4. Trail' /\ Remaining(deps, path', unread', tokens', Finished)
    <3>1. Remaining(deps, path, unread, tokens, Finished)
      BY DEF Marked
    <3>2. deps \in DependsOn /\ Reading(deps, path, tokens, unread, stale) /\ r \in DOMAIN deps
      BY DEF Typed, Trail, Rules
    <3> DEFINE kept == [i \in 1 .. Len(path) + 1 |->
                          IF i < Len(path) THEN unread[i]
                          ELSE IF i = Len(path) THEN rest ELSE <<>>]
    <3>3. /\ Reading(deps, Append(path, r), deps[r], kept, FALSE)
          /\ Remaining(deps, Append(path, r), kept, deps[r], Finished)
      BY <2>2, <3>1, <3>2, ReadingOpens, ZenonT(60)
    <3>4. /\ path' = Append(path, r) /\ tokens' = deps[r] /\ unread' = kept
          /\ stale' = FALSE /\ deps' = deps
      BY <1>5 DEF OpenList
    <3> HIDE DEF kept
    <3> QED
      BY <3>3, <3>4 DEF Trail
  <2>5. Elements(path') = Elements(path) \cup {r}
    BY <1>5, Appended DEF Trail, Reading, OpenList, Rules
  <2>6. Marked'
    <3>1. \A q \in Rules : color'[q] = 1 <=> q \in Elements(path')
      BY <2>1, <2>5 DEF Marked
    <3>2. \A q \in Rules : q < next' => color'[q] # 0
      BY <2>1 DEF Marked
    <3>3. output' = <<>> /\ visited' = {}
      BY DEF Marked
    <3> QED
      BY <1>1, <1>5, <2>1, <2>4, <3>1, <3>2, <3>3 DEF Marked
  <2>7. Sorted' /\ Answered'
    <3>1. mode' = "validate" /\ result' = "none"
      BY <1>2, <1>5
    <3> QED
      BY <1>1, <1>2, <3>1 DEF Sorted, Answered
  <2> QED
    BY <2>3, <2>4, <2>6, <2>7
<1>6. CASE /\ color[r] = 0 /\ color' = [color EXCEPT ![r] = 1]
           /\ Fault /\ Reject("oom") /\ UNCHANGED <<path, unread, tokens, stale>>
  <2>1. color' \in [Rules -> 0 .. 2] /\ Finished' = Finished
    BY <1>1, <1>2, <1>6 DEF Finished
  <2>2. faults' \in 0 .. MaxFaults
    BY <1>2, <1>6, DependencyAssumption DEF Fault
  <2> QED
    BY <1>6, <2>1, <2>2, Refused DEF Typed
<1> QED
  BY <1>3, <1>4, <1>5, <1>6 DEF ValidateEntry

LEMMA ValidateNextRuleStep ==
  ASSUME IInv, ValidateNextRule
  PROVE  IInv'
<1>1. next \in Rules /\ next \in Nat /\ next' = next + 1 /\ next' \in 1 .. RuleCount + 1
  BY Setting DEF ValidateNextRule, IInv
<1>2. \A q \in Rules : q < next' => q < next \/ q = next
  BY <1>1, Setting DEF IInv
<1>3. CASE color[next] = 0
  <2>1. Enters(path, tokens, next, <<>>)
    BY DEF ValidateNextRule, Enters
  <2> QED
    BY <1>1, <1>2, <1>3, <2>1, ValidateEntryStep DEF ValidateNextRule
<1>4. CASE color[next] # 0
  <2>1. UNCHANGED <<deps, mode, color, visited, path, tokens, stale, unread, dropped, output,
                    order, result, faults>>
    BY <1>4 DEF ValidateNextRule
  <2>2. Rules' = Rules /\ RuleCount' = RuleCount /\ Finished' = Finished
    BY <2>1 DEF Rules, RuleCount, Finished
  <2>3. Typed' /\ Trail'
    BY <1>1, <2>1, <2>2 DEF IInv, Typed, Trail
  <2>4. Marked'
    <3>1. \A q \in Rules : q < next' => color[q] # 0
      BY <1>2, <1>4 DEF IInv, Marked, ValidateNextRule
    <3> QED
      BY <2>1, <2>2, <3>1 DEF IInv, Marked
  <2>5. mode' = "validate" /\ result' = "none"
    BY <2>1 DEF ValidateNextRule, Running
  <2>6. Sorted' /\ Answered'
    BY <2>1, <2>2, <2>5 DEF IInv, Sorted, Answered
  <2> QED
    BY <2>3, <2>4, <2>6 DEF IInv
<1> QED
  BY <1>3, <1>4

LEMMA ValidateNextNameStep ==
  ASSUME IInv, ValidateNextName
  PROVE  IInv'
<1>1. Enters(path, tokens, Head(tokens), Tail(tokens)) /\ path # <<>>
  BY DEF Enters, ValidateNextName
<1>2. /\ Top \in Rules /\ Head(tokens) \in Elements(deps[Top])
      /\ Head(tokens) \in Rules \cup {NoSuchRule}
  BY <1>1, EnteredRule, Setting DEF IInv, NamesOf
<1>3. next' = next /\ next' \in 1 .. RuleCount + 1
  BY DEF IInv, Typed, ValidateNextName
<1>4. CASE Head(tokens) = NoSuchRule
  <2>1. Finished' = Finished
    BY <1>4 DEF ValidateNextName, Finished, Rules
  <2> QED
    BY <1>3, <1>4, <2>1, Refused DEF ValidateNextName, IInv, Typed
<1>5. CASE Head(tokens) # NoSuchRule
  BY <1>1, <1>2, <1>3, <1>5, ValidateEntryStep DEF ValidateNextName
<1> QED
  BY <1>4, <1>5

LEMMA ValidateListEndsStep ==
  ASSUME IInv, ValidateListEnds
  PROVE  IInv'
<1> DEFINE top == path[Len(path)]
<1>1. /\ mode = "validate" /\ result = "none" /\ path # <<>>
      /\ (stale \/ tokens = <<>>)
      /\ color' = [color EXCEPT ![top] = 2] /\ CloseList
      /\ UNCHANGED <<deps, mode, next, visited, output, order, result, faults>>
  BY DEF ValidateListEnds, Running, Top
<1>2. Rules' = Rules /\ RuleCount' = RuleCount
  BY <1>1 DEF Rules, RuleCount
<1>3. deps \in DependsOn /\ Reading(deps, path, tokens, unread, stale) /\ Rules = DOMAIN deps
  BY DEF IInv, Typed, Trail, Rules
<1>4. /\ top \in Rules /\ Len(unread) = Len(path)
      /\ Reading(deps, Pop(path), <<>>, Pop(unread), TRUE)
      /\ Elements(path) = Elements(Pop(path)) \cup {top} /\ top \notin Elements(Pop(path))
      /\ \A done : Remaining(deps, path, unread, tokens, done) =>
           /\ \A more : done \subseteq more /\ top \in more =>
                Remaining(deps, Pop(path), Pop(unread), <<>>, more)
           /\ unread[Len(path)] = <<>> => Elements(deps[top]) \subseteq done
  <2>1. tokens = <<>>
    BY <1>1 DEF IInv, Trail, Reading
  <2> QED
    BY <1>1, <1>3, <2>1, ReadingCloses, ZenonT(60)
<1> HIDE DEF top
<1>5. color \in [Rules -> 0 .. 2] /\ color[top] = 1
  BY <1>1, <1>4 DEF IInv, Typed, Marked
<1>6. /\ color' \in [Rules -> 0 .. 2] /\ color'[top] = 2
      /\ \A q \in Rules : q # top => color'[q] = color[q]
      /\ Finished' = Finished \cup {top} /\ top \notin Finished
  BY <1>1, <1>2, <1>4, <1>5 DEF Finished
<1>7. Typed'
  BY <1>1, <1>2, <1>6 DEF IInv, Typed, CloseList
<1>8. Trail'
  BY <1>1, <1>4 DEF Trail, CloseList
<1>9. Remaining(deps, path, unread, tokens, Finished)
  BY <1>1 DEF IInv, Marked
<1>10. Remaining(deps, path', unread', tokens', Finished')
  BY <1>1, <1>4, <1>6, <1>9 DEF CloseList
<1>11. ~dropped' => ~dropped /\ Elements(deps[top]) \subseteq Finished
  BY <1>1, <1>4, <1>9 DEF CloseList
<1>12. Marked'
  <2>1. \A q \in Rules : color'[q] = 1 <=> q \in Elements(path')
    BY <1>1, <1>4, <1>6 DEF IInv, Marked, CloseList
  <2>2. \A q \in Rules : q < next => color'[q] # 0
    BY <1>1, <1>6 DEF IInv, Marked
  <2>3. ~dropped' => \A q \in Finished' : Elements(deps[q]) \subseteq Finished'
    BY <1>6, <1>11 DEF IInv, Marked
  <2>4. ASSUME ~dropped'
        PROVE  \E rank \in [Rules -> Nat], k \in Nat :
                   /\ \A q \in Rules : rank[q] <= k
                   /\ \A q \in Finished' : \A x \in Elements(deps[q]) : rank[x] < rank[q]
    <3>1. PICK rank \in [Rules -> Nat], k \in Nat :
                   /\ \A q \in Rules : rank[q] <= k
                   /\ \A q \in Finished : \A x \in Elements(deps[q]) : rank[x] < rank[q]
      BY <1>11, <2>4 DEF IInv, Marked
    <3> DEFINE higher == [rank EXCEPT ![top] = k + 1]
    <3>2. /\ higher \in [Rules -> Nat] /\ k + 1 \in Nat /\ higher[top] = k + 1
          /\ \A q \in Rules : q # top => higher[q] = rank[q]
      BY <1>4
    <3> HIDE DEF higher
    <3>3. \A q \in Rules : higher[q] <= k + 1
      BY <3>1, <3>2
    <3>4. Finished \subseteq Rules /\ \A q \in Finished : Elements(deps[q]) \subseteq Finished
      BY <1>11, <2>4 DEF IInv, Marked, Finished
    <3>5. \A x \in Finished : higher[x] = rank[x] /\ rank[x] < k + 1
      BY <1>6, <3>1, <3>2, <3>4
    <3>6. \A q \in Finished' : \A x \in Elements(deps[q]) : higher[x] < higher[q]
      BY <1>6, <1>11, <2>4, <3>1, <3>2, <3>4, <3>5
    <3> QED
      BY <3>2, <3>3, <3>6
  <2>5. output' = <<>> /\ visited' = {}
    BY <1>1 DEF IInv, Marked
  <2> QED
    BY <1>1, <1>2, <1>10, <2>1, <2>2, <2>3, <2>4, <2>5 DEF Marked
<1>13. Sorted' /\ Answered'
  <2>1. mode' = "validate" /\ result' = "none" /\ order' = order /\ result = "none"
    BY <1>1
  <2> QED
    BY <1>2, <2>1 DEF IInv, Sorted, Answered
<1> QED
  BY <1>7, <1>8, <1>12, <1>13 DEF IInv

LEMMA ValidateEndStep ==
  ASSUME IInv, RuleCount > 1, ValidateGarbageName \/ ValidationPasses \/ NoArrays
  PROVE  IInv'
<1>1. CASE ValidateGarbageName
  <2>1. Finished' = Finished /\ next' = next /\ color' = color /\ faults' = faults
    BY <1>1 DEF ValidateGarbageName, Finished, Rules
  <2> QED
    BY <1>1, <2>1, Refused DEF ValidateGarbageName, IInv, Typed
<1>2. CASE NoArrays
  <2>1. Finished' = Finished /\ next' = next /\ color' = color
    BY <1>2 DEF NoArrays, Finished, Rules
  <2>2. faults' \in 0 .. MaxFaults
    BY <1>2, DependencyAssumption DEF NoArrays, Fault, IInv, Typed
  <2> QED
    BY <1>2, <2>1, <2>2, Refused DEF NoArrays, IInv, Typed
<1>3. CASE ValidationPasses
  <2>1. /\ mode = "validate" /\ result = "none" /\ path = <<>> /\ next = RuleCount + 1
        /\ mode' = "sort" /\ next' = 1
        /\ UNCHANGED <<deps, color, visited, path, tokens, stale, unread, dropped, output,
                 order, result, faults>>
    BY <1>3 DEF ValidationPasses, Running
  <2>2. Rules' = Rules /\ RuleCount' = RuleCount /\ Finished' = Finished
    BY <2>1 DEF Rules, RuleCount, Finished
  <2>3. Typed' /\ Trail'
    BY <2>1, <2>2, Setting DEF IInv, Typed, Trail
  <2>4. Marked'
    BY <2>1, <2>2 DEF IInv, Marked
  <2>5. Finished = Rules
    <3>1. \A r \in Rules : color[r] \in 0 .. 2 /\ color[r] # 0 /\ color[r] # 1
      BY <2>1, Setting, NoElements DEF IInv, Typed, Marked
    <3>2. \A r \in Rules : color[r] = 2
      BY <3>1
    <3> QED
      BY <3>2 DEF Finished
  <2>6. Sorted'
    <3>1. visited' = {} /\ output' = <<>> /\ DOMAIN output' = {} /\ DOMAIN path' = {} /\ path' = <<>>
      BY <2>1, EmptySeq DEF IInv, Marked
    <3>2. Remaining(deps', path', unread', tokens', Elements(output')) /\ Ordered(deps', output')
      BY <3>1 DEF Remaining, Ordered
    <3>3. \A r \in Rules : ~(r < next')
      BY <2>1, Setting DEF IInv
    <3> QED
      BY <2>2, <2>5, <3>1, <3>2, <3>3, NoElements DEF Sorted
  <2>7. Answered'
    BY <2>1, <2>2 DEF IInv, Answered
  <2> QED
    BY <2>3, <2>4, <2>6, <2>7 DEF IInv
<1> QED
  BY <1>1, <1>2, <1>3

-----------------------------------------------------------------------------
(***************************************************************************)
(* The steps of the sort.                                                  *)
(***************************************************************************)
\* What the validation leaves to the sort: when no name was lost, every name is
\* a rule's and the rules can be ranked.
LEMMA SortSetting ==
  ASSUME IInv, mode = "sort"
  PROVE  /\ RuleCount > 1 /\ Finished = Rules
         /\ ~dropped => /\ \A r \in Rules : Elements(deps[r]) \subseteq Rules
                        /\ \E rank : Ranking(deps, rank)
<1>1. RuleCount > 1 /\ Finished = Rules
  BY DEF IInv, Sorted
<1>2. ASSUME ~dropped
      PROVE  /\ \A r \in Rules : Elements(deps[r]) \subseteq Rules
             /\ \E rank : Ranking(deps, rank)
  <2>1. \A r \in Rules : Elements(deps[r]) \subseteq Rules
    BY <1>1, <1>2 DEF IInv, Marked
  <2>2. PICK rank \in [Rules -> Nat] :
          \A r \in Rules : \A x \in Elements(deps[r]) : rank[x] < rank[r]
    BY <1>1, <1>2 DEF IInv, Marked
  <2>3. Ranking(deps, rank)
    BY <2>2 DEF Ranking, Rules
  <2> QED
    BY <2>1, <2>3
<1> QED
  BY <1>1, <1>2

LEMMA SortEntryStep ==
  ASSUME IInv, mode = "sort", Running, NEW r \in Rules, NEW rest,
         Enters(path, tokens, r, rest), SortEntry(r, rest),
         UNCHANGED <<deps, mode, color, dropped, order, result>>,
         next' \in 1 .. RuleCount + 1, \A q \in Rules : q < next' => q < next \/ q = r
  PROVE  IInv'
<1> USE DEF IInv
<1>1. Rules' = Rules /\ RuleCount' = RuleCount /\ Finished' = Finished
  BY DEF Rules, RuleCount, Finished
<1>2. /\ visited \subseteq Rules /\ output \in Seq(Rules) /\ Distinct(output)
      /\ faults \in 0 .. MaxFaults /\ result = "none" /\ result' = "none"
      /\ deps \in DependsOn /\ Rules = DOMAIN deps
      /\ Reading(deps, path, tokens, unread, stale)
  BY DEF Typed, Running, Trail, Rules
<1>3. /\ RuleCount > 1 /\ Finished = Rules
      /\ visited = Elements(path) \cup Elements(output)
      /\ Elements(path) \cap Elements(output) = {}
      /\ ~dropped => Remaining(deps, path, unread, tokens, Elements(output))
      /\ ~dropped /\ faults = 0 => Ordered(deps, output)
  BY DEF Sorted
<1>4. /\ r \in visited' => \A q \in Rules : q < next' => q \in visited'
      /\ visited \subseteq visited'
  <2>1. visited \subseteq visited'
    BY DEF SortEntry
  <2> QED
    BY <2>1 DEF Sorted
<1>5. Marked'
  BY <1>1 DEF Marked
<1>6. Answered'
  BY <1>1, <1>2 DEF Answered
<1>7. CASE r \in visited /\ tokens' = rest /\ UNCHANGED <<visited, path, unread, stale, output, faults>>
  <2>1. Typed'
    BY <1>1, <1>7 DEF Typed
  <2>2. /\ Reading(deps, path, rest, unread, stale)
        /\ r \in Elements(output) /\ ~dropped => Remaining(deps, path, unread, rest, Elements(output))
    BY <1>2, <1>3, ReadingSkips
  <2>3. Trail'
    BY <1>7, <2>2 DEF Trail
  <2>4. ~dropped => Remaining(deps, path, unread, rest, Elements(output))
    <3>1. CASE path = <<>>
      BY <3>1, EmptySeq DEF Remaining
    <3>2. CASE path # <<>> /\ ~dropped
      <4>1. r \notin Elements(path)
        BY <3>2, SortSetting, EnteredRule
      <4> QED
        BY <1>3, <1>7, <2>2, <4>1
    <3> QED
      BY <3>1, <3>2
  <2>5. Sorted'
    BY <1>1, <1>3, <1>4, <1>7, <2>4 DEF Sorted
  <2> QED
    BY <1>5, <1>6, <2>1, <2>3, <2>5
<1>8. CASE /\ r \notin visited
           /\ \/ deps[r] = <<>> /\ faults' = faults
              \/ deps[r] # <<>> /\ Fault
           /\ visited' = visited \cup {r} /\ output' = Append(output, r) /\ tokens' = rest
           /\ UNCHANGED <<path, unread, stale>>
  <2>1. /\ output' \in Seq(Rules) /\ Elements(output') = Elements(output) \cup {r} /\ Distinct(output')
        /\ DOMAIN output = 1 .. Len(output) /\ Len(output) \in Nat
        /\ DOMAIN output' = 1 .. Len(output) + 1 /\ output'[Len(output) + 1] = r
        /\ \A i \in 1 .. Len(output) : output'[i] = output[i]
    <3>1. r \notin Elements(output)
      BY <1>3, <1>8
    <3> QED
      BY <1>2, <1>8, <3>1, Appended, SeqFacts
  <2>2. faults' \in 0 .. MaxFaults /\ (faults' = 0 => faults = 0 /\ deps[r] = <<>>)
    BY <1>2, <1>8, DependencyAssumption DEF Fault
  <2>3. Typed'
    BY <1>1, <1>2, <1>8, <2>1, <2>2 DEF Typed
  <2>4. /\ Reading(deps, path, rest, unread, stale)
        /\ ~dropped => Remaining(deps, path, unread, rest, Elements(output'))
    <3>1. Reading(deps, path, rest, unread, stale)
      BY <1>2, ReadingSkips
    <3>2. ASSUME ~dropped PROVE Remaining(deps, path, unread, rest, Elements(output'))
      <4>1. /\ Remaining(deps, path, unread, tokens, Elements(output))
            /\ Elements(output) \subseteq Elements(output') /\ r \in Elements(output')
        BY <1>3, <2>1, <3>2
      <4> QED
        BY <1>2, <4>1, ReadingSkips
    <3> QED
      BY <3>1, <3>2
  <2>5. Trail'
    BY <1>8, <2>4 DEF Trail
  <2>6. ASSUME ~dropped, faults' = 0 PROVE Ordered(deps, output')
    <3> SUFFICES ASSUME NEW i \in 1 .. Len(output) + 1, NEW x \in Elements(deps[output'[i]])
                 PROVE  \E j \in 1 .. Len(output) + 1 : j < i /\ output'[j] = x
      BY <2>1 DEF Ordered
    <3>1. i # Len(output) + 1
      BY <2>1, <2>2, <2>6, NoElements
    <3>2. i \in 1 .. Len(output) /\ output'[i] = output[i]
      BY <2>1, <3>1
    <3>3. PICK j \in 1 .. Len(output) : j < i /\ output[j] = x
      BY <1>3, <2>1, <2>2, <2>6, <3>2, ZenonT(60) DEF Ordered
    <3>4. j \in 1 .. Len(output) + 1 /\ output'[j] = x
      BY <2>1, <3>3
    <3> QED
      BY <3>3, <3>4
  <2>7. r \notin Elements(path)
    BY <1>3, <1>8
  <2>8. Sorted'
    BY <1>1, <1>3, <1>4, <1>8, <2>1, <2>4, <2>6, <2>7 DEF Sorted
  <2> QED
    BY <1>5, <1>6, <2>3, <2>5, <2>8
<1>9. CASE /\ r \notin visited /\ visited' = visited \cup {r}
           /\ OpenList(r, rest) /\ UNCHANGED <<output, faults>>
  <2>1. Typed'
    BY <1>1, <1>2, <1>9 DEF Typed, OpenList
  <2> DEFINE kept == [i \in 1 .. Len(path) + 1 |->
                        IF i < Len(path) THEN unread[i]
                        ELSE IF i = Len(path) THEN rest ELSE <<>>]
  <2>2. r \notin Elements(path) /\ r \notin Elements(output)
    BY <1>3, <1>9
  <2>3. /\ Reading(deps, Append(path, r), deps[r], kept, FALSE)
        /\ ~dropped => Remaining(deps, Append(path, r), kept, deps[r], Elements(output))
    <3>1. /\ deps \in DependsOn /\ Reading(deps, path, tokens, unread, stale)
          /\ r \in DOMAIN deps /\ r \notin Elements(path)
      BY <1>2, <2>2
    <3>2. Reading(deps, Append(path, r), deps[r], kept, FALSE)
      BY <3>1, ReadingOpens
    <3>3. ASSUME ~dropped
          PROVE  Remaining(deps, Append(path, r), kept, deps[r], Elements(output))
      <4>1. Remaining(deps, path, unread, tokens, Elements(output))
        BY <1>3, <3>3
      <4> QED
        BY <3>1, <4>1, ReadingOpens
    <3> QED
      BY <3>2, <3>3
  <2>4. /\ path' = Append(path, r) /\ tokens' = deps[r] /\ unread' = kept
        /\ stale' = FALSE /\ deps' = deps
    BY <1>9 DEF OpenList
  <2> HIDE DEF kept
  <2>5. Trail'
    BY <2>3, <2>4 DEF Trail
  <2>6. Elements(path') = Elements(path) \cup {r}
    BY <1>2, <2>4, Appended DEF Reading
  <2>7. Sorted'
    BY <1>1, <1>3, <1>4, <1>9, <2>2, <2>3, <2>4, <2>6 DEF Sorted
  <2> QED
    BY <1>5, <1>6, <2>1, <2>5, <2>7
<1> QED
  BY <1>7, <1>8, <1>9 DEF SortEntry

LEMMA SortNextRuleStep ==
  ASSUME IInv, SortNextRule
  PROVE  IInv'
<1>1. next \in Rules /\ next \in Nat /\ next' = next + 1 /\ next' \in 1 .. RuleCount + 1
  BY Setting DEF SortNextRule, IInv
<1>2. \A q \in Rules : q < next' => q < next \/ q = next
  BY <1>1, Setting DEF IInv
<1>3. Enters(path, tokens, next, <<>>)
  BY DEF SortNextRule, Enters
<1> QED
  BY <1>1, <1>2, <1>3, SortEntryStep DEF SortNextRule

LEMMA SortNextNameStep ==
  ASSUME IInv, SortNextName
  PROVE  IInv'
<1>1. Enters(path, tokens, Head(tokens), Tail(tokens)) /\ path # <<>> /\ mode = "sort"
  BY DEF Enters, SortNextName
<1>2. /\ Top \in Rules /\ Head(tokens) \in Elements(deps[Top])
      /\ Head(tokens) \in Rules \cup {NoSuchRule}
  BY <1>1, EnteredRule, Setting DEF IInv, NamesOf
<1>3. next' = next /\ next' \in 1 .. RuleCount + 1
  BY DEF IInv, Typed, SortNextName
<1>4. CASE Head(tokens) = NoSuchRule
  <2>1. UNCHANGED <<deps, mode, next, color, visited, path, stale, unread, dropped, output,
                    order, result, faults>> /\ tokens' = Tail(tokens)
    BY <1>4 DEF SortNextName
  <2>2. Rules' = Rules /\ RuleCount' = RuleCount /\ Finished' = Finished
    BY <2>1 DEF Rules, RuleCount, Finished
  <2>3. deps \in DependsOn /\ Reading(deps, path, tokens, unread, stale)
    BY DEF IInv, Typed, Trail
  <2>4. Trail'
    BY <1>1, <2>1, <2>3, ReadingSkips DEF Trail
  <2>5. Typed' /\ Marked' /\ Answered'
    BY <1>1, <2>1, <2>2 DEF IInv, Typed, Marked, Answered
  <2>6. dropped
    BY <1>1, <1>2, <1>4, SortSetting, Setting DEF IInv
  <2>7. Sorted'
    BY <1>1, <2>1, <2>2, <2>6 DEF IInv, Sorted
  <2> QED
    BY <2>4, <2>5, <2>7 DEF IInv
<1>5. CASE Head(tokens) # NoSuchRule
  BY <1>1, <1>2, <1>3, <1>5, SortEntryStep DEF SortNextName
<1> QED
  BY <1>4, <1>5

LEMMA SortListEndsStep ==
  ASSUME IInv, SortListEnds
  PROVE  IInv'
<1> DEFINE top == path[Len(path)]
           n == Len(output)
<1>1. /\ mode = "sort" /\ result = "none" /\ path # <<>>
      /\ (stale \/ tokens = <<>>)
      /\ output' = Append(output, top) /\ CloseList
      /\ UNCHANGED <<deps, mode, next, color, visited, order, result, faults>>
  BY DEF SortListEnds, Running, Top
<1>2. Rules' = Rules /\ RuleCount' = RuleCount /\ Finished' = Finished
  BY <1>1 DEF Rules, RuleCount, Finished
<1>3. /\ deps \in DependsOn /\ Reading(deps, path, tokens, unread, stale) /\ Rules = DOMAIN deps
      /\ output \in Seq(Rules) /\ Distinct(output)
  BY DEF IInv, Typed, Trail, Rules
<1>4. /\ top \in Rules /\ Len(unread) = Len(path)
      /\ Reading(deps, Pop(path), <<>>, Pop(unread), TRUE)
      /\ Elements(path) = Elements(Pop(path)) \cup {top} /\ top \notin Elements(Pop(path))
      /\ \A done : Remaining(deps, path, unread, tokens, done) =>
           /\ \A more : done \subseteq more /\ top \in more =>
                Remaining(deps, Pop(path), Pop(unread), <<>>, more)
           /\ unread[Len(path)] = <<>> => Elements(deps[top]) \subseteq done
  <2>1. tokens = <<>>
    BY <1>1 DEF IInv, Trail, Reading
  <2> QED
    BY <1>1, <1>3, <2>1, ReadingCloses, ZenonT(60)
<1>5. /\ RuleCount > 1 /\ Finished = Rules
      /\ visited = Elements(path) \cup Elements(output)
      /\ Elements(path) \cap Elements(output) = {}
      /\ \A r \in Rules : r < next => r \in visited
      /\ ~dropped => Remaining(deps, path, unread, tokens, Elements(output))
      /\ ~dropped /\ faults = 0 => Ordered(deps, output)
  BY <1>1 DEF IInv, Sorted
<1> HIDE DEF top
<1>6. /\ output' \in Seq(Rules) /\ Elements(output') = Elements(output) \cup {top}
      /\ Distinct(output')
      /\ DOMAIN output = 1 .. n /\ n \in Nat
      /\ DOMAIN output' = 1 .. n + 1 /\ output'[n + 1] = top
      /\ \A i \in 1 .. n : output'[i] = output[i]
  <2>1. top \notin Elements(output)
    BY <1>4, <1>5
  <2> QED
    BY <1>1, <1>3, <1>4, <2>1, Appended, SeqFacts
<1> HIDE DEF n
<1>7. /\ path' = Pop(path) /\ tokens' = <<>> /\ stale' = TRUE /\ unread' = Pop(unread)
      /\ dropped' \in BOOLEAN
      /\ ~dropped' => ~dropped /\ unread[Len(path)] = <<>>
  BY <1>1, <1>4 DEF CloseList, IInv, Typed
<1>8. Typed'
  BY <1>1, <1>2, <1>6, <1>7 DEF IInv, Typed
<1>9. Trail'
  BY <1>1, <1>4, <1>7 DEF Trail
<1>10. Marked' /\ Answered'
  BY <1>1, <1>2, <1>7 DEF IInv, Marked, Answered
<1>11. ~dropped' => /\ Remaining(deps, path', unread', tokens', Elements(output'))
                    /\ Elements(deps[top]) \subseteq Elements(output)
  BY <1>4, <1>5, <1>6, <1>7
<1>12. ASSUME ~dropped', faults = 0 PROVE Ordered(deps, output')
  <2> SUFFICES ASSUME NEW i \in 1 .. n + 1, NEW x \in Elements(deps[output'[i]])
               PROVE  \E j \in 1 .. n + 1 : j < i /\ output'[j] = x
    BY <1>6 DEF Ordered
  <2>1. CASE i = n + 1
    <3>1. PICK j \in 1 .. n : output[j] = x
      BY <1>6, <1>11, <1>12, <2>1 DEF Elements
    <3>2. j \in 1 .. n + 1 /\ j < i /\ output'[j] = x
      BY <1>6, <2>1, <3>1
    <3> QED
      BY <3>2
  <2>2. CASE i # n + 1
    <3>1. i \in 1 .. n /\ output'[i] = output[i]
      BY <1>6, <2>2
    <3>2. PICK j \in 1 .. n : j < i /\ output[j] = x
      BY <1>5, <1>6, <1>7, <1>12, <3>1 DEF Ordered
    <3>3. j \in 1 .. n + 1 /\ output'[j] = x
      BY <1>6, <3>2
    <3> QED
      BY <3>2, <3>3
  <2> QED
    BY <2>1, <2>2
<1>13. Sorted'
  BY <1>1, <1>2, <1>4, <1>5, <1>6, <1>7, <1>11, <1>12 DEF Sorted
<1> QED
  BY <1>8, <1>9, <1>10, <1>13 DEF IInv

\* A list of rules without repetition holds at most as many as the set has, and
\* when it holds every rule it is as long as the set.
LEMMA DistinctLists ==
  ASSUME Typed, NEW s \in Seq(Rules), Distinct(s)
  PROVE  /\ Len(s) <= RuleCount
         /\ Elements(s) = Rules => Len(s) = RuleCount /\ s \in [Rules -> Rules]
<1> DEFINE places == 1 .. Len(s)
<1>1. Len(s) \in Nat /\ DOMAIN s = places /\ \A i \in places : s[i] \in Rules
  BY SeqFacts
<1>2. IsFiniteSet(places) /\ Cardinality(places) = Len(s)
  <2>1. 1 \in Int /\ Len(s) \in Int
    BY <1>1
  <2>2. /\ IsFiniteSet(places)
        /\ Cardinality(places) = IF 1 > Len(s) THEN 0 ELSE Len(s) - 1 + 1
    BY <2>1, FS_Interval
  <2> QED
    BY <1>1, <2>2
<1>3. s \in [places -> Rules]
  BY LenProperties
<1>4. s \in Injection(places, Rules)
  BY <1>1, <1>3 DEF Injection, IsInjective, Distinct
<1>5. Len(s) <= RuleCount
  <2>1. IsFiniteSet(Rules) /\ RuleCount = Cardinality(Rules)
    BY Setting DEF RuleCount
  <2> QED
    BY <1>2, <1>4, <2>1, FS_Injection
<1>6. ASSUME Elements(s) = Rules PROVE Len(s) = RuleCount /\ s \in [Rules -> Rules]
  <2>1. s \in Surjection(places, Rules)
    BY <1>1, <1>3, <1>6 DEF Surjection, Elements
  <2>2. s \in Bijection(places, Rules)
    BY <1>4, <2>1 DEF Bijection
  <2>3. Cardinality(places) = Cardinality(Rules)
    BY <1>2, <2>2, FS_Bijection DEF ExistsBijection
  <2>4. Len(s) = RuleCount
    BY <1>2, <2>3 DEF RuleCount
  <2> QED
    BY <1>3, <2>4, Setting
<1> QED
  BY <1>5, <1>6

LEMMA SortReturns ==
  ASSUME IInv, Relink
  PROVE  IInv'
<1>1. /\ mode = "sort" /\ path = <<>> /\ next = RuleCount + 1
      /\ order' = output /\ result' = "ok" /\ mode' = "done"
      /\ UNCHANGED <<deps, next, color, visited, path, tokens, stale, unread, dropped, output, faults>>
  BY DEF Relink
<1>2. Rules' = Rules /\ RuleCount' = RuleCount /\ Finished' = Finished
  BY <1>1 DEF Rules, RuleCount, Finished
<1>3. output \in Seq(Rules) /\ Distinct(output)
  BY DEF IInv, Typed
<1>4. Elements(output) = Rules
  <2>1. \A r \in Rules : r \in visited
    BY <1>1, Setting DEF IInv, Sorted
  <2> QED
    BY <1>1, <2>1, NoElements DEF IInv, Sorted, Typed
<1>5. order' \in [Rules -> Rules]
  BY <1>1, <1>3, <1>4, DistinctLists DEF IInv
<1>6. Typed'
  BY <1>1, <1>2, <1>5 DEF IInv, Typed
<1>7. Trail'
  BY <1>1 DEF IInv, Trail
<1>8. Marked' /\ Sorted'
  BY <1>1, <1>2 DEF IInv, Marked, Sorted
<1>9. Answered'
  <2>1. /\ RuleCount > 1 /\ RuleCount \in Nat
        /\ ~dropped /\ faults = 0 => Ordered(deps, output)
    BY <1>1, Setting DEF IInv, Sorted
  <2> QED
    BY <1>1, <1>2, <1>3, <1>4, <2>1 DEF Answered
<1> QED
  BY <1>6, <1>7, <1>8, <1>9 DEF IInv

LEMMA NothingToSortStep ==
  ASSUME IInv, NothingToSort
  PROVE  IInv'
<1>1. /\ RuleCount <= 1 /\ result' = "ok" /\ mode' = "done" /\ result = "none"
      /\ UNCHANGED <<deps, next, color, visited, path, tokens, stale, unread, dropped, output,
                     order, faults>>
  BY DEF NothingToSort, Running
<1>2. Rules' = Rules /\ RuleCount' = RuleCount /\ Finished' = Finished
  BY <1>1 DEF Rules, RuleCount, Finished
<1>3. Typed' /\ Trail' /\ Marked' /\ Sorted'
  BY <1>1, <1>2 DEF IInv, Typed, Trail, Marked, Sorted
<1>4. RuleCount \in Nat
  BY Setting DEF IInv
<1>5. Answered'
  BY <1>1, <1>2, <1>4 DEF IInv, Answered
<1> QED
  BY <1>3, <1>5 DEF IInv

LEMMA IInvInit ==
  ASSUME Init
  PROVE  IInv
<1>1. deps \in DependsOn
  BY DEF Init
<1>2. /\ RuleCount \in Nat /\ Rules = 1 .. RuleCount /\ Rules \subseteq Nat
  BY <1>1, SetFacts DEF RuleCount, Rules
<1>3. \A S : <<>> \in Seq(S) /\ Len(<<>>) = 0 /\ DOMAIN <<>> = {}
  BY EmptySeq
<1>4. Typed
  <2>1. color \in [Rules -> 0 .. 2] /\ order \in [Rules -> Rules]
    BY DEF Init
  <2>2. next \in 1 .. RuleCount + 1 /\ faults \in 0 .. MaxFaults
    BY <1>2, DependencyAssumption DEF Init
  <2>3. output \in Seq(Rules) /\ Distinct(output)
    BY <1>3, NoElements DEF Init
  <2> QED
    BY <1>1, <2>1, <2>2, <2>3 DEF Init, Typed
<1>5. Trail
  BY <1>3, NoElements DEF Init, Trail, Reading, Descends
<1>6. Finished = {}
  BY DEF Finished, Init
<1>7. Marked
  <2> DEFINE flat == [r \in Rules |-> 0]
  <2>1. flat \in [Rules -> Nat] /\ 0 \in Nat /\ \A r \in Rules : flat[r] <= 0
    OBVIOUS
  <2> HIDE DEF flat
  <2>2. \E rank \in [Rules -> Nat], k \in Nat :
                   /\ \A r \in Rules : rank[r] <= k
                   /\ \A r \in Finished : \A x \in Elements(deps[r]) : rank[x] < rank[r]
    BY <1>6, <2>1
  <2>3. Remaining(deps, path, unread, tokens, Finished)
    BY <1>3 DEF Init, Remaining
  <2>4. \A r \in Rules : color[r] = 0 /\ ~(r < next)
    BY <1>2 DEF Init
  <2>5. Elements(path) = {}
    BY NoElements DEF Init
  <2> QED
    BY <1>6, <2>2, <2>3, <2>4, <2>5 DEF Init, Marked
<1>8. Sorted /\ Answered
  BY DEF Init, Sorted, Answered
<1> QED
  BY <1>4, <1>5, <1>7, <1>8 DEF IInv

LEMMA Stutters ==
  ASSUME IInv, UNCHANGED vars
  PROVE  IInv'
<1>1. /\ Rules' = Rules /\ RuleCount' = RuleCount /\ Finished' = Finished
      /\ (Acyclic <=> Acyclic')
  BY DEF vars, Rules, RuleCount, Finished, Acyclic, Dependencies
<1>2. Typed' /\ Trail'
  BY <1>1 DEF vars, IInv, Typed, Trail
<1>3. Marked' /\ Sorted'
  BY <1>1 DEF vars, IInv, Marked, Sorted
<1>4. Answered'
  BY <1>1 DEF vars, IInv, Answered
<1> QED
  BY <1>2, <1>3, <1>4 DEF IInv

LEMMA IInvStep ==
  ASSUME IInv, [Next]_vars
  PROVE  IInv'
<1>1. CASE Validate
  BY <1>1, ValidateNextRuleStep, ValidateNextNameStep, ValidateListEndsStep, ValidateEndStep
     DEF Validate
<1>2. CASE Sort
  BY <1>2, SortNextRuleStep, SortNextNameStep, SortListEndsStep, SortReturns DEF Sort
<1>3. CASE NothingToSort
  BY <1>3, NothingToSortStep
<1>4. CASE Returned \/ UNCHANGED vars
  BY <1>4, Stutters DEF Returned
<1> QED
  BY <1>1, <1>2, <1>3, <1>4 DEF Next

\* What both searches and the relinking keep, on every rule set.
THEOREM Invariance == Spec => []IInv
<1>1. Init => IInv
  BY IInvInit
<1>2. IInv /\ [Next]_vars => IInv'
  BY IInvStep
<1> QED
  BY <1>1, <1>2, PTL DEF Spec

-----------------------------------------------------------------------------
(***************************************************************************)
(* The theorems.                                                           *)
(***************************************************************************)
\* The variables have their types; in particular sorted_arr, which has a place
\* for every rule of the set, is never written past its end.
THEOREM TypeCorrect == Spec => []TypeOK
<1>1. IInv => TypeOK
  <2> SUFFICES ASSUME IInv PROVE TypeOK
    OBVIOUS
  <2>1. Len(output) <= RuleCount
    BY DistinctLists DEF IInv, Typed
  <2> QED
    BY <2>1 DEF IInv, Typed, Trail, Reading, TypeOK, NamesOf, Rules
<1> QED
  BY <1>1, Invariance, PTL

\* A list that is read inside of another, or that was, makes the set a nested one:
\* only there can a name come out of a freed buffer.
Innermost ==
  /\ Len(path) > 1 => Nested
  /\ stale /\ path # <<>> => Nested
  /\ result = "missing" => Missing \/ Nested

LEMMA InnermostStep ==
  ASSUME IInv, Innermost, [Next]_vars
  PROVE  Innermost'
<1>1. /\ deps' = deps /\ (Missing <=> Missing') /\ (Nested <=> Nested')
  <2>1. deps' = deps
    BY DEF Next, Validate, Sort, ValidateNextRule, ValidateNextName, ValidateListEnds,
           ValidateGarbageName, ValidationPasses, NoArrays, SortNextRule, SortNextName,
           SortListEnds, Relink, NothingToSort, Returned, vars
  <2> QED
    BY <2>1 DEF Missing, Nested, Rules, Dependencies
<1>2. Len(path) \in Nat /\ path \in Seq(Rules) /\ (path = <<>> <=> Len(path) = 0)
  BY SeqFacts, EmptySeq DEF IInv, Trail, Reading, Rules
<1>3. ASSUME NEW r \in Rules, NEW rest, OpenList(r, rest),
             path # <<>> => tokens # <<>> /\ r = Head(tokens) /\ rest = Tail(tokens),
             deps[r] # <<>>, result' # "missing"
      PROVE  Innermost'
  <2>1. path = <<>> => Len(path') = 1
    BY <1>2, <1>3, Appended DEF OpenList
  <2>2. path # <<>> => Nested
    <3>1. SUFFICES ASSUME path # <<>> PROVE Nested
      OBVIOUS
    <3>2. Enters(path, tokens, r, rest)
      BY <1>3, <3>1 DEF Enters
    <3>3. Top \in Rules /\ r \in Dependencies(Top)
      BY <3>1, <3>2, EnteredRule, Setting DEF IInv
    <3> QED
      BY <1>3, <3>3 DEF Nested
  <2> QED
    BY <1>1, <1>3, <2>1, <2>2 DEF Innermost, OpenList
<1>4. ASSUME path' = path, stale' = stale, result' # "missing" \/ result' = result
      PROVE  Innermost'
  BY <1>1, <1>4 DEF Innermost
<1>5. ASSUME path # <<>>, CloseList, result' = result
      PROVE  Innermost'
  <2>1. Len(path') = Len(path) - 1
    BY <1>2, <1>5, Popped DEF CloseList
  <2>2. path' # <<>> => Len(path') # 0
    BY <1>2, <1>5, <2>1, Popped, EmptySeq DEF CloseList
  <2> QED
    BY <1>1, <1>2, <1>5, <2>1, <2>2 DEF Innermost
<1>6. ASSUME NEW r \in Rules, NEW rest, ValidateEntry(r, rest), Running,
             path # <<>> => tokens # <<>> /\ r = Head(tokens) /\ rest = Tail(tokens)
      PROVE  Innermost'
  BY <1>3, <1>4, <1>6 DEF ValidateEntry, Reject, Running
<1>7. ASSUME NEW r \in Rules, NEW rest, SortEntry(r, rest), result' = result, Running,
             path # <<>> => tokens # <<>> /\ r = Head(tokens) /\ rest = Tail(tokens)
      PROVE  Innermost'
  BY <1>3, <1>4, <1>7 DEF SortEntry, Running
<1>8. CASE ValidateNextRule
  BY <1>4, <1>6, <1>8 DEF ValidateNextRule, Running
<1>9. tokens # <<>> => Head(tokens) \in Rules \cup {NoSuchRule}
  BY Headed, Setting DEF IInv, Trail, Reading, NamesOf
<1>10. CASE ValidateNextName
  <2>1. CASE Head(tokens) = NoSuchRule
    <3>1. Enters(path, tokens, Head(tokens), Tail(tokens)) /\ path # <<>>
      BY <1>10 DEF Enters, ValidateNextName
    <3>2. Top \in Rules /\ Head(tokens) \in Dependencies(Top)
      BY <3>1, EnteredRule, Setting DEF IInv
    <3> QED
      BY <1>1, <1>10, <2>1, <3>2 DEF ValidateNextName, Innermost, Missing
  <2> QED
    BY <1>6, <1>9, <1>10, <2>1 DEF ValidateNextName
<1>11. CASE ValidateListEnds \/ SortListEnds
  BY <1>5, <1>11 DEF ValidateListEnds, SortListEnds
<1>12. CASE ValidateGarbageName
  BY <1>1, <1>12 DEF ValidateGarbageName, Innermost
<1>13. CASE ValidationPasses \/ NoArrays \/ Relink \/ NothingToSort \/ Returned \/ UNCHANGED vars
  BY <1>4, <1>13 DEF ValidationPasses, NoArrays, Relink, NothingToSort, Returned, vars, Reject
<1>14. CASE SortNextRule
  BY <1>7, <1>14 DEF SortNextRule, Running
<1>15. CASE SortNextName
  BY <1>4, <1>7, <1>9, <1>15 DEF SortNextName, Running
<1> QED
  BY <1>8, <1>10, <1>11, <1>12, <1>13, <1>14, <1>15 DEF Next, Validate, Sort

\* topo_sort refuses no set for a cycle it does not have, and none for a missing
\* rule unless it has one, or has lists inside of lists.
THEOREM TrueRefusals == Spec => []RefusalsAreTrue
<1>1. Init => Innermost
  BY EmptySeq DEF Init, Innermost
<1>2. IInv /\ Innermost /\ [Next]_vars => Innermost'
  BY InnermostStep
<1>3. IInv /\ Innermost => RefusalsAreTrue
  BY DEF IInv, Answered, RefusalsAreTrue, Innermost
<1> QED
  BY <1>1, <1>2, <1>3, Invariance, PTL DEF Spec

\* The list the set is relinked to holds every rule exactly once.
THEOREM KeptEntries == Spec => []EntriesAreKept
<1>1. IInv => EntriesAreKept
  <2> SUFFICES ASSUME IInv PROVE EntriesAreKept
    OBVIOUS
  <2>1. /\ RuleCount \in Nat /\ Rules = 1 .. RuleCount /\ order \in [Rules -> Rules]
    BY Setting DEF IInv, Typed
  <2>2. order \in Seq(Rules) /\ Len(order) = RuleCount
    BY <2>1, IsSequence
  <2>3. result \in {"none", "ok", "cycle", "missing", "oom"}
    BY DEF IInv, Typed
  <2>4. CASE result # "ok" \/ RuleCount <= 1
    BY <2>1, <2>2, <2>4 DEF IInv, Answered, EntriesAreKept
  <2>5. CASE result = "ok" /\ RuleCount > 1
    BY <2>1, <2>2, <2>5 DEF IInv, Answered, Distinct, EntriesAreKept
  <2> QED
    BY <2>1, <2>4, <2>5
<1> QED
  BY <1>1, Invariance, PTL

\* A set whose lists were read to their ends is accepted only if it can be
\* ordered, and then every rule comes after the rules it depends on.
THEOREM SortedWhenRead == Spec => []FullyReadSetIsSorted
<1>1. IInv => FullyReadSetIsSorted
  <2> SUFFICES ASSUME IInv, result = "ok", RuleCount > 1, ~dropped, faults = 0
               PROVE  ~Missing /\ Acyclic /\ InDependencyOrder(order)
    BY DEF FullyReadSetIsSorted
  <2>1. /\ order \in Seq(Rules) /\ Distinct(order) /\ Elements(order) = Rules
        /\ Ordered(deps, order)
    BY DEF IInv, Answered
  <2>2. /\ DOMAIN order = Rules /\ \A i \in Rules : order[i] \in Rules
    BY DEF IInv, Typed
  <2>3. /\ NoSuchRule \notin Rules /\ \A r \in Rules : Dependencies(r) = Elements(deps[r])
    BY Setting DEF IInv
  <2>4. \A i \in Rules : \A x \in Dependencies(order[i]) :
          \E j \in Rules : j < i /\ order[j] = x
    BY <2>1, <2>2, <2>3 DEF Ordered
  <2>5. \A r \in Rules : \E i \in Rules : order[i] = r
    BY <2>1, <2>2 DEF Elements
  <2>6. \A i, j \in Rules : order[i] = order[j] => i = j
    BY <2>1, <2>2 DEF Distinct
  <2>7. ~Missing
    BY <2>2, <2>3, <2>4, <2>5 DEF Missing
  <2>8. InDependencyOrder(order)
    BY <2>2, <2>4, <2>6 DEF InDependencyOrder
  <2>9. Acyclic
    <3> DEFINE rank == [r \in Rules |-> CHOOSE i \in Rules : order[i] = r]
    <3>1. rank \in [Rules -> Rules] /\ \A r \in Rules : order[rank[r]] = r
      BY <2>5
    <3> HIDE DEF rank
    <3>2. ASSUME NEW r \in Rules, NEW x \in Dependencies(r) \cap Rules PROVE rank[x] < rank[r]
      <4>1. PICK j \in Rules : j < rank[r] /\ order[j] = x
        BY <2>4, <3>1, <3>2
      <4>2. j = rank[x]
        BY <2>6, <3>1, <4>1
      <4> QED
        BY <4>1, <4>2
    <3> QED
      BY <3>1, <3>2 DEF Acyclic
  <2> QED
    BY <2>7, <2>8, <2>9
<1> QED
  BY <1>1, Invariance, PTL

\* The recursion never enters a rule twice, on cyclic sets too.
THEOREM SimpleRecursion == Spec => []RecursionIsSimple
<1>1. IInv => RecursionIsSimple
  BY DEF IInv, Trail, Reading, Distinct, RecursionIsSimple
<1> QED
  BY <1>1, Invariance, PTL

-----------------------------------------------------------------------------
(***************************************************************************)
(* Termination: each step of a search makes it smaller.                    *)
(***************************************************************************)
\* The rules the search has not come to, and what it has to do before it comes
\* to the next one or leaves a list.
Unseen == {r \in Rules : IF mode = "validate" THEN color[r] = 0 ELSE r \notin visited}
Work == (RuleCount + 1 - next) + Len(tokens)

Descent ==
  \/ mode = "validate" /\ mode' \in {"sort", "done"}
  \/ mode = "sort" /\ mode' = "done"
  \/ /\ mode' = mode /\ deps' = deps /\ Unseen' \subseteq Unseen
     /\ \/ Unseen' # Unseen
        \/ Len(path') < Len(path)
        \/ Len(path') = Len(path) /\ Work' < Work

LEMMA EntryDescends ==
  ASSUME IInv, NEW r \in Rules, NEW rest \in Seq(NamesOf(deps)), mode = "validate",
         ValidateEntry(r, rest), deps' = deps
  PROVE  \/ mode' = "done"
         \/ /\ mode' = mode /\ Unseen' \subseteq Unseen /\ Unseen' # Unseen
         \/ /\ mode' = mode /\ Unseen' = Unseen /\ color[r] = 2 /\ path' = path
            /\ tokens' = rest
<1>1. color \in [Rules -> 0 .. 2] /\ Rules' = Rules
  BY DEF IInv, Typed, Rules
<1>2. CASE color[r] = 1
  BY <1>2 DEF ValidateEntry, Reject
<1>3. CASE color[r] = 2
  <2>1. color' = [color EXCEPT ![r] = 2] /\ tokens' = rest /\ path' = path /\ mode' = mode
    BY <1>3 DEF ValidateEntry
  <2> QED
    BY <2>1, <1>1, <1>3 DEF Unseen
<1>4. CASE color[r] = 0
  <2>1. \/ mode' = "done"
        \/ mode' = mode /\ \E c \in {1, 2} : color' = [color EXCEPT ![r] = c]
    BY <1>4 DEF ValidateEntry, Reject
  <2> QED
    BY <2>1, <1>1, <1>4 DEF Unseen
<1> QED
  BY <1>1, <1>2, <1>3, <1>4

LEMMA SortEntryDescends ==
  ASSUME IInv, NEW r \in Rules, NEW rest, mode = "sort",
         SortEntry(r, rest), deps' = deps, mode' = mode
  PROVE  \/ Unseen' \subseteq Unseen /\ Unseen' # Unseen
         \/ Unseen' = Unseen /\ path' = path /\ tokens' = rest
<1>1. CASE r \in visited
  BY <1>1 DEF SortEntry, Unseen, Rules
<1>2. CASE r \notin visited
  BY <1>2 DEF SortEntry, Unseen, Rules
<1> QED
  BY <1>1, <1>2

\* Every step of the call passes to its next phase, comes to a rule it had not come
\* to, leaves a list, or reads a name or a rule further: on cyclic sets too, with
\* strtok's position lost or not, there is no infinite sequence of steps.
THEOREM StepsDescend == Spec => [][Descent]_vars
<1>1. IInv /\ [Next]_vars => [Descent]_vars
  <2> SUFFICES ASSUME IInv, Next, ~UNCHANGED vars PROVE Descent
    OBVIOUS
  <2>0. /\ mode \in {"validate", "sort", "done"} /\ next \in 1 .. RuleCount + 1
        /\ RuleCount \in Nat /\ color \in [Rules -> 0 .. 2]
        /\ path \in Seq(Rules) /\ Len(path) \in Nat
        /\ tokens \in Seq(NamesOf(deps)) /\ Len(tokens) \in Nat
    <3>1. path \in Seq(Rules) /\ tokens \in Seq(NamesOf(deps))
      BY DEF IInv, Trail, Reading, Rules
    <3>2. deps \in DependsOn /\ RuleCount \in Nat
      BY DependencyAssumption, FS_CardinalityType DEF IInv, Typed, RuleCount, Rules
    <3> QED
      BY <3>1, <3>2, LenProperties DEF IInv, Typed
  <2>1. tokens # <<>> => /\ Head(tokens) \in NamesOf(deps) /\ Tail(tokens) \in Seq(NamesOf(deps))
                         /\ Len(Tail(tokens)) = Len(tokens) - 1
    BY <2>0, HeadTailProperties
  <2>2. path # <<>> => Len(Pop(path)) = Len(path) - 1
    BY <2>0, Popped, Zenon
  <2>3. CASE ValidateNextRule
    <3>1. /\ mode = "validate" /\ next \in Rules /\ next' = next + 1 /\ deps' = deps
          /\ RuleCount' = RuleCount
      BY <2>3 DEF ValidateNextRule, RuleCount, Rules
    <3>2. CASE color[next] = 0
      <4>1. ValidateEntry(next, <<>>) /\ <<>> \in Seq(NamesOf(deps))
        BY <2>3, <3>2 DEF ValidateNextRule
      <4>2. \/ mode' = "done"
            \/ mode' = mode /\ Unseen' \subseteq Unseen /\ Unseen' # Unseen
            \/ mode' = mode /\ Unseen' = Unseen /\ color[next] = 2
        BY <3>1, <4>1, EntryDescends
      <4> QED
        BY <3>1, <3>2, <4>2 DEF Descent
    <3>3. CASE color[next] # 0
      <4>1. UNCHANGED <<color, path, tokens, mode>>
        BY <2>3, <3>3 DEF ValidateNextRule
      <4>2. Work' < Work /\ Unseen' = Unseen
        BY <2>0, <3>1, <4>1 DEF Work, Unseen, Rules
      <4> QED
        BY <3>1, <4>1, <4>2 DEF Descent
    <3> QED
      BY <3>2, <3>3
  <2>4. CASE ValidateNextName
    <3>1. /\ mode = "validate" /\ deps' = deps /\ next' = next /\ RuleCount' = RuleCount
          /\ tokens # <<>>
      BY <2>4 DEF ValidateNextName, RuleCount, Rules
    <3>2. CASE Head(tokens) = NoSuchRule
      BY <2>4, <3>1, <3>2 DEF ValidateNextName, Reject, Descent
    <3>3. CASE Head(tokens) # NoSuchRule
      <4>1. ValidateEntry(Head(tokens), Tail(tokens)) /\ Head(tokens) \in Rules
        BY <2>1, <2>4, <3>1, <3>3 DEF ValidateNextName, NamesOf, Rules
      <4>2. tokens' = Tail(tokens) => Work' < Work
        BY <2>0, <2>1, <3>1 DEF Work
      <4> QED
        BY <2>1, <3>1, <4>1, <4>2, EntryDescends DEF Descent
    <3> QED
      BY <3>2, <3>3
  <2>5. CASE ValidateListEnds
    <3>1. /\ mode = "validate" /\ mode' = mode /\ deps' = deps /\ path # <<>>
          /\ path' = Pop(path) /\ color' = [color EXCEPT ![Top] = 2]
      BY <2>5 DEF ValidateListEnds, CloseList
    <3>2. Unseen' \subseteq Unseen
      BY <2>0, <3>1 DEF Unseen, Rules
    <3> QED
      BY <2>0, <2>2, <3>1, <3>2 DEF Descent
  <2>6. CASE ValidateGarbageName \/ ValidationPasses \/ NoArrays \/ NothingToSort \/ Relink
    BY <2>6 DEF ValidateGarbageName, ValidationPasses, NoArrays, NothingToSort, Relink,
                Reject, Descent
  <2>7. CASE SortNextRule
    <3>1. /\ mode = "sort" /\ mode' = mode /\ next \in Rules /\ next' = next + 1 /\ deps' = deps
          /\ RuleCount' = RuleCount /\ SortEntry(next, <<>>)
      BY <2>7 DEF SortNextRule, RuleCount, Rules
    <3>2. tokens' = <<>> => Work' < Work
      BY <2>0, <3>1 DEF Work
    <3> QED
      BY <3>1, <3>2, SortEntryDescends DEF Descent
  <2>8. CASE SortNextName
    <3>1. /\ mode = "sort" /\ mode' = mode /\ next' = next /\ deps' = deps
          /\ RuleCount' = RuleCount /\ tokens # <<>>
      BY <2>8 DEF SortNextName, RuleCount, Rules
    <3>2. tokens' = Tail(tokens) => Work' < Work
      BY <2>0, <2>1, <3>1 DEF Work
    <3>3. CASE Head(tokens) = NoSuchRule
      <4>1. tokens' = Tail(tokens) /\ visited' = visited /\ path' = path
        BY <2>8, <3>3 DEF SortNextName
      <4>2. Unseen' = Unseen
        BY <3>1, <4>1 DEF Unseen, Rules
      <4> QED
        BY <3>1, <3>2, <4>1, <4>2 DEF Descent
    <3>4. CASE Head(tokens) # NoSuchRule
      <4>1. SortEntry(Head(tokens), Tail(tokens)) /\ Head(tokens) \in Rules
        BY <2>1, <2>8, <3>1, <3>4 DEF SortNextName, NamesOf, Rules
      <4> QED
        BY <3>1, <3>2, <4>1, SortEntryDescends DEF Descent
    <3> QED
      BY <3>3, <3>4
  <2>9. CASE SortListEnds
    <3>1. /\ mode = "sort" /\ mode' = mode /\ deps' = deps /\ path # <<>>
          /\ path' = Pop(path) /\ visited' = visited
      BY <2>9 DEF SortListEnds, CloseList
    <3>2. Unseen' = Unseen
      BY <3>1 DEF Unseen, Rules
    <3> QED
      BY <2>0, <2>2, <3>1, <3>2 DEF Descent
  <2> QED
    BY <2>3, <2>4, <2>5, <2>6, <2>7, <2>8, <2>9 DEF Next, Validate, Sort, Returned
<1> QED
  BY <1>1, Invariance, PTL DEF Spec
=============================================================================
