-------------------------- MODULE ExpressionProofs --------------------------
(***************************************************************************)
(* Proofs about Bytecode and Verification, which take expressions apart:   *)
(* for any rules, expressions, functions, limits, contexts and schemas.    *)
(*                                                                         *)
(* The code of a rule is sound: a depth is assigned to every instruction,  *)
(* which bounds the stack before it is executed, such that each            *)
(* instruction leads from its depth to that of the next one, each jump     *)
(* leads forward to an instruction of no lower depth, and what is called   *)
(* comes right after the number of its arguments (Fits).  That code is put *)
(* together of parts that fit is shown for each construct (CodeFits,       *)
(* ActionFits, CaseFits, MetricFits, RuleFits), along the heights of       *)
(* expressions; that the machine stays on such code for each instruction   *)
(* (Onward).                                                               *)
(*                                                                         *)
(* The types of the verification are sound: an expression that resolves    *)
(* without errors has the type it was resolved to, and all within it       *)
(* (Soundness, along the heights again), and a rule in which no error is   *)
(* found consists of such expressions (VerifiedRules).                     *)
(***************************************************************************)
EXTENDS Bytecode, Verification, SequenceTheorems, FiniteSetTheorems, WellFoundedInduction, TLAPS

\* A nonempty set of natural numbers has a smallest member.
LEMMA SmallestNumber ==
  ASSUME NEW T, T \subseteq Nat, T # {}
  PROVE  \E x \in T : \A y \in T : x <= y
<1>1. PICK x \in T : \A y \in T : <<y, x>> \notin OpToRel(<, Nat)
  BY WFMin, NatLessThanWellFounded, Zenon
<1>2. \A y \in T : ~(y < x)
  BY <1>1, Zenon DEF OpToRel
<1> QED
  BY <1>2

\* What holds of 0 and passes from each number to the next holds of all numbers.
LEMMA Counting ==
  ASSUME NEW S, 0 \in S, \A n \in Nat : n \in S => n + 1 \in S
  PROVE  Nat \subseteq S
<1> SUFFICES ASSUME Nat \ S # {} PROVE FALSE
  OBVIOUS
<1>1. PICK n \in Nat \ S : \A m \in Nat \ S : n <= m
  BY SmallestNumber
<1>2. n # 0 /\ n - 1 \in Nat
  BY <1>1
<1>3. n - 1 \in S
  BY <1>1, <1>2
<1> QED
  BY <1>1, <1>2, <1>3

\* What holds at 0 and passes from each place to the next holds at all places up to n.
LEMMA Upwards ==
  ASSUME NEW n \in Nat, NEW S, 0 \in S, \A i \in 1 .. n : i - 1 \in S => i \in S
  PROVE  \A i \in 0 .. n : i \in S
<1> DEFINE T == {i \in Nat : i <= n => i \in S}
<1>1. 0 \in T
  OBVIOUS
<1>2. ASSUME NEW i \in Nat, i \in T, i + 1 <= n PROVE i + 1 \in S
  <2> DEFINE j == i + 1
  <2>1. j \in 1 .. n /\ j - 1 = i /\ i \in S
    BY <1>2
  <2>2. j \in S
    <3> HIDE DEF j
    <3> QED
      BY <2>1
  <2> QED
    BY <2>2
<1>3. \A i \in Nat : i \in T => i + 1 \in T
  BY <1>2
<1>4. Nat \subseteq T
  <2> HIDE DEF T
  <2> QED
    BY <1>1, <1>3, Counting
<1> QED
  BY <1>4

\* The height of a tree is a number.
LEMMA Heights == \A e \in Exprs : Height[e] \in Nat
  BY ExprsAssumption

\* The parts of an expression are lower expressions.
LEMMA PartsAreExprs ==
  ASSUME NEW e \in Exprs
  PROVE  /\ PartsOf(e) \subseteq Exprs
         /\ \A d \in PartsOf(e) : Height[d] \in Nat /\ Height[d] < Height[e]
<1>1. IsExpr(e)
  BY ExprsAssumption
<1>2. PartsOf(e) \subseteq Exprs
  <2>1. CASE e.kind = "array"
    <3>1. e.items \in Seq(Exprs) /\ PartsOf(e) = ToSet(e.items)
      BY <1>1, <2>1 DEF IsExpr, PartsOf
    <3> QED
      BY <3>1 DEF ToSet
  <2>2. CASE e.kind = "call"
    <3>1. e.args \in Seq(Exprs) /\ PartsOf(e) = ToSet(e.args)
      BY <1>1, <2>2 DEF IsExpr, PartsOf
    <3> QED
      BY <3>1 DEF ToSet
  <2>3. CASE e.kind \notin {"array", "call"}
    BY <1>1, <2>3 DEF IsExpr, PartsOf
  <2> QED
    BY <2>1, <2>2, <2>3
<1> QED
  BY <1>2, ExprsAssumption

\* Induction over expressions.
LEMMA Structural ==
  ASSUME NEW S, \A e \in Exprs : PartsOf(e) \subseteq S => e \in S
  PROVE  Exprs \subseteq S
<1> SUFFICES ASSUME Exprs \ S # {} PROVE FALSE
  OBVIOUS
<1> DEFINE T == {Height[e] : e \in Exprs \ S}
<1>1. T \subseteq Nat /\ T # {}
  BY ExprsAssumption
<1>2. PICK n \in T : \A m \in T : n <= m
  BY <1>1, SmallestNumber
<1>3. PICK e \in Exprs \ S : n = Height[e]
  BY <1>2
<1>4. PartsOf(e) \subseteq S
  <2>1. \A d \in PartsOf(e) : d \in Exprs /\ Height[d] < n /\ Height[d] \in Nat /\ n \in Nat
    BY <1>1, <1>2, <1>3, PartsAreExprs
  <2> QED
    BY <1>2, <2>1
<1> QED
  BY <1>3, <1>4

\* The value G gives to an expression rests on those of its parts only.
RestsOnParts(G, V) ==
  /\ V # {}
  /\ \A f \in [Exprs -> V] : G[f] \in [Exprs -> V]
  /\ \A f \in [Exprs -> V] : \A g \in [Exprs -> V] : \A e \in Exprs :
       (\A d \in PartsOf(e) : f[d] = g[d]) => G[f][e] = G[g][e]

\* A function may be defined by recursion over expressions.
LEMMA Recursion ==
  ASSUME NEW V, NEW G, RestsOnParts(G, V)
  PROVE  \E f \in [Exprs -> V] : f = G[f]
<1> SUFFICES ASSUME V # {},
                    \A f \in [Exprs -> V] : G[f] \in [Exprs -> V],
                    \A f \in [Exprs -> V] : \A g \in [Exprs -> V] : \A e \in Exprs :
                      (\A d \in PartsOf(e) : f[d] = g[d]) => G[f][e] = G[g][e]
             PROVE  \E f \in [Exprs -> V] : f = G[f]
  BY DEF RestsOnParts
<1> DEFINE Lower(n) == {e \in Exprs : Height[e] < n}
           Solves(f, n) == \A e \in Lower(n) : f[e] = G[f][e]
           S == {n \in Nat : \E f \in [Exprs -> V] : Solves(f, n)}
<1>1. 0 \in S
  <2>1. PICK v : v \in V
    OBVIOUS
  <2>2. [e \in Exprs |-> v] \in [Exprs -> V] /\ Lower(0) = {}
    BY <2>1, Heights
  <2> QED
    BY <2>2
<1>2. ASSUME NEW n \in Nat, n \in S PROVE n + 1 \in S
  <2>1. PICK f \in [Exprs -> V] : Solves(f, n)
    BY <1>2
  <2> DEFINE g == G[f]
  <2>2. g \in [Exprs -> V]
    OBVIOUS
  <2>3. ASSUME NEW e \in Lower(n + 1) PROVE g[e] = G[g][e]
    <3>1. e \in Exprs /\ \A d \in PartsOf(e) : d \in Lower(n)
      BY <2>3, PartsAreExprs, Heights
    <3>2. \A d \in PartsOf(e) : f[d] = g[d]
      BY <2>1, <3>1
    <3>3. G[f][e] = G[g][e]
      BY <2>2, <3>1, <3>2
    <3> QED
      BY <3>1, <3>3
  <2> HIDE DEF g
  <2> QED
    BY <2>2, <2>3
<1>3. Nat \subseteq S
  <2> HIDE DEF S
  <2> QED
    BY <1>1, <1>2, Counting
<1> DEFINE F == [n \in Nat |-> CHOOSE f \in [Exprs -> V] : Solves(f, n)]
<1>4. \A n \in Nat : F[n] \in [Exprs -> V] /\ Solves(F[n], n)
  <2> SUFFICES ASSUME NEW n \in Nat PROVE F[n] \in [Exprs -> V] /\ Solves(F[n], n)
    OBVIOUS
  <2>1. \E f \in [Exprs -> V] : Solves(f, n)
    BY <1>3
  <2> HIDE DEF Solves
  <2> QED
    BY <2>1
<1> HIDE DEF F
<1> DEFINE Same == {e \in Exprs : \A m, n \in Nat : Height[e] < m /\ Height[e] < n => F[m][e] = F[n][e]}
<1>5. Exprs \subseteq Same
  <2>1. ASSUME NEW e \in Exprs, PartsOf(e) \subseteq Same,
               NEW m \in Nat, NEW n \in Nat, Height[e] < m, Height[e] < n
        PROVE  F[m][e] = F[n][e]
    <3>1. F[m][e] = G[F[m]][e] /\ F[n][e] = G[F[n]][e]
      BY <1>4, <2>1
    <3>2. \A d \in PartsOf(e) : F[m][d] = F[n][d]
      <4> SUFFICES ASSUME NEW d \in PartsOf(e) PROVE F[m][d] = F[n][d]
        OBVIOUS
      <4>1. Height[d] < m /\ Height[d] < n
        BY <2>1, PartsAreExprs, Heights
      <4> QED
        BY <2>1, <4>1
    <3>3. G[F[m]][e] = G[F[n]][e]
      BY <1>4, <3>2
    <3> QED
      BY <3>1, <3>3
  <2>2. \A e \in Exprs : PartsOf(e) \subseteq Same => e \in Same
    BY <2>1
  <2> HIDE DEF Same
  <2> QED
    BY <2>2, Structural
<1> DEFINE h == [e \in Exprs |-> F[Height[e] + 1][e]]
<1>6. h \in [Exprs -> V]
  BY <1>4, Heights
<1>7. ASSUME NEW e \in Exprs PROVE h[e] = G[h][e]
  <2> DEFINE n == Height[e] + 1
  <2>1. n \in Nat /\ Height[e] < n
    BY Heights
  <2>2. F[n][e] = G[F[n]][e]
    BY <1>4, <2>1
  <2>3. \A d \in PartsOf(e) : h[d] = F[n][d]
    <3> SUFFICES ASSUME NEW d \in PartsOf(e) PROVE h[d] = F[n][d]
      OBVIOUS
    <3>1. /\ d \in Exprs /\ Height[d] \in Nat /\ Height[d] + 1 \in Nat
          /\ Height[d] < Height[d] + 1 /\ Height[d] < n
      BY <2>1, PartsAreExprs, Heights
    <3>2. F[Height[d] + 1][d] = F[n][d]
      BY <1>5, <2>1, <3>1
    <3> QED
      BY <3>1, <3>2
  <2>4. G[h][e] = G[F[n]][e]
    <3> HIDE DEF h, n
    <3> QED
      BY <1>4, <1>6, <2>1, <2>3
  <2> QED
    BY <2>2, <2>4
<1> QED
  <2> HIDE DEF h
  <2>1. G[h] \in [Exprs -> V]
    BY <1>6
  <2>2. h = G[h]
    BY <1>6, <1>7, <2>1
  <2> QED
    BY <1>6, <2>2

PlainFrom(f, e) ==
  CASE e.kind = "unary" -> f[e.arg]
    [] e.kind = "binary" -> f[e.left] /\ f[e.right]
    [] e.kind = "call" ->
         \A i \in DOMAIN e.args : f[e.args[i]] /\ (i = 1 \/ StackUsed[e.args[i]] = 1)
    [] e.kind = "array" ->
         /\ Len(e.items) <= 2
         /\ \A i \in DOMAIN e.items :
              f[e.items[i]] /\ (i = 1 \/ StackUsed[e.items[i]] = 1)
    [] OTHER -> TRUE

\* Which parts an expression of each kind has.
LEMMA PartsOfKinds ==
  ASSUME NEW e \in Exprs
  PROVE  /\ e.kind = "unary" => e.arg \in PartsOf(e)
         /\ e.kind = "binary" => e.left \in PartsOf(e) /\ e.right \in PartsOf(e)
         /\ e.kind = "call" => /\ e.args \in Seq(Exprs)
                               /\ \A i \in DOMAIN e.args : e.args[i] \in PartsOf(e)
         /\ e.kind = "array" => /\ e.items \in Seq(Exprs)
                                /\ \A i \in DOMAIN e.items : e.items[i] \in PartsOf(e)
<1>1. IsExpr(e)
  BY ExprsAssumption
<1>2. CASE e.kind = "call"
  <2>1. e.args \in Seq(Exprs) /\ PartsOf(e) = ToSet(e.args)
    BY <1>1, <1>2 DEF IsExpr, PartsOf
  <2> QED
    BY <1>2, <2>1 DEF ToSet
<1>3. CASE e.kind = "array"
  <2>1. e.items \in Seq(Exprs) /\ PartsOf(e) = ToSet(e.items)
    BY <1>1, <1>3 DEF IsExpr, PartsOf
  <2> QED
    BY <1>3, <2>1 DEF ToSet
<1>4. CASE e.kind \notin {"call", "array"}
  BY <1>4 DEF PartsOf
<1> QED
  BY <1>2, <1>3, <1>4

\* Plain is what its definition says: the recursion has a solution.
LEMMA PlainUnfolds == \A e \in Exprs : Plain[e] = PlainFrom(Plain, e)
<1> DEFINE G == [f \in [Exprs -> BOOLEAN] |-> [e \in Exprs |-> PlainFrom(f, e)]]
<1>1. \A f \in [Exprs -> BOOLEAN] : G[f] \in [Exprs -> BOOLEAN]
  <2> SUFFICES ASSUME NEW f \in [Exprs -> BOOLEAN], NEW e \in Exprs PROVE PlainFrom(f, e) \in BOOLEAN
    OBVIOUS
  <2>1. \A d \in PartsOf(e) : f[d] \in BOOLEAN
    BY PartsAreExprs
  <2> QED
    BY <2>1, PartsOfKinds DEF PlainFrom
<1>2. ASSUME NEW f \in [Exprs -> BOOLEAN], NEW g \in [Exprs -> BOOLEAN], NEW e \in Exprs,
             \A d \in PartsOf(e) : f[d] = g[d]
      PROVE  G[f][e] = G[g][e]
  <2>1. PlainFrom(f, e) <=> PlainFrom(g, e)
    BY <1>2, PartsOfKinds DEF PlainFrom
  <2>2. PlainFrom(f, e) \in BOOLEAN /\ PlainFrom(g, e) \in BOOLEAN
    BY <1>1
  <2> QED
    BY <2>1, <2>2
<1>3. \E f \in [Exprs -> BOOLEAN] : f = G[f]
  <2>1. \A f \in [Exprs -> BOOLEAN] : \A g \in [Exprs -> BOOLEAN] : \A e \in Exprs :
          (\A d \in PartsOf(e) : f[d] = g[d]) => G[f][e] = G[g][e]
    BY <1>2
  <2> HIDE DEF G
  <2>2. RestsOnParts(G, BOOLEAN)
    BY <1>1, <2>1 DEF RestsOnParts
  <2> QED
    BY <2>2, Recursion
<1>4. \E f : f = [e \in Exprs |-> PlainFrom(f, e)]
  BY <1>3
<1>5. Plain = [e \in Exprs |-> PlainFrom(Plain, e)]
  BY <1>4 DEF Plain, PlainFrom
<1> QED
  BY <1>5

\* Max of a finite set of numbers is its greatest member.
LEMMA Greatest ==
  ASSUME NEW S, S \subseteq Nat, S # {}, NEW k \in Nat, \A s \in S : s <= k
  PROVE  Max(S) \in S /\ Max(S) \in Nat /\ \A s \in S : s <= Max(S)
<1> DEFINE T == {n \in Nat : \A s \in S : s <= n}
<1>1. PICK n \in T : \A m \in T : n <= m
  <2>1. T \subseteq Nat /\ T # {}
    OBVIOUS
  <2> HIDE DEF T
  <2> QED
    BY <2>1, SmallestNumber
<1>2. n \in S
  <2> SUFFICES ASSUME n \notin S PROVE FALSE
    OBVIOUS
  <2>1. \A s \in S : s \in Nat /\ s < n
    BY <1>1
  <2>2. n - 1 \in Nat /\ \A s \in S : s <= n - 1
    <3>1. PICK s \in S : TRUE
      OBVIOUS
    <3>2. s \in Nat /\ s < n /\ n \in Nat
      BY <1>1, <2>1
    <3> QED
      BY <1>1, <2>1, <3>2
  <2> QED
    BY <1>1, <2>2
<1>3. n \in S /\ \A s \in S : n >= s
  BY <1>1, <1>2
<1>4. Max(S) \in S /\ \A s \in S : Max(S) >= s
  BY <1>3 DEF Max
<1> QED
  BY <1>4

\* The numbers that a function takes on 1 .. n have a bound.
LEMMA Bounded ==
  ASSUME NEW n \in Nat, NEW m \in [1 .. n -> Nat]
  PROVE  \E k \in Nat : \A i \in 1 .. n : m[i] <= k
<1> DEFINE S == {j \in Nat : \E k \in Nat : \A i \in 1 .. n : i <= j => m[i] <= k}
<1>1. 0 \in S
  OBVIOUS
<1>2. ASSUME NEW j \in Nat, j \in S PROVE j + 1 \in S
  <2>1. PICK k \in Nat : \A i \in 1 .. n : i <= j => m[i] <= k
    BY <1>2
  <2>2. CASE j + 1 \in 1 .. n
    <3>1. PICK l \in Nat : l >= k /\ l >= m[j + 1]
      BY <2>2
    <3>2. \A i \in 1 .. n : i <= j + 1 => m[i] <= l
      BY <2>1, <3>1
    <3> QED
      BY <3>2
  <2>3. CASE j + 1 \notin 1 .. n
    BY <2>1, <2>3
  <2> QED
    BY <2>2, <2>3
<1>3. n \in S
  <2> HIDE DEF S
  <2> QED
    BY <1>1, <1>2, Counting
<1> QED
  BY <1>3

\* The numbers f gives for the places of a sequence, and one more.
LEMMA GreatestAt ==
  ASSUME NEW n \in Nat, NEW m \in [1 .. n -> Nat], NEW x \in Nat
  PROVE  LET S == {m[i] : i \in 1 .. n} \cup {x} IN
         Max(S) \in Nat /\ x <= Max(S) /\ \A i \in 1 .. n : m[i] <= Max(S)
<1> DEFINE S == {m[i] : i \in 1 .. n} \cup {x}
<1>1. PICK k \in Nat : \A i \in 1 .. n : m[i] <= k
  BY Bounded
<1>2. PICK l \in Nat : k <= l /\ x <= l
  OBVIOUS
<1>3. S \subseteq Nat /\ S # {} /\ \A s \in S : s <= l
  BY <1>1, <1>2
<1>4. Max(S) \in Nat /\ \A s \in S : s <= Max(S)
  <2> HIDE DEF S
  <2> QED
    BY <1>3, Greatest
<1> QED
  BY <1>4

\* A value carried along.
LEMMA Chain ==
  ASSUME NEW V, NEW v \in V, NEW n \in Nat, NEW H \in [1 .. n -> [V -> V]]
  PROVE  \E F \in [0 .. n -> V] : F[0] = v /\ \A i \in 1 .. n : F[i] = H[i][F[i - 1]]
<1> DEFINE Reaches(F, k) == F[0] = v /\ \A i \in 1 .. k : F[i] = H[i][F[i - 1]]
           S == {k \in Nat : k <= n => \E F \in [0 .. n -> V] : Reaches(F, k)}
<1>1. 0 \in S
  <2>1. [i \in 0 .. n |-> v] \in [0 .. n -> V] /\ Reaches([i \in 0 .. n |-> v], 0)
    OBVIOUS
  <2> QED
    BY <2>1
<1>2. ASSUME NEW k \in Nat, k \in S PROVE k + 1 \in S
  <2> SUFFICES ASSUME k + 1 <= n PROVE \E F \in [0 .. n -> V] : Reaches(F, k + 1)
    OBVIOUS
  <2>1. PICK F \in [0 .. n -> V] : Reaches(F, k)
    BY <1>2
  <2> DEFINE E == [F EXCEPT ![k + 1] = H[k + 1][F[k]]]
  <2>2. E \in [0 .. n -> V]
    <3>1. F[k] \in V /\ k + 1 \in 1 .. n
      OBVIOUS
    <3>2. H[k + 1][F[k]] \in V
      BY <3>1
    <3> QED
      BY <3>2
  <2>3. E[0] = v /\ E[k + 1] = H[k + 1][F[k]] /\ \A i \in 0 .. k : E[i] = F[i]
    BY <2>1
  <2>4. ASSUME NEW i \in 1 .. k + 1 PROVE E[i] = H[i][E[i - 1]]
    <3> HIDE DEF E
    <3>1. CASE i = k + 1
      BY <2>3, <3>1
    <3>2. CASE i # k + 1
      <4>1. i \in 1 .. k /\ i \in 0 .. k /\ i - 1 \in 0 .. k
        BY <3>2
      <4> QED
        BY <2>1, <2>3, <4>1
    <3> QED
      BY <3>1, <3>2
  <2> HIDE DEF E
  <2>5. Reaches(E, k + 1)
    BY <2>3, <2>4
  <2> QED
    BY <2>2, <2>5
<1>3. n \in S
  <2> HIDE DEF S
  <2> QED
    BY <1>1, <1>2, Counting
<1> QED
  BY <1>3

Chains(V) ==
  \A a \in V, n \in Nat : \A K \in [1 .. n -> [V -> V]] :
    \E F \in [0 .. n -> V] : F[0] = a /\ \A i \in 1 .. n : F[i] = K[i][F[i - 1]]

\* Chain for every set of values, to be cited with a set at hand.
LEMMA ChainOf == \A V : Chains(V)
  BY Chain DEF Chains

\* FlattenSeq puts one sequence after the other.
LEMMA Flattened ==
  ASSUME NEW T, NEW q \in Seq(Seq(T))
  PROVE  \E F \in [0 .. Len(q) -> Seq(T)] :
           /\ F[0] = <<>>
           /\ \A i \in 1 .. Len(q) : F[i] = F[i - 1] \o q[i]
           /\ FlattenSeq(q) = F[Len(q)]
<1> DEFINE n == Len(q)
           H == [i \in 1 .. n |-> [s \in Seq(T) |-> s \o q[i]]]
<1>1. n \in Nat /\ \A i \in 1 .. n : q[i] \in Seq(T)
  BY LenProperties
<1>2. <<>> \in Seq(T) /\ \A i \in 1 .. n : H[i] \in [Seq(T) -> Seq(T)]
  BY <1>1, ConcatProperties
<1>3. PICK F \in [0 .. n -> Seq(T)] : F[0] = <<>> /\ \A i \in 1 .. n : F[i] = H[i][F[i - 1]]
  <2>1. \A W : Chains(W)
    BY ChainOf
  <2> DEFINE V == Seq(T)
             v == <<>>
  <2>2. v \in V /\ H \in [1 .. n -> [V -> V]]
    BY <1>2
  <2>3. \E f \in [0 .. n -> V] : f[0] = v /\ \A i \in 1 .. n : f[i] = H[i][f[i - 1]]
    <3> HIDE DEF H, n, V, v
    <3>1. \A a \in V, m \in Nat : \A K \in [1 .. m -> [V -> V]] :
            \E f \in [0 .. m -> V] : f[0] = a /\ \A i \in 1 .. m : f[i] = K[i][f[i - 1]]
      <4>1. Chains(V)
        BY <2>1
      <4> QED
        BY <4>1 DEF Chains
    <3>2. \A K \in [1 .. n -> [V -> V]] :
            \E f \in [0 .. n -> V] : f[0] = v /\ \A i \in 1 .. n : f[i] = K[i][f[i - 1]]
      BY <1>1, <2>2, <3>1
    <3> QED
      BY <2>2, <3>2
  <2> QED
    BY <2>3
<1>4. \A i \in 1 .. n : F[i] = F[i - 1] \o q[i]
  <2> SUFFICES ASSUME NEW i \in 1 .. n PROVE F[i] = F[i - 1] \o q[i]
    OBVIOUS
  <2>1. F[i - 1] \in Seq(T)
    <3> HIDE DEF n
    <3> QED
      BY <1>1
  <2>2. H[i] = [s \in Seq(T) |-> s \o q[i]]
    OBVIOUS
  <2>3. F[i] = H[i][F[i - 1]]
    BY <1>3
  <2> QED
    BY <2>1, <2>2, <2>3
<1> HIDE DEF H
<1>5. CASE n = 0
  BY <1>3, <1>5, EmptySeq DEF FlattenSeq
<1>6. CASE n # 0
  <2> DEFINE Step(f) == [i \in 1 .. n |-> IF i = 1 THEN q[i] ELSE f[i - 1] \o q[i]]
             h == [i \in 1 .. n |-> F[i]]
             g == CHOOSE f : f = Step(f)
  <2>1. h = Step(h)
    <3>1. ASSUME NEW i \in 1 .. n PROVE h[i] = IF i = 1 THEN q[i] ELSE h[i - 1] \o q[i]
      <4> HIDE DEF n
      <4>1. CASE i = 1
        <5>1. F[i] = F[0] \o q[i] /\ q[i] \in Seq(T)
          <6>1. i - 1 = 0
            BY <4>1
          <6> QED
            BY <1>1, <1>4, <6>1
        <5>2. F[i] = q[i]
          BY <1>3, <5>1, ConcatEmptySeq
        <5> QED
          BY <4>1, <5>2
      <4>2. CASE i # 1
        <5>1. i - 1 \in 1 .. n
          BY <1>1, <4>2
        <5> QED
          BY <1>1, <1>4, <4>2, <5>1
      <4> QED
        BY <4>1, <4>2
    <3> QED
      BY <3>1
  <2>2. g = Step(g)
    <3> HIDE DEF h
    <3>1. \E f : f = Step(f)
      BY <2>1
    <3> QED
      BY <3>1
  <2>3. FlattenSeq(q) = g[n]
    BY <1>6 DEF FlattenSeq
  <2> HIDE DEF g, n, h
  <2> DEFINE S == {i \in Nat : i \in 1 .. n => g[i] = F[i]}
  <2>4. 0 \in S
    OBVIOUS
  <2>5. ASSUME NEW i \in 1 .. n, i - 1 \in S PROVE i \in S
    <3>1. g[i] = IF i = 1 THEN q[i] ELSE g[i - 1] \o q[i]
      BY <2>2
    <3>2. F[i] = F[i - 1] \o q[i] /\ q[i] \in Seq(T)
      BY <1>1, <1>4
    <3>3. CASE i = 1
      <4>1. i - 1 = 0
        BY <3>3
      <4>2. F[i] = q[i]
        BY <1>3, <3>2, <4>1, ConcatEmptySeq
      <4> QED
        BY <1>1, <3>1, <3>3, <4>2
    <3>4. CASE i # 1
      <4>1. g[i - 1] = F[i - 1]
        BY <1>1, <2>5, <3>4
      <4>2. g[i] = g[i - 1] \o q[i]
        BY <3>1, <3>4
      <4>3. g[i] = F[i]
        BY <3>2, <4>1, <4>2, Zenon
      <4> QED
        BY <4>3
    <3> QED
      BY <3>3, <3>4
  <2>6. n \in S
    <3> HIDE DEF S
    <3>1. \A i \in 0 .. n : i \in S
      BY <1>1, <2>4, <2>5, Upwards
    <3> QED
      BY <1>1, <3>1
  <2>7. FlattenSeq(q) = F[n]
    BY <1>1, <1>6, <2>3, <2>6
  <2> QED
    BY <1>3, <1>4, <2>7 DEF n
<1> QED
  BY <1>5, <1>6

StackUsedFrom(f, e) ==
  IF Fold[e].status = "OK" THEN 1
  ELSE CASE e.kind \in {"literal", "id"} -> 1
    [] e.kind = "array" -> 1 + Max({f[e.items[i]] : i \in DOMAIN e.items} \cup {0})
    [] e.kind = "unary" -> f[e.arg]
    [] e.kind = "binary" -> Max({f[e.left], f[e.right] + 1})
    [] e.kind = "call" ->
         Max({f[e.args[i]] : i \in DOMAIN e.args} \cup {Len(e.args) + 1})

\* The greater of two numbers.
LEMMA Greater ==
  ASSUME NEW a \in Nat, NEW b \in Nat
  PROVE  Max({a, b}) \in Nat /\ a <= Max({a, b}) /\ b <= Max({a, b})
<1>1. PICK k \in Nat : a <= k /\ b <= k
  OBVIOUS
<1> DEFINE S == {a, b}
<1>2. S \subseteq Nat /\ S # {} /\ \A s \in S : s <= k
  BY <1>1
<1>3. Max(S) \in Nat /\ \A s \in S : s <= Max(S)
  <2> HIDE DEF S
  <2> QED
    BY <1>1, <1>2, Greatest
<1> QED
  BY <1>3

\* The greatest of the numbers a function gives for the places of a sequence and
\* of one more.
MostOf(f, s, x) == Max({f[s[i]] : i \in DOMAIN s} \cup {x})

LEMMA GreatestOf ==
  ASSUME NEW s \in Seq(Exprs), NEW f, \A i \in DOMAIN s : f[s[i]] \in Nat, NEW x \in Nat
  PROVE  /\ MostOf(f, s, x) \in Nat /\ x <= MostOf(f, s, x)
         /\ \A i \in DOMAIN s : f[s[i]] <= MostOf(f, s, x)
<1> DEFINE n == Len(s)
           m == [i \in 1 .. n |-> f[s[i]]]
<1>1. n \in Nat /\ DOMAIN s = 1 .. n /\ m \in [1 .. n -> Nat]
  BY LenProperties
<1>2. {m[i] : i \in 1 .. n} = {f[s[i]] : i \in DOMAIN s}
  BY <1>1
<1>3. LET S == {m[i] : i \in 1 .. n} \cup {x} IN
      Max(S) \in Nat /\ x <= Max(S) /\ \A i \in 1 .. n : m[i] <= Max(S)
  <2> HIDE DEF m, n
  <2> QED
    BY <1>1, GreatestAt
<1> QED
  BY <1>1, <1>2, <1>3 DEF MostOf

\* StackUsed is what its definition says, and a number.
LEMMA StackUsedUnfolds ==
  /\ \A e \in Exprs : StackUsed[e] = StackUsedFrom(StackUsed, e)
  /\ StackUsed \in [Exprs -> Nat]
<1> DEFINE G == [f \in [Exprs -> Nat] |-> [e \in Exprs |-> StackUsedFrom(f, e)]]
<1>1. ASSUME NEW f, NEW e \in Exprs, \A d \in PartsOf(e) : f[d] \in Nat
      PROVE  StackUsedFrom(f, e) \in Nat
  <2>1. \A d \in PartsOf(e) : f[d] \in Nat
    BY <1>1
  <2>2. CASE e.kind = "array"
    <3>1. e.items \in Seq(Exprs) /\ \A i \in DOMAIN e.items : f[e.items[i]] \in Nat
      BY <2>1, <2>2, PartsOfKinds
    <3>2. MostOf(f, e.items, 0) \in Nat
      BY <3>1, GreatestOf
    <3> QED
      BY <2>2, <3>2 DEF StackUsedFrom, MostOf
  <2>3. CASE e.kind = "call"
    <3>1. e.args \in Seq(Exprs) /\ \A i \in DOMAIN e.args : f[e.args[i]] \in Nat
      BY <2>1, <2>3, PartsOfKinds
    <3>2. Len(e.args) + 1 \in Nat
      BY <3>1, LenProperties
    <3>3. MostOf(f, e.args, Len(e.args) + 1) \in Nat
      BY <3>1, <3>2, GreatestOf
    <3> QED
      BY <2>3, <3>3 DEF StackUsedFrom, MostOf
  <2>4. CASE e.kind = "binary"
    <3>1. f[e.left] \in Nat /\ f[e.right] + 1 \in Nat
      BY <2>1, <2>4, PartsOfKinds
    <3>2. Max({f[e.left], f[e.right] + 1}) \in Nat
      BY <3>1, Greater
    <3> QED
      BY <2>4, <3>2 DEF StackUsedFrom
  <2>5. CASE e.kind \in {"unary", "id", "literal"}
    BY <2>1, <2>5, PartsOfKinds DEF StackUsedFrom
  <2> QED
    BY <2>2, <2>3, <2>4, <2>5, ExprsAssumption DEF IsExpr
<1>2. ASSUME NEW f \in [Exprs -> Nat], NEW g \in [Exprs -> Nat], NEW e \in Exprs,
             \A d \in PartsOf(e) : f[d] = g[d]
      PROVE  G[f][e] = G[g][e]
  <2>1. CASE e.kind = "array"
    <3>1. {f[e.items[i]] : i \in DOMAIN e.items} = {g[e.items[i]] : i \in DOMAIN e.items}
      BY <1>2, <2>1, PartsOfKinds
    <3>2. StackUsedFrom(f, e) = StackUsedFrom(g, e)
      BY <2>1, <3>1 DEF StackUsedFrom
    <3> QED
      BY <3>2
  <2>2. CASE e.kind = "call"
    <3>1. {f[e.args[i]] : i \in DOMAIN e.args} = {g[e.args[i]] : i \in DOMAIN e.args}
      BY <1>2, <2>2, PartsOfKinds
    <3>2. StackUsedFrom(f, e) = StackUsedFrom(g, e)
      BY <2>2, <3>1 DEF StackUsedFrom
    <3> QED
      BY <3>2
  <2>3. CASE e.kind \notin {"array", "call"}
    <3>1. StackUsedFrom(f, e) = StackUsedFrom(g, e)
      BY <1>2, <2>3, PartsOfKinds, ExprsAssumption DEF StackUsedFrom, IsExpr
    <3> QED
      BY <3>1
  <2> QED
    BY <2>1, <2>2, <2>3
<1>3. \E f \in [Exprs -> Nat] : f = G[f]
  <2>1. \A f \in [Exprs -> Nat] : \A g \in [Exprs -> Nat] : \A e \in Exprs :
          (\A d \in PartsOf(e) : f[d] = g[d]) => G[f][e] = G[g][e]
    BY <1>2
  <2>2. \A f \in [Exprs -> Nat] : G[f] \in [Exprs -> Nat]
    BY <1>1, PartsAreExprs
  <2> HIDE DEF G
  <2>3. Nat # {}
    OBVIOUS
  <2>4. RestsOnParts(G, Nat)
    BY <2>1, <2>2, <2>3 DEF RestsOnParts
  <2> QED
    BY <2>4, Recursion
<1>4. \E f : f = [e \in Exprs |-> StackUsedFrom(f, e)]
  BY <1>3
<1>5. StackUsed = [e \in Exprs |-> StackUsedFrom(StackUsed, e)]
  BY <1>4 DEF StackUsed, StackUsedFrom
<1> QED
  <2>1. \A e \in Exprs : StackUsed[e] = StackUsedFrom(StackUsed, e)
    BY <1>5
  <2> DEFINE S == {e \in Exprs : StackUsed[e] \in Nat}
  <2>2. ASSUME NEW e \in Exprs, PartsOf(e) \subseteq S PROVE e \in S
    <3>1. StackUsedFrom(StackUsed, e) \in Nat
      BY <1>1, <2>2
    <3> QED
      BY <2>1, <3>1
  <2>3. Exprs \subseteq S
    <3> HIDE DEF S
    <3> QED
      BY <2>2, Structural
  <2> QED
    BY <1>5, <2>1, <2>3

(***************************************************************************)
(* The instructions that are compiled.                                     *)
(***************************************************************************)
Pushed == {Fold[e].value : e \in Exprs} \cup {e.value : e \in Exprs}
            \cup {Number(n) : n \in Int} \cup {Bool(TRUE)}
ActionsOfRules == UNION {ActionsOf(r) : r \in Rules}
Reasons == {a.args[2].value.data : a \in ActionsOfRules}

Straight ==
  {Push(v) : v \in Pushed} \cup {PushVar(e.name) : e \in Exprs}
    \cup {PushArray(n) : n \in Nat} \cup {Operate(e.op) : e \in Exprs}
    \cup {CallOp(e.name) : e \in Exprs} \cup {ActionOp(a.name) : a \in ActionsOfRules}
    \cup {FailMetric(s) : s \in Reasons} \cup {MetricStart(i) : i \in Nat}
    \cup {Inst(op) : op \in {"POP", "SET_SCORE", "RET", "RULE_END"}}
Jumps == {Jump(k) : k \in Nat \ {0}} \cup {JumpIf(b, k) : b \in BOOLEAN, k \in Nat \ {0}}
Insts == Straight \cup Jumps

\* Every jump that is compiled has a positive offset.
LEMMA JumpsLeadForward ==
  \A x \in Insts : x.op \in {"JMP", "JMP_IF_TRUE", "JMP_IF_FALSE"} => x.offset \in Nat \ {0}
<1>1. \A x \in Jumps : x.offset \in Nat \ {0}
  BY DEF Jumps, Jump, JumpIf
<1>2. \A x \in Straight : x.op \notin {"JMP", "JMP_IF_TRUE", "JMP_IF_FALSE"}
  BY DEF Straight, Push, PushVar, PushArray, Operate, CallOp, ActionOp, FailMetric,
         MetricStart, Inst
<1> QED
  BY <1>1, <1>2 DEF Insts

\* Whatever the compiler makes an instruction of, it is one of Insts.
LEMMA InstsAreInsts ==
  /\ \A e \in Exprs : /\ Push(Fold[e].value) \in Insts /\ Push(e.value) \in Insts
                      /\ PushVar(e.name) \in Insts /\ Operate(e.op) \in Insts
                      /\ CallOp(e.name) \in Insts
  /\ \A n \in Int : Push(Number(n)) \in Insts
  /\ \A n \in Nat : PushArray(n) \in Insts /\ MetricStart(n) \in Insts
  /\ \A a \in ActionsOfRules : ActionOp(a.name) \in Insts
  /\ \A a \in ActionsOfRules : FailMetric(a.args[2].value.data) \in Insts
  /\ \A k \in Nat \ {0} : Jump(k) \in Insts /\ \A b \in BOOLEAN : JumpIf(b, k) \in Insts
  /\ {Push(Bool(TRUE)), PopTop, Inst("SET_SCORE"), Inst("RET"), Inst("RULE_END")} \subseteq Insts
<1>1. /\ \A e \in Exprs : Fold[e].value \in Pushed /\ e.value \in Pushed
      /\ \A n \in Int : Number(n) \in Pushed
      /\ Bool(TRUE) \in Pushed
  BY DEF Pushed
<1>2. \A v \in Pushed : Push(v) \in Straight
  BY DEF Straight
<1>3. \A e \in Exprs : /\ PushVar(e.name) \in Straight /\ Operate(e.op) \in Straight
                       /\ CallOp(e.name) \in Straight
  BY DEF Straight
<1>4. \A n \in Nat : PushArray(n) \in Straight /\ MetricStart(n) \in Straight
  BY DEF Straight
<1>5. \A a \in ActionsOfRules : ActionOp(a.name) \in Straight
  BY DEF Straight
<1>6. \A a \in ActionsOfRules : FailMetric(a.args[2].value.data) \in Straight
  BY DEF Straight, Reasons
<1>7. {PopTop, Inst("SET_SCORE"), Inst("RET"), Inst("RULE_END")} \subseteq Straight
  BY DEF Straight, PopTop
<1>8. \A k \in Nat \ {0} : Jump(k) \in Jumps /\ \A b \in BOOLEAN : JumpIf(b, k) \in Jumps
  BY DEF Jumps
<1> HIDE DEF Straight
<1> QED
  BY <1>1, <1>2, <1>3, <1>4, <1>5, <1>6, <1>7, <1>8 DEF Insts

\* Pieces of code put together are code.
LEMMA FlattenIn ==
  ASSUME NEW T, NEW q \in Seq(Seq(T))
  PROVE  FlattenSeq(q) \in Seq(T)
<1>1. PICK F \in [0 .. Len(q) -> Seq(T)] : FlattenSeq(q) = F[Len(q)]
  BY Flattened
<1>2. Len(q) \in 0 .. Len(q)
  BY LenProperties
<1> QED
  BY <1>1, <1>2

\* The sequences a function gives for the places of a sequence, one after the other.
LEMMA FlattenOf ==
  ASSUME NEW s, NEW U, s \in Seq(U), NEW T, NEW h, \A i \in DOMAIN s : h[s[i]] \in Seq(T)
  PROVE  FlattenSeq([i \in DOMAIN s |-> h[s[i]]]) \in Seq(T)
<1> DEFINE q == [i \in DOMAIN s |-> h[s[i]]]
           W == Seq(T)
<1>1. DOMAIN s = 1 .. Len(s) /\ Len(s) \in Nat
  BY LenProperties
<1>2. q \in Seq(W)
  <2> HIDE DEF W
  <2>1. q \in [1 .. Len(s) -> W]
    BY <1>1 DEF W
  <2> HIDE DEF q
  <2> QED
    BY <1>1, <2>1, IsASeq
<1>3. q \in Seq(Seq(T))
  BY <1>2
<1> HIDE DEF q, W
<1>4. FlattenSeq(q) \in Seq(T)
  BY <1>3, FlattenIn, Zenon
<1> QED
  BY <1>4 DEF q

CodeFrom(f, e) ==
  IF Fold[e].status = "OK" THEN <<Push(Fold[e].value)>>
  ELSE CASE e.kind = "literal" -> <<Push(e.value)>>
    [] e.kind = "id" -> <<PushVar(e.name)>>
    [] e.kind = "array" ->
         Append(FlattenSeq([i \in DOMAIN e.items |-> f[e.items[i]]]),
                PushArray(Len(e.items)))
    [] e.kind = "unary" -> Append(f[e.arg], Operate(e.op))
    [] e.kind = "binary" /\ e.op \in Logical ->
         ShortCircuit(e.op, f[e.left], f[e.right])
    [] e.kind = "binary" /\ e.op \notin Logical ->
         f[e.left] \o f[e.right] \o <<Operate(e.op)>>
    [] e.kind = "call" ->
         FlattenSeq([i \in DOMAIN e.args |-> f[e.args[i]]])
           \o <<Push(Number(Len(e.args))), CallOp(e.name)>>

\* Two values in a sequence.
LEMMA Pairs ==
  ASSUME NEW T, NEW x \in T, NEW y \in T
  PROVE  <<x>> \in Seq(T) /\ <<x, y>> \in Seq(T)
  OBVIOUS

\* Code is what its definition says, and consists of instructions.
LEMMA CodeUnfolds ==
  /\ \A e \in Exprs : Code[e] = CodeFrom(Code, e)
  /\ \A e \in Exprs : Code[e] \in Seq(Insts)
<1> DEFINE V == Seq(Insts)
           G == [f \in [Exprs -> V] |-> [e \in Exprs |-> CodeFrom(f, e)]]
<1>1. ASSUME NEW f, NEW e \in Exprs, \A d \in PartsOf(e) : f[d] \in Seq(Insts)
      PROVE  CodeFrom(f, e) \in Seq(Insts)
  <2>1. CASE Fold[e].status = "OK"
    BY <2>1, InstsAreInsts, Pairs DEF CodeFrom
  <2>2. CASE e.kind = "array" /\ Fold[e].status # "OK"
    <3>1. e.items \in Seq(Exprs) /\ \A i \in DOMAIN e.items : f[e.items[i]] \in Seq(Insts)
      BY <1>1, <2>2, PartsOfKinds
    <3>2. FlattenSeq([i \in DOMAIN e.items |-> f[e.items[i]]]) \in Seq(Insts)
      BY <3>1, FlattenOf
    <3>3. PushArray(Len(e.items)) \in Insts
      BY <3>1, LenProperties, InstsAreInsts
    <3> QED
      BY <2>2, <3>2, <3>3, AppendProperties DEF CodeFrom
  <2>3. CASE e.kind = "call" /\ Fold[e].status # "OK"
    <3>1. e.args \in Seq(Exprs) /\ \A i \in DOMAIN e.args : f[e.args[i]] \in Seq(Insts)
      BY <1>1, <2>3, PartsOfKinds
    <3>2. FlattenSeq([i \in DOMAIN e.args |-> f[e.args[i]]]) \in Seq(Insts)
      BY <3>1, FlattenOf
    <3>3. Push(Number(Len(e.args))) \in Insts /\ CallOp(e.name) \in Insts
      BY <3>1, LenProperties, InstsAreInsts
    <3>4. <<Push(Number(Len(e.args))), CallOp(e.name)>> \in Seq(Insts)
      BY <3>3, Pairs
    <3> QED
      BY <2>3, <3>2, <3>4, ConcatProperties DEF CodeFrom
  <2>4. CASE e.kind = "unary" /\ Fold[e].status # "OK"
    <3>1. f[e.arg] \in Seq(Insts) /\ Operate(e.op) \in Insts
      BY <1>1, <2>4, PartsOfKinds, InstsAreInsts
    <3> QED
      BY <2>4, <3>1, AppendProperties DEF CodeFrom
  <2>5. CASE e.kind = "binary" /\ Fold[e].status # "OK"
    <3>1. f[e.left] \in Seq(Insts) /\ f[e.right] \in Seq(Insts)
      BY <1>1, <2>5, PartsOfKinds
    <3>2. CASE e.op \in Logical
      <4>1. Len(f[e.right]) + 2 \in Nat \ {0}
        BY <3>1, LenProperties
      <4>2. JumpIf(e.op = "OR", Len(f[e.right]) + 2) \in Insts /\ PopTop \in Insts
        BY <4>1, InstsAreInsts
      <4>3. <<JumpIf(e.op = "OR", Len(f[e.right]) + 2), PopTop>> \in Seq(Insts)
        BY <4>2, Pairs
      <4>4. ShortCircuit(e.op, f[e.left], f[e.right]) \in Seq(Insts)
        BY <3>1, <4>3, ConcatProperties DEF ShortCircuit
      <4> QED
        BY <2>5, <3>2, <4>4 DEF CodeFrom
    <3>3. CASE e.op \notin Logical
      <4>1. <<Operate(e.op)>> \in Seq(Insts)
        BY InstsAreInsts, Pairs
      <4>2. f[e.left] \o f[e.right] \o <<Operate(e.op)>> \in Seq(Insts)
        BY <3>1, <4>1, ConcatProperties
      <4> QED
        BY <2>5, <3>3, <4>2 DEF CodeFrom
    <3> QED
      BY <3>2, <3>3
  <2>6. CASE e.kind \in {"literal", "id"} /\ Fold[e].status # "OK"
    BY <2>6, InstsAreInsts, Pairs DEF CodeFrom
  <2> QED
    BY <2>1, <2>2, <2>3, <2>4, <2>5, <2>6, ExprsAssumption DEF IsExpr
<1>2. ASSUME NEW f \in [Exprs -> V], NEW g \in [Exprs -> V], NEW e \in Exprs,
             \A d \in PartsOf(e) : f[d] = g[d]
      PROVE  G[f][e] = G[g][e]
  <2> HIDE DEF V
  <2>1. CASE e.kind = "array"
    <3>1. [i \in DOMAIN e.items |-> f[e.items[i]]] = [i \in DOMAIN e.items |-> g[e.items[i]]]
      BY <1>2, <2>1, PartsOfKinds
    <3>2. CodeFrom(f, e) = CodeFrom(g, e)
      BY <2>1, <3>1 DEF CodeFrom
    <3> QED
      BY <3>2
  <2>2. CASE e.kind = "call"
    <3>1. [i \in DOMAIN e.args |-> f[e.args[i]]] = [i \in DOMAIN e.args |-> g[e.args[i]]]
      BY <1>2, <2>2, PartsOfKinds
    <3>2. CodeFrom(f, e) = CodeFrom(g, e)
      BY <2>2, <3>1 DEF CodeFrom
    <3> QED
      BY <3>2
  <2>3. CASE e.kind \notin {"array", "call"}
    <3>1. CodeFrom(f, e) = CodeFrom(g, e)
      BY <1>2, <2>3, PartsOfKinds, ExprsAssumption DEF CodeFrom, IsExpr
    <3> QED
      BY <3>1
  <2> QED
    BY <2>1, <2>2, <2>3
<1>3. \E f \in [Exprs -> V] : f = G[f]
  <2>1. \A f \in [Exprs -> V] : \A g \in [Exprs -> V] : \A e \in Exprs :
          (\A d \in PartsOf(e) : f[d] = g[d]) => G[f][e] = G[g][e]
    BY <1>2
  <2>2. \A f \in [Exprs -> V] : G[f] \in [Exprs -> V]
    BY <1>1, PartsAreExprs
  <2>3. V # {}
    BY EmptySeq
  <2> HIDE DEF G, V
  <2>4. RestsOnParts(G, V)
    BY <2>1, <2>2, <2>3 DEF RestsOnParts
  <2> QED
    BY <2>4, Recursion
<1>4. \E f : f = [e \in Exprs |-> CodeFrom(f, e)]
  BY <1>3
<1>5. Code = [e \in Exprs |-> CodeFrom(Code, e)]
  BY <1>4 DEF Code, CodeFrom
<1>6. \A e \in Exprs : Code[e] = CodeFrom(Code, e)
  BY <1>5
<1> DEFINE S == {e \in Exprs : Code[e] \in Seq(Insts)}
<1>7. ASSUME NEW e \in Exprs, PartsOf(e) \subseteq S PROVE e \in S
  <2>1. CodeFrom(Code, e) \in Seq(Insts)
    BY <1>1, <1>7
  <2> QED
    BY <1>6, <2>1
<1>8. Exprs \subseteq S
  <2> HIDE DEF S
  <2> QED
    BY <1>7, Structural
<1> QED
  BY <1>6, <1>8

(***************************************************************************)
(* The code of rules.                                                      *)
(***************************************************************************)
LEMMA Downwards ==
  ASSUME NEW n \in Nat, NEW S, n + 1 \in S, \A i \in 1 .. n : i + 1 \in S => i \in S
  PROVE  \A i \in 1 .. n + 1 : i \in S
<1> DEFINE T == {j \in Nat : n + 1 - j \in S}
<1>1. 0 \in T
  OBVIOUS
<1>2. ASSUME NEW j \in 1 .. n, j - 1 \in T PROVE j \in T
  <2> DEFINE i == n + 1 - j
  <2>1. i \in 1 .. n /\ n + 1 - (j - 1) = i + 1 /\ n + 1 - (j - 1) \in S
    BY <1>2
  <2>2. i \in S
    <3> HIDE DEF i
    <3> QED
      BY <2>1
  <2> QED
    BY <2>2
<1>3. \A j \in 0 .. n : j \in T
  <2> HIDE DEF T
  <2> QED
    BY <1>1, <1>2, Upwards
<1> SUFFICES ASSUME NEW i \in 1 .. n + 1 PROVE i \in S
  OBVIOUS
<1>4. n + 1 - i \in 0 .. n /\ n + 1 - (n + 1 - i) = i
  OBVIOUS
<1>5. n + 1 - i \in T
  BY <1>3, <1>4
<1> QED
  BY <1>4, <1>5

\* A value carried along from the end.
LEMMA ChainBack ==
  ASSUME NEW V, NEW v \in V, NEW n \in Nat, NEW H \in [1 .. n -> [V -> V]]
  PROVE  \E f \in [1 .. n + 1 -> V] : f[n + 1] = v /\ \A k \in 1 .. n : f[k] = H[k][f[k + 1]]
<1> DEFINE K == [i \in 1 .. n |-> H[n + 1 - i]]
<1>1. K \in [1 .. n -> [V -> V]]
  OBVIOUS
<1>2. PICK F \in [0 .. n -> V] : F[0] = v /\ \A i \in 1 .. n : F[i] = K[i][F[i - 1]]
  <2>1. Chains(V)
    BY ChainOf
  <2> HIDE DEF K
  <2> QED
    BY <1>1, <2>1 DEF Chains
<1> DEFINE f == [k \in 1 .. n + 1 |-> F[n + 1 - k]]
<1>3. f \in [1 .. n + 1 -> V]
  OBVIOUS
<1>4. f[n + 1] = v
  BY <1>2
<1>5. ASSUME NEW k \in 1 .. n PROVE f[k] = H[k][f[k + 1]]
  <2> DEFINE i == n + 1 - k
  <2>1. i \in 1 .. n /\ n + 1 - i = k /\ n + 1 - (k + 1) = i - 1 /\ k + 1 \in 1 .. n + 1
    OBVIOUS
  <2>2. F[i] = K[i][F[i - 1]]
    BY <1>2, <2>1
  <2>3. K[i] = H[k]
    BY <2>1
  <2>4. f[k] = F[i] /\ f[k + 1] = F[i - 1]
    BY <2>1
  <2> HIDE DEF f, i, K
  <2> QED
    BY <2>2, <2>3, <2>4
<1> HIDE DEF f
<1> QED
  BY <1>3, <1>4, <1>5

\* The code of an action consists of instructions.
LEMMA ActionCodes ==
  ASSUME NEW a \in ActionsOfRules, IsAction(a)
  PROVE  ActionCode(a) \in Seq(Insts)
<1>1. a.args \in Seq(Exprs) /\ Len(a.args) \in Nat
  BY LenProperties DEF IsAction
<1>2. \A i \in DOMAIN a.args : Code[a.args[i]] \in Seq(Insts)
  BY <1>1, CodeUnfolds, ElementOfSeq
<1>3. FlattenSeq([i \in DOMAIN a.args |-> Code[a.args[i]]]) \in Seq(Insts)
  BY <1>1, <1>2, FlattenOf
<1>4. Push(Number(Len(a.args))) \in Insts /\ ActionOp(a.name) \in Insts
  BY <1>1, InstsAreInsts
<1>5. <<Push(Number(Len(a.args))), ActionOp(a.name)>> \in Seq(Insts)
  BY <1>4, Pairs
<1> QED
  BY <1>3, <1>5, ConcatProperties DEF ActionCode

\* So does the code of the score it gives,
LEMMA ScoreCodes ==
  ASSUME NEW a \in ActionsOfRules, IsAction(a), NEW w \in Int
  PROVE  ScoreCode(a, w) \in Seq(Insts)
<1>1. a.args \in Seq(Exprs)
  BY DEF IsAction
<1>2. <<Push(Number(w)), Inst("SET_SCORE")>> \in Seq(Insts)
  BY InstsAreInsts, Pairs
<1>3. CASE a.name = "score" /\ a.args # <<>>
  <2>1. a.args[1] \in Exprs
    BY <1>1, <1>3
  <2>2. Append(Code[a.args[1]], Inst("SET_SCORE")) \in Seq(Insts)
    BY <2>1, CodeUnfolds, InstsAreInsts, AppendProperties
  <2> QED
    BY <1>3, <2>2 DEF ScoreCode
<1>4. CASE a.name = "fail_metric"
  <2>1. FailMetric(a.args[2].value.data) \in Insts
    BY InstsAreInsts
  <2>2. <<FailMetric(a.args[2].value.data)>> \in Seq(Insts) /\ <<>> \in Seq(Insts)
    BY <2>1, Pairs, EmptySeq
  <2>3. ReasonCode(a) \in Seq(Insts)
    BY <2>2 DEF ReasonCode
  <2>4. Push(Number(0)) \in Insts /\ Inst("SET_SCORE") \in Insts
    BY InstsAreInsts
  <2>5. <<Push(Number(0)), Inst("SET_SCORE")>> \o ReasonCode(a) \in Seq(Insts)
    BY <2>3, <2>4, Pairs, ConcatProperties
  <2> QED
    BY <1>4, <2>5 DEF ScoreCode
<1>5. CASE ~(a.name = "score" /\ a.args # <<>>) /\ a.name # "fail_metric"
  BY <1>2, <1>5 DEF ScoreCode
<1> QED
  BY <1>3, <1>4, <1>5

\* What RulesAssumption says of a metric and of the actions of its rule.
Belongs(m) ==
  /\ IsMetric(m)
  /\ m.default \in ActionsOfRules
  /\ \A k \in DOMAIN m.cases : IsCase(m.cases[k]) /\ m.cases[k].action \in ActionsOfRules

\* the code of a case before the code of what follows it,
LEMMA CaseCodes ==
  ASSUME NEW c, IsCase(c), c.action \in ActionsOfRules, NEW w \in Int, NEW rest \in Seq(Insts)
  PROVE  CaseCode(c, w, rest) \in Seq(Insts)
<1> DEFINE body == ActionCode(c.action) \o ScoreCode(c.action, w)
<1>1. c.condition \in Exprs /\ IsAction(c.action)
  BY DEF IsCase
<1>2. body \in Seq(Insts)
  BY <1>1, ActionCodes, ScoreCodes, ConcatProperties
<1>3. Len(body) + 3 \in Nat \ {0} /\ Len(rest) + 2 \in Nat \ {0}
  <2> HIDE DEF body
  <2> QED
    BY <1>2, LenProperties
<1>4. /\ <<JumpIf(FALSE, Len(body) + 3), PopTop>> \in Seq(Insts)
      /\ <<Jump(Len(rest) + 2), PopTop>> \in Seq(Insts)
  <2> HIDE DEF body
  <2>1. /\ JumpIf(FALSE, Len(body) + 3) \in Insts /\ PopTop \in Insts
        /\ Jump(Len(rest) + 2) \in Insts
    BY <1>3, InstsAreInsts
  <2> QED
    BY <2>1, Pairs
<1>5. Code[c.condition] \in Seq(Insts)
  BY <1>1, CodeUnfolds
<1>6. Code[c.condition] \o <<JumpIf(FALSE, Len(body) + 3), PopTop>> \o body
         \o <<Jump(Len(rest) + 2), PopTop>> \o rest \in Seq(Insts)
  <2> HIDE DEF body
  <2> QED
    BY <1>2, <1>4, <1>5, ConcatProperties
<1> QED
  BY <1>6 DEF CaseCode

\* f is the code of a metric, from each of its cases on.
FromCase(f, m, i) ==
  /\ f \in [1 .. Len(m.cases) + 1 -> Seq(Insts)]
  /\ f[Len(m.cases) + 1] = ActionCode(m.default) \o ScoreCode(m.default, 0)
  /\ \A k \in 1 .. Len(m.cases) : f[k] = CaseCode(m.cases[k], m.weight, f[k + 1])
  /\ MetricCode(i, m) = <<MetricStart(i)>> \o f[1]

\* The code of a metric, from each of its cases on.
LEMMA MetricUnfolds ==
  ASSUME NEW m, Belongs(m), NEW i
  PROVE  \E f : FromCase(f, m, i)
<1> DEFINE n == Len(m.cases)
           V == Seq(Insts)
           last == ActionCode(m.default) \o ScoreCode(m.default, 0)
           H == [k \in 1 .. n |-> [rest \in V |-> CaseCode(m.cases[k], m.weight, rest)]]
           Step(f) == [k \in 1 .. n + 1 |->
                         IF k > n THEN last ELSE CaseCode(m.cases[k], m.weight, f[k + 1])]
<1>1. n \in Nat /\ DOMAIN m.cases = 1 .. n
  BY LenProperties DEF Belongs, IsMetric
<1>2. last \in V
  <2>1. IsAction(m.default) /\ m.default \in ActionsOfRules
    BY DEF Belongs, IsMetric
  <2> QED
    BY <2>1, ActionCodes, ScoreCodes, ConcatProperties
<1>3. ASSUME NEW k \in 1 .. n, NEW rest \in V PROVE CaseCode(m.cases[k], m.weight, rest) \in V
  <2>1. IsCase(m.cases[k]) /\ m.cases[k].action \in ActionsOfRules /\ m.weight \in Int
    BY <1>1 DEF Belongs, IsMetric
  <2> QED
    BY <2>1, CaseCodes
<1>4. H \in [1 .. n -> [V -> V]]
  BY <1>3
<1>5. \E f \in [1 .. n + 1 -> V] : f[n + 1] = last /\ \A k \in 1 .. n : f[k] = H[k][f[k + 1]]
  <2>1. \A W : \A v \in W, j \in Nat : \A K \in [1 .. j -> [W -> W]] :
          \E f \in [1 .. j + 1 -> W] : f[j + 1] = v /\ \A k \in 1 .. j : f[k] = K[k][f[k + 1]]
    BY ChainBack
  <2> HIDE DEF H, n, V, last
  <2>2. \A v \in V, j \in Nat : \A K \in [1 .. j -> [V -> V]] :
          \E f \in [1 .. j + 1 -> V] : f[j + 1] = v /\ \A k \in 1 .. j : f[k] = K[k][f[k + 1]]
    BY <2>1
  <2>3. \A K \in [1 .. n -> [V -> V]] :
          \E f \in [1 .. n + 1 -> V] : f[n + 1] = last /\ \A k \in 1 .. n : f[k] = K[k][f[k + 1]]
    BY <1>1, <1>2, <2>2
  <2> QED
    BY <1>4, <2>3
<1>6. PICK f \in [1 .. n + 1 -> V] :
        f[n + 1] = last /\ \A k \in 1 .. n : f[k] = CaseCode(m.cases[k], m.weight, f[k + 1])
  <2>1. PICK f \in [1 .. n + 1 -> V] : f[n + 1] = last /\ \A k \in 1 .. n : f[k] = H[k][f[k + 1]]
    BY <1>5
  <2>2. \A k \in 1 .. n : f[k] = CaseCode(m.cases[k], m.weight, f[k + 1])
    <3> SUFFICES ASSUME NEW k \in 1 .. n PROVE f[k] = CaseCode(m.cases[k], m.weight, f[k + 1])
      OBVIOUS
    <3> HIDE DEF V, n
    <3>1. k + 1 \in 1 .. n + 1
      BY <1>1
    <3>2. f[k + 1] \in V
      BY <2>1, <3>1
    <3>3. H[k] = [rest \in V |-> CaseCode(m.cases[k], m.weight, rest)]
      BY DEF n
    <3>4. f[k] = H[k][f[k + 1]]
      BY <2>1
    <3> HIDE DEF H
    <3> QED
      BY <3>2, <3>3, <3>4
  <2> QED
    BY <2>1, <2>2
<1>7. f = Step(f)
  <2> HIDE DEF n, V, last
  <2> QED
    BY <1>1, <1>6
<1> DEFINE g == CHOOSE h : h = Step(h)
<1>8. g = Step(g)
  <2> HIDE DEF Step
  <2> QED
    BY <1>7
<1>9. MetricCode(i, m) = <<MetricStart(i)>> \o g[1]
  BY DEF MetricCode
<1> HIDE DEF g
<1>10. \A k \in 1 .. n + 1 : g[k] = f[k]
  <2> DEFINE S == {k \in 1 .. n + 1 : g[k] = f[k]}
  <2> HIDE DEF n, V, last
  <2>1. n + 1 \in S
    BY <1>1, <1>6, <1>8
  <2>2. ASSUME NEW k \in 1 .. n, k + 1 \in S PROVE k \in S
    BY <1>1, <1>6, <1>8, <2>2
  <2>3. \A k \in 1 .. n + 1 : k \in S
    <3> HIDE DEF S
    <3> QED
      BY <1>1, <2>1, <2>2, Downwards
  <2> QED
    BY <2>3
<1>11. MetricCode(i, m) = <<MetricStart(i)>> \o f[1]
  <2>1. 1 \in 1 .. n + 1
    BY <1>1
  <2> QED
    BY <1>9, <1>10, <2>1
<1>12. FromCase(f, m, i)
  BY <1>6, <1>11 DEF FromCase
<1> QED
  BY <1>12

\* The actions and the cases of a metric of a rule.
LEMMA MetricsBelong ==
  ASSUME NEW r \in Rules, r.kind = "metric"
  PROVE  /\ r.metrics \in Seq(Range(r.metrics)) /\ r.metrics # <<>>
         /\ \A i \in DOMAIN r.metrics : Belongs(r.metrics[i])
<1>1. /\ r.metrics \in Seq(Range(r.metrics)) /\ r.metrics # <<>>
      /\ \A m \in Range(r.metrics) : IsMetric(m)
  BY RulesAssumption
<1>2. ASSUME NEW i \in DOMAIN r.metrics PROVE Belongs(r.metrics[i])
  <2> DEFINE m == r.metrics[i]
  <2>1. m \in Range(r.metrics) /\ m \in ToSet(r.metrics)
    BY DEF Range, ToSet
  <2>2. IsMetric(m)
    BY <1>1, <2>1
  <2> HIDE DEF m
  <2>3. ({m.default} \cup {c.action : c \in ToSet(m.cases)}) \subseteq ActionsOfRules
    BY <2>1 DEF ActionsOfRules, ActionsOf
  <2>4. ASSUME NEW k \in DOMAIN m.cases
        PROVE  IsCase(m.cases[k]) /\ m.cases[k].action \in ActionsOfRules
    <3>1. m.cases[k] \in Range(m.cases) /\ m.cases[k] \in ToSet(m.cases)
      BY DEF Range, ToSet
    <3> QED
      BY <2>2, <2>3, <3>1 DEF IsMetric
  <2>5. m.default \in ActionsOfRules
    BY <2>3
  <2>6. Belongs(m)
    BY <2>2, <2>4, <2>5 DEF Belongs
  <2> QED
    BY <2>6 DEF m
<1> QED
  BY <1>1, <1>2

\* and the code of a metric.
LEMMA MetricCodes ==
  ASSUME NEW m, Belongs(m), NEW i \in Nat
  PROVE  MetricCode(i, m) \in Seq(Insts)
<1>0. PICK f : FromCase(f, m, i)
  BY MetricUnfolds
<1>1. f \in [1 .. Len(m.cases) + 1 -> Seq(Insts)] /\ MetricCode(i, m) = <<MetricStart(i)>> \o f[1]
  BY <1>0 DEF FromCase
<1>2. 1 \in 1 .. Len(m.cases) + 1
  BY LenProperties DEF Belongs, IsMetric
<1>3. <<MetricStart(i)>> \in Seq(Insts)
  BY InstsAreInsts, Pairs
<1> QED
  BY <1>1, <1>2, <1>3, ConcatProperties

\* The parts of a simple rule.
LEMMA SimpleRules ==
  ASSUME NEW r \in Rules, r.kind = "simple"
  PROVE  r.when \in Exprs /\ IsAction(r.then) /\ r.then \in ActionsOfRules
<1>1. r.then \in ActionsOf(r)
  BY DEF ActionsOf
<1> QED
  BY <1>1, RulesAssumption DEF ActionsOfRules

\* The code of a rule consists of instructions.
LEMMA CodesOfRules ==
  ASSUME NEW r \in Rules
  PROVE  CodeOf(r) \in Seq(Insts)
<1>1. CASE r.kind = "simple"
  <2> DEFINE act == ActionCode(r.then)
  <2>1. Code[r.when] \in Seq(Insts) /\ act \in Seq(Insts)
    BY <1>1, SimpleRules, CodeUnfolds, ActionCodes
  <2> HIDE DEF act
  <2>2. Len(act) + 2 \in Nat \ {0}
    BY <2>1, LenProperties
  <2>3. <<JumpIf(FALSE, Len(act) + 2)>> \in Seq(Insts)
    BY <2>2, InstsAreInsts, Pairs
  <2>4. <<Push(Bool(TRUE)), Inst("RET")>> \in Seq(Insts)
    BY InstsAreInsts, Pairs
  <2>5. Code[r.when] \o <<JumpIf(FALSE, Len(act) + 2)>> \o act
          \o <<Push(Bool(TRUE)), Inst("RET")>> \in Seq(Insts)
    BY <2>1, <2>3, <2>4, ConcatProperties
  <2> QED
    BY <1>1, <2>5 DEF CodeOf, act
<1>2. CASE r.kind = "metric"
  <2> DEFINE q == [i \in DOMAIN r.metrics |-> MetricCode(i, r.metrics[i])]
             V == Seq(Insts)
  <2>1. r.metrics \in Seq(Range(r.metrics)) /\ \A i \in DOMAIN r.metrics : Belongs(r.metrics[i])
    BY <1>2, MetricsBelong
  <2>2. DOMAIN r.metrics = 1 .. Len(r.metrics) /\ Len(r.metrics) \in Nat
    BY <2>1, LenProperties
  <2>3. \A i \in DOMAIN r.metrics : MetricCode(i, r.metrics[i]) \in V
    BY <2>1, <2>2, MetricCodes
  <2>4. q \in Seq(V)
    <3> HIDE DEF V
    <3>1. q \in [1 .. Len(r.metrics) -> V]
      BY <2>2, <2>3
    <3> HIDE DEF q
    <3> QED
      BY <2>2, <3>1, IsASeq
  <2>5. q \in Seq(Seq(Insts))
    BY <2>4
  <2>6. FlattenSeq(q) \in Seq(Insts)
    <3> HIDE DEF q, V
    <3> QED
      BY <2>5, FlattenIn, Zenon
  <2>7. <<Inst("RULE_END")>> \in Seq(Insts)
    BY InstsAreInsts, Pairs
  <2>8. FlattenSeq(q) \o <<Inst("RULE_END")>> \in Seq(Insts)
    <3> HIDE DEF q
    <3> QED
      BY <2>6, <2>7, ConcatProperties
  <2> QED
    BY <1>2, <2>8 DEF CodeOf
<1> QED
  BY <1>1, <1>2, RulesAssumption

(***************************************************************************)
(* How deep the stack is.                                                  *)
(*                                                                         *)
(* b[i] bounds the stack before instruction i is executed.  What is called *)
(* takes as many values as the instruction before it has pushed, so no     *)
(* jump may lead there.                                                    *)
(***************************************************************************)
Called == {"CALL", "ACTION"}
JumpOps == {"JMP", "JMP_IF_TRUE", "JMP_IF_FALSE"}

Moves(x, d, n) ==
  /\ x.op \in {"PUSH", "PUSH_VAR"} => d + 1 <= n
  /\ x.op = "PUSH_ARRAY" => d + 1 <= n + x.count /\ 1 <= n
  /\ x.op \in {"POP", "SET_SCORE", "JMP_IF_TRUE", "JMP_IF_FALSE"} => d <= n + 1
  /\ x.op = "OPERATE" => d + 1 <= n + Operands(x.operator)
  /\ x.op \in {"METRIC_START", "FAIL_METRIC"} => d <= n

\* It takes its k arguments and their number, and a call gives a value.
Takes(op, k, d, n) ==
  /\ op = "CALL" => d <= n + k /\ 1 <= n
  /\ op = "ACTION" => d <= n + k + 1

Lands(c, b, d, j) ==
  /\ j \in 1 .. Len(c) + 1
  /\ d <= b[j]
  /\ j <= Len(c) => c[j].op \notin Called

Allows(c, b, i) ==
  /\ Moves(c[i], b[i], b[i + 1])
  /\ c[i].op \in JumpOps => Lands(c, b, b[i], i + c[i].offset)
  /\ c[i].op \in Called =>
       \E k \in Nat : i > 1 /\ c[i - 1] = Push(Number(k)) /\ Takes(c[i].op, k, b[i], b[i + 1])

\* Code that is entered at its beginning with d values on the stack, and by jumps
\* at instruction k with m values, has left n of them when it ends.  The depths
\* in between are in D.
Enters(c, d, D, n, k, m) ==
  /\ k \in 1 .. Len(c) + 1
  /\ k <= Len(c) => c[k].op \notin Called
  /\ \E b \in [1 .. Len(c) + 1 -> D] :
       /\ b[1] = d /\ b[Len(c) + 1] = n /\ b[k] = m
       /\ \A i \in 1 .. Len(c) : Allows(c, b, i)

Fits(c, d, D, n) == Enters(c, d, D, n, Len(c) + 1, n)

\* Instruction i of the code c is instruction j of the code e, and so is what it can
\* jump to.
Corresponds(c, b, i, e, g, j) ==
  /\ i \in 1 .. Len(c) /\ j \in 1 .. Len(e)
  /\ c[i] = e[j]
  /\ i > 1 => j > 1 /\ c[i - 1] = e[j - 1]
  /\ \A k \in Nat : i + k <= Len(c) + 1 => j + k <= Len(e) + 1 /\ b[i + k] = g[j + k]
  /\ \A k \in Nat : i + k <= Len(c) + 1 /\ j + k <= Len(e) /\ e[j + k].op \in Called
                      => i + k <= Len(c) /\ c[i + k].op \in Called

\* An instruction allows the same depths in other code around it.
LEMMA Transfer ==
  ASSUME NEW c \in Seq(Insts), NEW b, NEW i, Allows(c, b, i),
         NEW e \in Seq(Insts), NEW g, NEW j, Corresponds(c, b, i, e, g, j)
  PROVE  Allows(e, g, j)
<1>0. /\ i \in 1 .. Len(c) /\ j \in 1 .. Len(e)
      /\ c[i] = e[j]
      /\ i > 1 => j > 1 /\ c[i - 1] = e[j - 1]
      /\ \A k \in Nat : i + k <= Len(c) + 1 => j + k <= Len(e) + 1 /\ b[i + k] = g[j + k]
      /\ \A k \in Nat : i + k <= Len(c) + 1 /\ j + k <= Len(e) /\ e[j + k].op \in Called
                          => i + k <= Len(c) /\ c[i + k].op \in Called
  BY DEF Corresponds
<1>1. Len(c) \in Nat /\ Len(e) \in Nat /\ i \in Nat /\ j \in Nat /\ c[i] \in Insts
  BY <1>0, LenProperties, ElementOfSeq
<1>2. b[i] = g[j] /\ b[i + 1] = g[j + 1]
  <2>1. i + 0 <= Len(c) + 1 /\ i + 1 <= Len(c) + 1 /\ i + 0 = i /\ j + 0 = j
    BY <1>0, <1>1
  <2> QED
    BY <1>0, <2>1
<1>3. ASSUME e[j].op \in JumpOps PROVE Lands(e, g, g[j], j + e[j].offset)
  <2> DEFINE k == c[i].offset
  <2>1. c[i].op \in JumpOps /\ Lands(c, b, b[i], i + k)
    BY <1>0, <1>3 DEF Allows
  <2>2. k \in Nat
    BY <1>1, <2>1, JumpsLeadForward DEF JumpOps
  <2> HIDE DEF k
  <2>3. i + k <= Len(c) + 1 /\ b[i] <= b[i + k] /\ (i + k <= Len(c) => c[i + k].op \notin Called)
    BY <2>1 DEF Lands
  <2>4. j + k <= Len(e) + 1 /\ b[i + k] = g[j + k]
    BY <1>0, <2>2, <2>3
  <2>5. j + k <= Len(e) => e[j + k].op \notin Called
    BY <1>0, <2>2, <2>3
  <2>6. j + k \in 1 .. Len(e) + 1
    BY <1>0, <1>1, <2>2, <2>4
  <2>7. Lands(e, g, g[j], j + k)
    BY <1>2, <2>3, <2>4, <2>5, <2>6 DEF Lands
  <2> QED
    BY <1>0, <2>7 DEF k
<1>4. Moves(e[j], g[j], g[j + 1])
  BY <1>0, <1>2 DEF Allows
<1>5. ASSUME e[j].op \in Called
      PROVE  \E k \in Nat : j > 1 /\ e[j - 1] = Push(Number(k)) /\ Takes(e[j].op, k, g[j], g[j + 1])
  BY <1>0, <1>2, <1>5 DEF Allows
<1> QED
  BY <1>3, <1>4, <1>5 DEF Allows

\* Code is not entered at what is called.
LEMMA Beginning ==
  ASSUME NEW c \in Seq(Insts), NEW b, Len(c) # 0, Allows(c, b, 1)
  PROVE  c[1].op \notin Called
  BY DEF Allows

\* Code that ends at the depth where other code is entered is put before it.
LEMMA Joined ==
  ASSUME NEW c \in Seq(Insts), NEW e \in Seq(Insts), NEW D, NEW d, NEW p, NEW n,
         NEW k, NEW m, Fits(c, d, D, p), Enters(e, p, D, n, k, m)
  PROVE  Enters(c \o e, d, D, n, Len(c) + k, m)
<1> DEFINE w == c \o e
<1>1. PICK b \in [1 .. Len(c) + 1 -> D] :
        b[1] = d /\ b[Len(c) + 1] = p /\ \A i \in 1 .. Len(c) : Allows(c, b, i)
  BY DEF Fits, Enters
<1>2. PICK g \in [1 .. Len(e) + 1 -> D] :
        /\ g[1] = p /\ g[Len(e) + 1] = n /\ g[k] = m
        /\ \A i \in 1 .. Len(e) : Allows(e, g, i)
  BY DEF Enters
<1>3. k \in 1 .. Len(e) + 1 /\ (k <= Len(e) => e[k].op \notin Called)
  BY DEF Enters
<1>4. Len(c) \in Nat /\ Len(e) \in Nat /\ w \in Seq(Insts) /\ Len(w) = Len(c) + Len(e)
  BY LenProperties, ConcatProperties
<1>13. \A i \in 1 .. Len(c) + Len(e) : w[i] = IF i <= Len(c) THEN c[i] ELSE e[i - Len(c)]
  BY LenProperties, ConcatProperties
<1>14. \A i \in 1 .. Len(c) : w[i] = c[i]
  BY <1>4, <1>13
<1> HIDE DEF w
<1> DEFINE h == [i \in 1 .. Len(w) + 1 |-> IF i <= Len(c) THEN b[i] ELSE g[i - Len(c)]]
<1>12. ASSUME NEW i \in 1 .. Len(e) PROVE w[Len(c) + i] = e[i]
  <2>1. Len(c) + i \in 1 .. Len(c) + Len(e) /\ ~(Len(c) + i <= Len(c)) /\ Len(c) + i - Len(c) = i
    BY <1>4
  <2> QED
    BY <1>13, <2>1
<1>5. /\ h \in [1 .. Len(w) + 1 -> D]
      /\ \A i \in 1 .. Len(c) + 1 : h[i] = b[i]
      /\ \A i \in 1 .. Len(e) + 1 : h[Len(c) + i] = g[i]
  <2>1. ASSUME NEW i \in 1 .. Len(w) + 1 PROVE h[i] \in D
    <3>1. CASE i <= Len(c)
      <4>1. i \in 1 .. Len(c) + 1
        BY <1>4, <3>1
      <4> QED
        BY <3>1, <4>1
    <3>2. CASE ~(i <= Len(c))
      <4>1. i - Len(c) \in 1 .. Len(e) + 1
        BY <1>4, <3>2
      <4> QED
        BY <3>2, <4>1
    <3> QED
      BY <3>1, <3>2
  <2>2. ASSUME NEW i \in 1 .. Len(c) + 1 PROVE h[i] = b[i]
    <3>1. CASE i <= Len(c)
      BY <1>4, <3>1
    <3>2. CASE i = Len(c) + 1
      <4>1. i \in 1 .. Len(w) + 1 /\ ~(i <= Len(c)) /\ i - Len(c) = 1
        BY <1>4, <3>2
      <4> QED
        BY <1>1, <1>2, <3>2, <4>1
    <3> QED
      BY <1>4, <3>1, <3>2
  <2>3. ASSUME NEW i \in 1 .. Len(e) + 1 PROVE h[Len(c) + i] = g[i]
    <3>1. Len(c) + i \in 1 .. Len(w) + 1 /\ ~(Len(c) + i <= Len(c)) /\ Len(c) + i - Len(c) = i
      BY <1>4
    <3> QED
      BY <3>1
  <2> QED
    BY <2>1, <2>2, <2>3
<1> HIDE DEF h
<1>6. ASSUME NEW i \in 1 .. Len(c) PROVE Allows(w, h, i)
  <2>1. Allows(c, b, i) /\ i \in Nat
    BY <1>1
  <2>2. \A l \in Nat : i + l <= Len(c) + 1 => i + l <= Len(w) + 1 /\ b[i + l] = h[i + l]
    <3> SUFFICES ASSUME NEW l \in Nat, i + l <= Len(c) + 1
                 PROVE  i + l <= Len(w) + 1 /\ b[i + l] = h[i + l]
      OBVIOUS
    <3>1. i + l \in 1 .. Len(c) + 1
      BY <1>4
    <3> QED
      BY <1>4, <1>5, <3>1
  <2>3. ASSUME NEW l \in Nat, i + l <= Len(c) + 1, i + l <= Len(w), w[i + l].op \in Called
        PROVE  i + l <= Len(c) /\ c[i + l].op \in Called
    <3>1. CASE i + l = Len(c) + 1
      <4>1. Len(e) # 0 /\ 1 \in 1 .. Len(e)
        BY <1>4, <2>3, <3>1
      <4>2. w[i + l] = e[1]
        BY <1>12, <3>1, <4>1
      <4>3. e[1].op \notin Called
        BY <1>2, <4>1, <4>2, Beginning
      <4> QED
        BY <2>3, <4>2, <4>3
    <3>2. CASE i + l # Len(c) + 1
      <4>1. i + l \in 1 .. Len(c)
        BY <1>4, <2>1, <2>3, <3>2
      <4>2. w[i + l] = c[i + l]
        BY <1>14, <4>1
      <4> QED
        BY <2>3, <4>1, <4>2
    <3> QED
      BY <3>1, <3>2
  <2>4. i \in 1 .. Len(w) /\ w[i] = c[i]
    BY <1>4, <1>14
  <2>5. i > 1 => w[i - 1] = c[i - 1]
    <3> SUFFICES ASSUME i > 1 PROVE w[i - 1] = c[i - 1]
      OBVIOUS
    <3>1. i - 1 \in 1 .. Len(c)
      BY <1>4
    <3> QED
      BY <1>14, <3>1
  <2>6. \A l \in Nat : i + l <= Len(c) + 1 /\ i + l <= Len(w) /\ w[i + l].op \in Called
                         => i + l <= Len(c) /\ c[i + l].op \in Called
    BY <2>3
  <2>7. Corresponds(c, b, i, w, h, i)
    BY <1>4, <2>2, <2>4, <2>5, <2>6 DEF Corresponds
  <2> QED
    BY <1>4, <2>1, <2>7, Transfer
<1>7. ASSUME NEW i \in 1 .. Len(e) PROVE Allows(w, h, Len(c) + i)
  <2> DEFINE j == Len(c) + i
  <2>1. Allows(e, g, i) /\ i \in Nat /\ j \in 1 .. Len(w)
    BY <1>2, <1>4
  <2>2. \A l \in Nat : i + l <= Len(e) + 1 => j + l <= Len(w) + 1 /\ g[i + l] = h[j + l]
    <3> SUFFICES ASSUME NEW l \in Nat, i + l <= Len(e) + 1
                 PROVE  j + l <= Len(w) + 1 /\ g[i + l] = h[j + l]
      OBVIOUS
    <3>1. i + l \in 1 .. Len(e) + 1 /\ j + l = Len(c) + (i + l)
      BY <1>4
    <3> QED
      BY <1>4, <1>5, <3>1
  <2>3. ASSUME NEW l \in Nat, i + l <= Len(e) + 1, j + l <= Len(w), w[j + l].op \in Called
        PROVE  i + l <= Len(e) /\ e[i + l].op \in Called
    <3>1. i + l \in 1 .. Len(e) /\ j + l = Len(c) + (i + l)
      BY <1>4, <2>1, <2>3
    <3>2. w[j + l] = e[i + l]
      BY <1>12, <3>1
    <3> QED
      BY <2>3, <3>1, <3>2
  <2>4. w[j] = e[i]
    BY <1>12
  <2>5. i > 1 => j > 1 /\ w[j - 1] = e[i - 1]
    <3> SUFFICES ASSUME i > 1 PROVE j > 1 /\ w[j - 1] = e[i - 1]
      OBVIOUS
    <3>1. i - 1 \in 1 .. Len(e) /\ j - 1 = Len(c) + (i - 1) /\ j > 1
      BY <1>4, <2>1
    <3> QED
      BY <1>12, <3>1
  <2>6. Allows(w, h, j)
    <3>1. \A l \in Nat : i + l <= Len(e) + 1 /\ j + l <= Len(w) /\ w[j + l].op \in Called
                           => i + l <= Len(e) /\ e[i + l].op \in Called
      BY <2>3
    <3> HIDE DEF j
    <3>2. Corresponds(e, g, i, w, h, j)
      BY <1>4, <2>1, <2>2, <2>4, <2>5, <3>1 DEF Corresponds
    <3> QED
      BY <1>4, <2>1, <3>2, Transfer
  <2> QED
    BY <2>6
<1>8. ASSUME NEW i \in 1 .. Len(w) PROVE Allows(w, h, i)
  <2>1. CASE i <= Len(c)
    BY <1>4, <1>6, <2>1
  <2>2. CASE ~(i <= Len(c))
    <3>1. i - Len(c) \in 1 .. Len(e) /\ Len(c) + (i - Len(c)) = i
      BY <1>4, <2>2
    <3>2. Allows(w, h, Len(c) + (i - Len(c)))
      BY <1>7, <3>1
    <3> QED
      BY <3>1, <3>2
  <2> QED
    BY <2>1, <2>2
<1>9. /\ Len(c) + k \in 1 .. Len(w) + 1
      /\ Len(c) + k <= Len(w) => w[Len(c) + k].op \notin Called
  <2>1. Len(c) + k \in 1 .. Len(w) + 1
    BY <1>3, <1>4
  <2>2. ASSUME Len(c) + k <= Len(w) PROVE w[Len(c) + k] = e[k] /\ k <= Len(e)
    <3>1. k \in 1 .. Len(e) /\ k <= Len(e)
      BY <1>3, <1>4, <2>2
    <3>2. w[Len(c) + k] = e[k]
      BY <1>12, <3>1
    <3> QED
      BY <3>1, <3>2
  <2> QED
    BY <1>3, <2>1, <2>2
<1>10. h[1] = d /\ h[Len(w) + 1] = n /\ h[Len(c) + k] = m
  <2>1. 1 \in 1 .. Len(c) + 1 /\ Len(e) + 1 \in 1 .. Len(e) + 1
        /\ Len(w) + 1 = Len(c) + (Len(e) + 1)
    BY <1>4
  <2> QED
    BY <1>1, <1>2, <1>3, <1>5, <2>1
<1>11. Enters(w, d, D, n, Len(c) + k, m)
  BY <1>5, <1>8, <1>9, <1>10 DEF Enters
<1> QED
  BY <1>11 DEF w

\* Code that may be entered by a jump may also not be.
LEMMA Entered ==
  ASSUME NEW c \in Seq(Insts), NEW D, NEW d, NEW n, NEW k, NEW m, Enters(c, d, D, n, k, m)
  PROVE  Fits(c, d, D, n)
<1>1. Len(c) \in Nat
  BY LenProperties
<1>2. Len(c) + 1 \in 1 .. Len(c) + 1 /\ ~(Len(c) + 1 <= Len(c))
  BY <1>1
<1> QED
  BY <1>2 DEF Fits, Enters

\* A jump in front of the code it leads into.
LEMMA Leaps ==
  ASSUME NEW c \in Seq(Insts), NEW k \in Nat \ {0}, NEW b \in BOOLEAN,
         NEW x \in {Jump(k), JumpIf(b, k)},
         NEW D, NEW d \in D, d \in Nat, NEW p, NEW n, Enters(c, p, D, n, k, d),
         x.op # "JMP" => d <= p + 1
  PROVE  Enters(<<x>> \o c, d, D, n, 2, p)
<1> DEFINE w == <<x>> \o c
<1>1. PICK g \in [1 .. Len(c) + 1 -> D] :
        /\ g[1] = p /\ g[Len(c) + 1] = n /\ g[k] = d
        /\ \A i \in 1 .. Len(c) : Allows(c, g, i)
  BY DEF Enters
<1>2. k \in 1 .. Len(c) + 1 /\ (k <= Len(c) => c[k].op \notin Called)
  BY DEF Enters
<1>3. x \in Insts /\ x.offset = k /\ x.op \in JumpOps
  <2>1. x \in Insts
    BY InstsAreInsts
  <2>2. x.offset = k /\ x.op \in JumpOps
    BY DEF Jump, JumpIf, JumpOps
  <2> QED
    BY <2>1, <2>2
<1>4. Len(c) \in Nat /\ w \in Seq(Insts) /\ Len(w) = Len(c) + 1 /\ w[1] = x
  BY <1>3, LenProperties, ConcatProperties
<1>5. \A i \in 1 .. Len(c) : w[i + 1] = c[i]
  BY <1>3, LenProperties, ConcatProperties
<1> HIDE DEF w
<1> DEFINE h == [i \in 1 .. Len(w) + 1 |-> IF i = 1 THEN d ELSE g[i - 1]]
<1>6. h \in [1 .. Len(w) + 1 -> D] /\ h[1] = d /\ \A i \in 1 .. Len(c) + 1 : h[i + 1] = g[i]
  <2>1. ASSUME NEW i \in 1 .. Len(w) + 1 PROVE h[i] \in D
    <3>1. CASE i # 1
      <4>1. i - 1 \in 1 .. Len(c) + 1
        BY <1>4, <3>1
      <4> QED
        BY <3>1, <4>1
    <3> QED
      BY <3>1
  <2>2. ASSUME NEW i \in 1 .. Len(c) + 1 PROVE h[i + 1] = g[i]
    <3>1. i + 1 \in 1 .. Len(w) + 1 /\ i + 1 # 1 /\ i + 1 - 1 = i
      BY <1>4
    <3> QED
      BY <3>1
  <2>3. 1 \in 1 .. Len(w) + 1
    BY <1>4
  <2> QED
    BY <2>1, <2>2, <2>3
<1> HIDE DEF h
<1>7. ASSUME NEW i \in 1 .. Len(c) PROVE Allows(w, h, i + 1)
  <2> DEFINE j == i + 1
  <2>1. Allows(c, g, i) /\ i \in Nat /\ j \in 1 .. Len(w)
    BY <1>1, <1>4
  <2>2. \A l \in Nat : i + l <= Len(c) + 1 => j + l <= Len(w) + 1 /\ g[i + l] = h[j + l]
    <3> SUFFICES ASSUME NEW l \in Nat, i + l <= Len(c) + 1
                 PROVE  j + l <= Len(w) + 1 /\ g[i + l] = h[j + l]
      OBVIOUS
    <3>1. i + l \in 1 .. Len(c) + 1 /\ j + l = (i + l) + 1
      BY <1>4
    <3> QED
      BY <1>4, <1>6, <3>1
  <2>3. ASSUME NEW l \in Nat, i + l <= Len(c) + 1, j + l <= Len(w), w[j + l].op \in Called
        PROVE  i + l <= Len(c) /\ c[i + l].op \in Called
    <3>1. i + l \in 1 .. Len(c) /\ j + l = (i + l) + 1
      BY <1>4, <2>1, <2>3
    <3>2. w[j + l] = c[i + l]
      BY <1>5, <3>1
    <3> QED
      BY <2>3, <3>1, <3>2
  <2>4. \A l \in Nat : i + l <= Len(c) + 1 /\ j + l <= Len(w) /\ w[j + l].op \in Called
                         => i + l <= Len(c) /\ c[i + l].op \in Called
    BY <2>3
  <2>5. i > 1 => j > 1 /\ w[j - 1] = c[i - 1]
    <3> SUFFICES ASSUME i > 1 PROVE j > 1 /\ w[j - 1] = c[i - 1]
      OBVIOUS
    <3>1. i - 1 \in 1 .. Len(c) /\ j - 1 = (i - 1) + 1 /\ j > 1
      BY <1>4, <2>1
    <3> QED
      BY <1>5, <3>1
  <2>6. w[j] = c[i]
    BY <1>5
  <2>7. Allows(w, h, j)
    <3> HIDE DEF j
    <3>1. Corresponds(c, g, i, w, h, j)
      BY <2>1, <2>2, <2>4, <2>5, <2>6 DEF Corresponds
    <3> QED
      BY <1>4, <2>1, <3>1, Transfer
  <2> QED
    BY <2>7
<1>8. Allows(w, h, 1)
  <2>1. h[1] = d /\ h[1 + 1] = p /\ h[1 + k] = d
    <3>1. 1 \in 1 .. Len(c) + 1 /\ 1 + k = k + 1
      BY <1>4, <1>2
    <3> QED
      BY <1>1, <1>2, <1>6, <3>1
  <2>2. Moves(x, d, p)
    BY <1>3 DEF Moves, JumpOps
  <2>3. 1 + k <= Len(w) => w[1 + k].op \notin Called
    <3> SUFFICES ASSUME 1 + k <= Len(w) PROVE w[1 + k].op \notin Called
      OBVIOUS
    <3>1. k \in 1 .. Len(c) /\ k <= Len(c) /\ 1 + k = k + 1
      BY <1>2, <1>4
    <3>2. w[1 + k] = c[k]
      BY <1>5, <3>1
    <3> QED
      BY <1>2, <3>1, <3>2
  <2>4. Lands(w, h, d, 1 + k)
    <3>1. 1 + k \in 1 .. Len(w) + 1
      BY <1>2, <1>4
    <3> QED
      BY <2>1, <2>3, <3>1 DEF Lands
  <2>5. x.op \notin Called
    BY <1>3 DEF JumpOps, Called
  <2> QED
    BY <1>3, <1>4, <2>1, <2>2, <2>4, <2>5 DEF Allows
<1>9. ASSUME NEW i \in 1 .. Len(w) PROVE Allows(w, h, i)
  <2>1. CASE i = 1
    BY <1>8, <2>1
  <2>2. CASE i # 1
    <3>1. i - 1 \in 1 .. Len(c) /\ (i - 1) + 1 = i
      BY <1>4, <2>2
    <3>2. Allows(w, h, (i - 1) + 1)
      BY <1>7, <3>1
    <3> QED
      BY <3>1, <3>2
  <2> QED
    BY <2>1, <2>2
<1>10. 2 \in 1 .. Len(w) + 1 /\ (2 <= Len(w) => w[2].op \notin Called)
  <2>1. ASSUME 2 <= Len(w) PROVE w[2].op \notin Called
    <3>1. 1 \in 1 .. Len(c) /\ Len(c) # 0 /\ 1 + 1 = 2
      BY <1>4, <2>1
    <3>2. w[2] = c[1]
      BY <1>5, <3>1
    <3>3. Allows(c, g, 1)
      BY <1>1, <3>1
    <3> QED
      BY <3>1, <3>2, <3>3, Beginning
  <2> QED
    BY <1>4, <2>1
<1>11. h[2] = p /\ h[Len(w) + 1] = n
  <2>1. 1 \in 1 .. Len(c) + 1 /\ Len(c) + 1 \in 1 .. Len(c) + 1 /\ 1 + 1 = 2
    BY <1>4
  <2> QED
    BY <1>1, <1>4, <1>6, <2>1
<1>12. Enters(w, d, D, n, 2, p)
  BY <1>6, <1>9, <1>10, <1>11 DEF Enters
<1> QED
  BY <1>12 DEF w

\* No code changes no depth.
LEMMA Nothing ==
  ASSUME NEW D, NEW d \in D
  PROVE  Fits(<<>>, d, D, d)
<1> DEFINE b == [i \in 1 .. 1 |-> d]
<1>1. b \in [1 .. 1 -> D] /\ b[1] = d
  OBVIOUS
<1> HIDE DEF b
<1> QED
  BY <1>1 DEF Fits, Enters

\* An instruction that is no jump and calls nothing, alone.
LEMMA Single ==
  ASSUME NEW x, x.op \notin Called, x.op \notin JumpOps, NEW D, NEW d \in D, NEW n \in D,
         Moves(x, d, n)
  PROVE  Fits(<<x>>, d, D, n)
<1> DEFINE b == [i \in 1 .. 2 |-> IF i = 1 THEN d ELSE n]
           c == <<x>>
<1>1. b \in [1 .. 2 -> D] /\ b[1] = d /\ b[2] = n
  OBVIOUS
<1>2. Len(c) = 1 /\ c[1] = x
  OBVIOUS
<1> HIDE DEF b, c
<1>3. Allows(c, b, 1)
  BY <1>1, <1>2 DEF Allows
<1>4. Fits(c, d, D, n)
  BY <1>1, <1>2, <1>3 DEF Fits, Enters
<1> QED
  BY <1>4 DEF c

\* A call with the number of its arguments.
LEMMA WithCount ==
  ASSUME NEW k \in Nat, NEW y, y.op \in Called, NEW D, NEW d \in D, d + 1 \in D, NEW n \in D,
         d \in Nat, Takes(y.op, k, d + 1, n)
  PROVE  Fits(<<Push(Number(k)), y>>, d, D, n)
<1> DEFINE b == [i \in 1 .. 3 |-> IF i = 1 THEN d ELSE IF i = 2 THEN d + 1 ELSE n]
           x == Push(Number(k))
           c == <<x, y>>
<1>1. b \in [1 .. 3 -> D] /\ b[1] = d /\ b[2] = d + 1 /\ b[3] = n
  OBVIOUS
<1>2. Len(c) = 2 /\ c[1] = x /\ c[2] = y
  OBVIOUS
<1>3. Moves(x, d, d + 1) /\ x.op = "PUSH"
  BY DEF Moves, Push
<1>4. Moves(y, d + 1, n)
  BY DEF Moves, Called
<1> HIDE DEF b, c
<1>5. Allows(c, b, 1)
  <2>1. b[1 + 1] = b[2]
    OBVIOUS
  <2> HIDE DEF x
  <2> QED
    BY <1>1, <1>2, <1>3, <2>1 DEF Allows, Called, JumpOps
<1>6. Allows(c, b, 2)
  <2>1. b[2 + 1] = b[3] /\ c[2 - 1] = Push(Number(k)) /\ 2 > 1
    BY <1>2
  <2>2. y.op \notin JumpOps
    BY DEF Called, JumpOps
  <2> HIDE DEF x
  <2> QED
    BY <1>1, <1>2, <1>4, <2>1, <2>2 DEF Allows
<1>7. Fits(c, d, D, n)
  <2>1. \A i \in 1 .. 2 : Allows(c, b, i)
    <3>1. \A i \in 1 .. 2 : i = 1 \/ i = 2
      OBVIOUS
    <3> QED
      BY <1>5, <1>6, <3>1
  <2> QED
    BY <1>1, <1>2, <2>1 DEF Fits, Enters
<1> QED
  BY <1>7 DEF c

(***************************************************************************)
(* How deep the stack is in the code of an expression.                     *)
(***************************************************************************)
LEMMA OneAndOne ==
  ASSUME NEW x, NEW y
  PROVE  <<x>> \o <<y>> = <<x, y>>
<1> DEFINE T == {x, y}
           s == <<x>> \o <<y>>
           t == <<x, y>>
<1>1. <<x>> \in Seq(T) /\ <<y>> \in Seq(T) /\ Len(<<x>>) = 1 /\ Len(<<y>>) = 1
      /\ <<x>>[1] = x /\ <<y>>[1] = y
  OBVIOUS
<1>2. t \in Seq(T) /\ Len(t) = 2 /\ t[1] = x /\ t[2] = y
  OBVIOUS
<1>3. s \in Seq(T) /\ Len(s) = 2 /\ s[1] = x /\ s[2] = y
  <2> DEFINE u == <<x>>
             v == <<y>>
  <2> HIDE DEF T, u, v
  <2>1. u \in Seq(T) /\ v \in Seq(T) /\ Len(u) = 1 /\ Len(v) = 1 /\ u[1] = x /\ v[1] = y
    BY <1>1 DEF u, v
  <2>2. u \o v \in Seq(T) /\ Len(u \o v) = 2
        /\ (u \o v)[1] = u[1] /\ (u \o v)[2] = v[1]
    BY <2>1, ConcatProperties
  <2> QED
    BY <2>1, <2>2 DEF u, v
<1>4. s = t
  <2> HIDE DEF s, t, T
  <2>1. \A i \in 1 .. 2 : s[i] = t[i]
    <3>1. \A i \in 1 .. 2 : i = 1 \/ i = 2
      OBVIOUS
    <3> QED
      BY <1>2, <1>3, <3>1
  <2> QED
    BY <1>2, <1>3, <2>1, SeqEqual
<1> QED
  BY <1>4

\* Putting code together is associative.
LEMMA Regrouped ==
  ASSUME NEW s \in Seq(Insts), NEW t \in Seq(Insts), NEW u \in Seq(Insts)
  PROVE  (s \o t) \o u = s \o (t \o u)
  BY ConcatAssociative

\* Code after code, neither entered by jumps.
LEMMA Following ==
  ASSUME NEW c \in Seq(Insts), NEW e \in Seq(Insts), NEW D, NEW d, NEW p, NEW n,
         Fits(c, d, D, p), Fits(e, p, D, n)
  PROVE  c \o e \in Seq(Insts) /\ Fits(c \o e, d, D, n)
<1>1. c \o e \in Seq(Insts)
  BY ConcatProperties
<1>2. Enters(c \o e, d, D, n, Len(c) + (Len(e) + 1), n)
  BY Joined DEF Fits
<1> QED
  BY <1>1, <1>2, Entered

\* Any number of pieces, each from the depth the one before it has left.
LEMMA SequenceFits ==
  ASSUME NEW q \in Seq(Seq(Insts)), NEW D, NEW h \in [0 .. Len(q) -> D],
         \A i \in 1 .. Len(q) : Fits(q[i], h[i - 1], D, h[i])
  PROVE  Fits(FlattenSeq(q), h[0], D, h[Len(q)])
<1> DEFINE n == Len(q)
<1>1. n \in Nat /\ \A i \in 1 .. n : q[i] \in Seq(Insts)
  BY LenProperties
<1>2. PICK F \in [0 .. n -> Seq(Insts)] :
        /\ F[0] = <<>>
        /\ \A i \in 1 .. n : F[i] = F[i - 1] \o q[i]
        /\ FlattenSeq(q) = F[n]
  BY Flattened
<1> DEFINE S == {i \in 0 .. n : Fits(F[i], h[0], D, h[i])}
<1> HIDE DEF n
<1>3. 0 \in S
  <2>1. 0 \in 0 .. n /\ h[0] \in D
    BY <1>1 DEF n
  <2>2. Fits(F[0], h[0], D, h[0])
    BY <1>2, <2>1, Nothing
  <2> QED
    BY <2>1, <2>2
<1>4. ASSUME NEW i \in 1 .. n, i - 1 \in S PROVE i \in S
  <2>1. F[i - 1] \in Seq(Insts) /\ q[i] \in Seq(Insts) /\ i \in 0 .. n
    BY <1>1, <1>4
  <2>2. Fits(F[i - 1], h[0], D, h[i - 1]) /\ Fits(q[i], h[i - 1], D, h[i])
    BY <1>4 DEF n
  <2>3. Fits(F[i - 1] \o q[i], h[0], D, h[i])
    BY <2>1, <2>2, Following
  <2>4. F[i] = F[i - 1] \o q[i]
    BY <1>2
  <2> QED
    BY <2>1, <2>3, <2>4
<1>5. n \in S
  <2> HIDE DEF S
  <2>1. \A i \in 0 .. n : i \in S
    BY <1>1, <1>3, <1>4, Upwards
  <2> QED
    BY <1>1, <2>1
<1> QED
  BY <1>2, <1>5 DEF n

\* The code of arguments leaves one value of each on the stack.
LEMMA ArgumentsFit ==
  ASSUME NEW s \in Seq(Exprs), NEW D \in SUBSET Nat, NEW d \in Nat,
         \A i \in 0 .. Len(s) : d + i \in D,
         \A i \in DOMAIN s : Fits(Code[s[i]], d + (i - 1), D, d + i)
  PROVE  /\ FlattenSeq([i \in DOMAIN s |-> Code[s[i]]]) \in Seq(Insts)
         /\ Fits(FlattenSeq([i \in DOMAIN s |-> Code[s[i]]]), d, D, d + Len(s))
<1> DEFINE q == [i \in DOMAIN s |-> Code[s[i]]]
           h == [i \in 0 .. Len(s) |-> d + i]
           V == Seq(Insts)
<1>1. Len(s) \in Nat /\ DOMAIN s = 1 .. Len(s) /\ \A i \in DOMAIN s : s[i] \in Exprs
  BY LenProperties, ElementOfSeq
<1>2. q \in [1 .. Len(s) -> V]
  BY <1>1, CodeUnfolds
<1>3. q \in Seq(Seq(Insts)) /\ Len(q) = Len(s)
  <2>1. q \in Seq(V)
    <3> HIDE DEF q, V
    <3> QED
      BY <1>1, <1>2, IsASeq
  <2>2. DOMAIN q = 1 .. Len(s)
    BY <1>1
  <2>3. Len(q) = Len(s)
    <3> HIDE DEF q, V
    <3> QED
      BY <1>1, <2>1, <2>2, LenProperties
  <2> QED
    BY <2>1, <2>3
<1>4. \A i \in 1 .. Len(s) : q[i] = Code[s[i]]
  BY <1>1
<1>5. h \in [0 .. Len(s) -> D]
  OBVIOUS
<1>6. \A i \in 0 .. Len(s) : h[i] = d + i
  OBVIOUS
<1> HIDE DEF q, h, V
<1>7. ASSUME NEW i \in 1 .. Len(s) PROVE Fits(q[i], h[i - 1], D, h[i])
  <2>1. i \in 0 .. Len(s) /\ i - 1 \in 0 .. Len(s)
    BY <1>1
  <2>2. h[i] = d + i /\ h[i - 1] = d + (i - 1) /\ q[i] = Code[s[i]]
    BY <1>4, <1>6, <2>1
  <2>3. Fits(Code[s[i]], d + (i - 1), D, d + i)
    BY <1>1
  <2> QED
    BY <2>2, <2>3
<1>8. Fits(FlattenSeq(q), h[0], D, h[Len(q)])
  BY <1>3, <1>5, <1>7, SequenceFits
<1>9. h[0] = d /\ h[Len(q)] = d + Len(s)
  <2>1. 0 \in 0 .. Len(s) /\ Len(s) \in 0 .. Len(s) /\ d + 0 = d
    BY <1>1
  <2> QED
    BY <1>3, <1>6, <2>1
<1>10. FlattenSeq(q) \in Seq(Insts)
  BY <1>3, FlattenIn, Zenon
<1> QED
  BY <1>8, <1>9, <1>10 DEF q

\* An expression is taken to need a place on the stack at least.
LEMMA StackUsedPositive == \A e \in Exprs : StackUsed[e] \in Nat \ {0}
<1> DEFINE S == {e \in Exprs : StackUsed[e] \in Nat \ {0}}
<1>1. ASSUME NEW e \in Exprs, PartsOf(e) \subseteq S PROVE e \in S
  <2> DEFINE f == StackUsed
  <2>1. f[e] = StackUsedFrom(f, e) /\ \A d \in PartsOf(e) : f[d] \in Nat \ {0}
    BY <1>1, StackUsedUnfolds
  <2> HIDE DEF f
  <2>2. CASE e.kind = "array"
    <3>1. e.items \in Seq(Exprs) /\ \A i \in DOMAIN e.items : f[e.items[i]] \in Nat
      BY <2>1, <2>2, PartsOfKinds
    <3>2. MostOf(f, e.items, 0) \in Nat
      BY <3>1, GreatestOf
    <3>3. f[e] \in Nat \ {0}
      BY <2>1, <2>2, <3>2 DEF StackUsedFrom, MostOf
    <3> QED
      BY <3>3 DEF f
  <2>3. CASE e.kind = "call"
    <3>1. e.args \in Seq(Exprs) /\ \A i \in DOMAIN e.args : f[e.args[i]] \in Nat
      BY <2>1, <2>3, PartsOfKinds
    <3>2. Len(e.args) \in Nat /\ Len(e.args) + 1 \in Nat
      BY <3>1, LenProperties
    <3>3. MostOf(f, e.args, Len(e.args) + 1) \in Nat
          /\ Len(e.args) + 1 <= MostOf(f, e.args, Len(e.args) + 1)
      BY <3>1, <3>2, GreatestOf
    <3>4. f[e] \in Nat \ {0}
      BY <2>1, <2>3, <3>2, <3>3 DEF StackUsedFrom, MostOf
    <3> QED
      BY <3>4 DEF f
  <2>4. CASE e.kind = "binary"
    <3>1. f[e.left] \in Nat /\ f[e.right] + 1 \in Nat /\ f[e.left] # 0
      BY <2>1, <2>4, PartsOfKinds
    <3>2. Max({f[e.left], f[e.right] + 1}) \in Nat /\ f[e.left] <= Max({f[e.left], f[e.right] + 1})
      BY <3>1, Greater
    <3>3. f[e] \in Nat \ {0}
      BY <2>1, <2>4, <3>1, <3>2 DEF StackUsedFrom
    <3> QED
      BY <3>3 DEF f
  <2>5. CASE e.kind \in {"unary", "id", "literal"}
    <3>1. f[e] \in Nat \ {0}
      BY <2>1, <2>5, PartsOfKinds DEF StackUsedFrom
    <3> QED
      BY <3>1 DEF f
  <2> QED
    BY <2>2, <2>3, <2>4, <2>5, ExprsAssumption DEF IsExpr
<1>2. Exprs \subseteq S
  <2> HIDE DEF S
  <2> QED
    BY <1>1, Structural
<1> QED
  BY <1>2

\* The depths an expression is compiled to need: above the d values that are there.
Room(e, d, D) == D = Nat \/ (Plain[e] /\ d .. d + StackUsed[e] \subseteq D)

\* There is room for the value of an expression.
LEMMA RoomFor ==
  ASSUME NEW e \in Exprs, NEW d \in Nat, NEW D \in SUBSET Nat, Room(e, d, D),
         NEW k \in Nat, d <= k, D = Nat \/ k <= d + StackUsed[e]
  PROVE  k \in D
<1>1. StackUsed[e] \in Nat
  BY StackUsedPositive
<1>2. CASE D # Nat
  <2>1. k \in d .. d + StackUsed[e]
    BY <1>1, <1>2
  <2> QED
    BY <1>2, <2>1 DEF Room
<1> QED
  BY <1>2

\* There is room for a part of an expression, further up the stack.
LEMMA RoomWithin ==
  ASSUME NEW x \in Exprs, NEW k \in Nat, NEW E \in SUBSET Nat, Room(x, k, E),
         NEW y \in Exprs, NEW j \in Nat, k <= j,
         E # Nat => Plain[y] /\ j + StackUsed[y] <= k + StackUsed[x]
  PROVE  Room(y, j, E)
<1>1. CASE E # Nat
  <2>1. Plain[y] /\ j + StackUsed[y] <= k + StackUsed[x] /\ k .. k + StackUsed[x] \subseteq E
    BY <1>1 DEF Room
  <2> DEFINE a == StackUsed[y]
             b == StackUsed[x]
  <2>2. a \in Nat /\ b \in Nat
    BY StackUsedPositive
  <2> HIDE DEF a, b
  <2>3. j + a <= k + b
    BY <2>1 DEF a, b
  <2>4. j .. j + a \subseteq k .. k + b
    BY <2>2, <2>3
  <2>5. j .. j + a \subseteq E
    BY <2>1, <2>4 DEF b
  <2> QED
    BY <2>1, <2>5 DEF Room, a
<1> QED
  BY <1>1 DEF Room

\* The code of an expression adds its value to the stack and needs no more of it
\* than the compiler takes it to need.
LEMMA CodeFits ==
  ASSUME NEW e \in Exprs, NEW d \in Nat, NEW D \in SUBSET Nat, Room(e, d, D)
  PROVE  Fits(Code[e], d, D, d + 1)
<1> DEFINE S == {x \in Exprs : \A k \in Nat, E \in SUBSET Nat :
                   Room(x, k, E) => Fits(Code[x], k, E, k + 1)}
<1>1. ASSUME NEW x \in Exprs, PartsOf(x) \subseteq S, NEW k \in Nat, NEW E \in SUBSET Nat,
             Room(x, k, E)
      PROVE  Fits(Code[x], k, E, k + 1)
  <2>1. Code[x] = CodeFrom(Code, x) /\ StackUsed[x] = StackUsedFrom(StackUsed, x)
        /\ Plain[x] = PlainFrom(Plain, x)
    BY CodeUnfolds, StackUsedUnfolds, PlainUnfolds
  <2>2. StackUsed[x] \in Nat \ {0}
    BY StackUsedPositive
  <2>3. \A y \in PartsOf(x) :
          /\ y \in Exprs /\ Code[y] \in Seq(Insts) /\ StackUsed[y] \in Nat \ {0}
          /\ \A j \in Nat : Room(y, j, E) => Fits(Code[y], j, E, j + 1)
    BY <1>1, PartsAreExprs, CodeUnfolds, StackUsedPositive
  <2>4. k \in E /\ k + 1 \in E
    BY <1>1, <2>2, RoomFor
  <2>5. CASE Fold[x].status = "OK"
    <3>1. Moves(Push(Fold[x].value), k, k + 1)
      BY DEF Moves, Push
    <3>2. Fits(<<Push(Fold[x].value)>>, k, E, k + 1)
      BY <2>4, <3>1, Single DEF Push, Called, JumpOps
    <3> QED
      BY <2>1, <2>5, <3>2 DEF CodeFrom
  <2>6. CASE Fold[x].status # "OK" /\ x.kind = "literal"
    <3>1. Moves(Push(x.value), k, k + 1)
      BY DEF Moves, Push
    <3>2. Fits(<<Push(x.value)>>, k, E, k + 1)
      BY <2>4, <3>1, Single DEF Push, Called, JumpOps
    <3> QED
      BY <2>1, <2>6, <3>2 DEF CodeFrom
  <2>7. CASE Fold[x].status # "OK" /\ x.kind = "id"
    <3>1. Moves(PushVar(x.name), k, k + 1)
      BY DEF Moves, PushVar
    <3>2. Fits(<<PushVar(x.name)>>, k, E, k + 1)
      BY <2>4, <3>1, Single DEF PushVar, Called, JumpOps
    <3> QED
      BY <2>1, <2>7, <3>2 DEF CodeFrom
  <2>8. CASE Fold[x].status # "OK" /\ x.kind = "unary"
    <3>1. x.arg \in PartsOf(x) /\ x.op \in {"NOT", "NEG"}
      BY <2>8, PartsOfKinds, ExprsAssumption DEF IsExpr
    <3>2. Room(x.arg, k, E)
      BY <1>1, <2>1, <2>8 DEF Room, StackUsedFrom, PlainFrom
    <3>3. Fits(Code[x.arg], k, E, k + 1) /\ Code[x.arg] \in Seq(Insts)
      BY <2>3, <3>1, <3>2
    <3>4. Moves(Operate(x.op), k + 1, k + 1)
      BY <3>1 DEF Moves, Operate, Operands
    <3>5. Fits(<<Operate(x.op)>>, k + 1, E, k + 1)
      BY <2>4, <3>4, Single DEF Operate, Called, JumpOps
    <3>6. <<Operate(x.op)>> \in Seq(Insts)
      BY InstsAreInsts, Pairs
    <3>7. Fits(Code[x.arg] \o <<Operate(x.op)>>, k, E, k + 1)
      BY <3>3, <3>5, <3>6, Following
    <3>8. Code[x] = Code[x.arg] \o <<Operate(x.op)>>
      <4>1. Code[x] = Append(Code[x.arg], Operate(x.op))
        BY <2>1, <2>8 DEF CodeFrom
      <4> QED
        BY <3>3, <4>1, AppendIsConcat, InstsAreInsts
    <3> QED
      BY <3>7, <3>8
  <2>9. CASE Fold[x].status # "OK" /\ x.kind = "binary"
    <3> DEFINE l == x.left
               r == x.right
    <3>1. l \in PartsOf(x) /\ r \in PartsOf(x)
          /\ x.op \in Arithmetic \cup Relational \cup Logical
      BY <2>9, PartsOfKinds, ExprsAssumption DEF IsExpr
    <3> HIDE DEF l, r
    <3>2. StackUsed[l] \in Nat \ {0} /\ StackUsed[r] \in Nat \ {0}
      BY <2>3, <3>1
    <3>3. StackUsed[l] <= StackUsed[x] /\ StackUsed[r] + 1 <= StackUsed[x]
      <4>1. StackUsed[x] = Max({StackUsed[l], StackUsed[r] + 1})
        BY <2>1, <2>9 DEF StackUsedFrom, l, r
      <4>2. StackUsed[r] + 1 \in Nat
        BY <3>2
      <4> QED
        BY <3>2, <4>1, <4>2, Greater
    <3>4. Plain[x] => Plain[l] /\ Plain[r]
      BY <2>1, <2>9 DEF PlainFrom, l, r
    <3>5. Room(l, k, E)
      BY <1>1, <2>2, <3>2, <3>3, <3>4 DEF Room
    <3>6. Room(r, k, E)
      BY <1>1, <2>2, <3>2, <3>3, <3>4 DEF Room
    <3>7. Room(r, k + 1, E)
      <4>1. CASE E # Nat
        <5>1. Plain[x] /\ k .. k + StackUsed[x] \subseteq E
          BY <1>1, <4>1 DEF Room
        <5>2. (k + 1) .. (k + 1) + StackUsed[r] \subseteq k .. k + StackUsed[x]
          BY <2>2, <3>2, <3>3
        <5> QED
          BY <3>4, <5>1, <5>2 DEF Room
      <4> QED
        BY <4>1 DEF Room
    <3>8. k + 2 \in E
      BY <1>1, <2>2, <3>2, <3>3, RoomFor
    <3>9. Fits(Code[l], k, E, k + 1) /\ Code[l] \in Seq(Insts) /\ Code[r] \in Seq(Insts)
      BY <2>3, <3>1, <3>5
    <3>10. CASE x.op \in Logical
      <4> DEFINE b == x.op = "OR"
                 n == Len(Code[r]) + 2
                 tail == <<PopTop>> \o Code[r]
      <4>1. Fits(Code[r], k, E, k + 1)
        BY <2>3, <3>1, <3>6
      <4>2. Len(Code[r]) \in Nat /\ n \in Nat \ {0} /\ b \in BOOLEAN
        BY <3>9, LenProperties
      <4>3. Fits(<<PopTop>>, k, E, k)
        <5>1. Moves(PopTop, k, k)
          BY DEF Moves, PopTop, Inst
        <5> QED
          BY <2>4, <5>1, Single DEF PopTop, Inst, Called, JumpOps
      <4>4. <<PopTop>> \in Seq(Insts)
        BY InstsAreInsts, Pairs
      <4>5. tail \in Seq(Insts) /\ Fits(tail, k, E, k + 1)
        BY <3>9, <4>1, <4>3, <4>4, Following
      <4>6. Len(tail) + 1 = n
        <5>1. Len(<<PopTop>>) = 1
          OBVIOUS
        <5>2. Len(tail) = Len(<<PopTop>>) + Len(Code[r])
          BY <3>9, <4>4, ConcatProperties
        <5> QED
          BY <4>2, <5>1, <5>2
      <4> HIDE DEF tail, n, b
      <4>7. Enters(tail, k, E, k + 1, n, k + 1)
        BY <4>5, <4>6 DEF Fits
      <4>8. JumpIf(b, n) \in Insts
        BY <4>2, InstsAreInsts
      <4>9. Fits(<<JumpIf(b, n)>> \o tail, k + 1, E, k + 1)
        <5>1. Enters(<<JumpIf(b, n)>> \o tail, k + 1, E, k + 1, 2, k)
          <6> DEFINE y == JumpIf(b, n)
          <6>1. y \in {Jump(n), JumpIf(b, n)} /\ k + 1 \in Nat /\ k + 1 <= k + 1
            OBVIOUS
          <6> HIDE DEF y
          <6>2. Enters(<<y>> \o tail, k + 1, E, k + 1, 2, k)
            BY <2>4, <4>2, <4>5, <4>7, <6>1, Leaps
          <6> QED
            BY <6>2 DEF y
        <5>2. <<JumpIf(b, n)>> \o tail \in Seq(Insts)
          BY <4>5, <4>8, Pairs, ConcatProperties
        <5> QED
          BY <5>1, <5>2, Entered
      <4>10. <<JumpIf(b, n)>> \o tail \in Seq(Insts)
        BY <4>5, <4>8, Pairs, ConcatProperties
      <4>11. Fits(Code[l] \o (<<JumpIf(b, n)>> \o tail), k, E, k + 1)
        BY <3>9, <4>9, <4>10, Following
      <4>12. Code[x] = Code[l] \o (<<JumpIf(b, n)>> \o tail)
        <5>1. Code[x] = Code[l] \o <<JumpIf(b, n), PopTop>> \o Code[r]
          BY <2>1, <2>9, <3>10 DEF CodeFrom, ShortCircuit, l, r, b, n
        <5>2. <<JumpIf(b, n), PopTop>> = <<JumpIf(b, n)>> \o <<PopTop>>
          BY OneAndOne, Zenon
        <5>3. <<JumpIf(b, n)>> \in Seq(Insts) /\ <<JumpIf(b, n), PopTop>> \in Seq(Insts)
          BY <4>8, InstsAreInsts, Pairs
        <5>4. Code[x] = Code[l] \o (<<JumpIf(b, n), PopTop>> \o Code[r])
          <6>1. (Code[l] \o <<JumpIf(b, n), PopTop>>) \o Code[r]
                  = Code[l] \o (<<JumpIf(b, n), PopTop>> \o Code[r])
            <7> DEFINE y == <<JumpIf(b, n), PopTop>>
            <7>1. y \in Seq(Insts)
              BY <5>3
            <7> HIDE DEF y
            <7>2. (Code[l] \o y) \o Code[r] = Code[l] \o (y \o Code[r])
              BY <3>9, <7>1, Regrouped
            <7> QED
              BY <7>2 DEF y
          <6> QED
            BY <5>1, <6>1
        <5>5. <<JumpIf(b, n), PopTop>> \o Code[r] = <<JumpIf(b, n)>> \o tail
          <6>1. (<<JumpIf(b, n)>> \o <<PopTop>>) \o Code[r]
                  = <<JumpIf(b, n)>> \o (<<PopTop>> \o Code[r])
            BY <3>9, <4>4, <5>3, Regrouped
          <6> QED
            BY <5>2, <6>1, Zenon DEF tail
        <5> QED
          BY <5>4, <5>5
      <4> QED
        BY <4>11, <4>12
    <3>11. CASE x.op \notin Logical
      <4>1. Fits(Code[r], k + 1, E, k + 1 + 1)
        BY <2>3, <3>1, <3>7
      <4>2. k + 1 + 1 = k + 2
        OBVIOUS
      <4>3. Moves(Operate(x.op), k + 2, k + 1)
        BY <3>1, <3>11 DEF Moves, Operate, Operands, Arithmetic, Relational
      <4>4. Fits(<<Operate(x.op)>>, k + 2, E, k + 1)
        BY <2>4, <3>8, <4>3, Single DEF Operate, Called, JumpOps
      <4>5. <<Operate(x.op)>> \in Seq(Insts)
        BY InstsAreInsts, Pairs
      <4>6. Code[l] \o Code[r] \in Seq(Insts) /\ Fits(Code[l] \o Code[r], k, E, k + 2)
        BY <3>9, <4>1, <4>2, Following
      <4>7. Fits((Code[l] \o Code[r]) \o <<Operate(x.op)>>, k, E, k + 1)
        BY <4>4, <4>5, <4>6, Following
      <4> QED
        BY <2>1, <2>9, <3>11, <4>7 DEF CodeFrom, l, r
    <3> QED
      BY <3>10, <3>11
  <2>10. CASE Fold[x].status # "OK" /\ x.kind = "array"
    <3> DEFINE s == x.items
               n == Len(s)
               q == FlattenSeq([i \in DOMAIN s |-> Code[s[i]]])
    <3>1. s \in Seq(Exprs) /\ n \in Nat /\ DOMAIN s = 1 .. n
          /\ \A i \in DOMAIN s : s[i] \in PartsOf(x) /\ StackUsed[s[i]] \in Nat \ {0}
      BY <2>3, <2>10, PartsOfKinds, LenProperties
    <3>2. Plain[x] => n <= 2 /\ \A i \in DOMAIN s : Plain[s[i]] /\ (i = 1 \/ StackUsed[s[i]] = 1)
      BY <2>1, <2>10 DEF PlainFrom
    <3>3. \A i \in DOMAIN s : StackUsed[s[i]] + 1 <= StackUsed[x]
      <4> DEFINE m == MostOf(StackUsed, s, 0)
      <4>1. StackUsed[x] = 1 + m
        BY <2>1, <2>10 DEF StackUsedFrom, MostOf
      <4>2. m \in Nat /\ \A i \in DOMAIN s : StackUsed[s[i]] <= m
        BY <3>1, GreatestOf
      <4> HIDE DEF m, s
      <4> QED
        BY <3>1, <4>1, <4>2
    <3>4. Code[x] = Append(q, PushArray(n))
      BY <2>1, <2>10 DEF CodeFrom
    <3> HIDE DEF s, n, q
    <3>5. \A i \in 0 .. n : k + i \in E
      <4>0. CASE E = Nat
        BY <3>1, <4>0
      <4> SUFFICES ASSUME E # Nat, NEW i \in 0 .. n PROVE k + i \in E
        BY <4>0
      <4>1. Plain[x]
        BY <1>1 DEF Room
      <4>2. k + i <= k + StackUsed[x]
        <5>1. CASE n = 2
          <6>1. 2 \in DOMAIN s
            BY <3>1, <5>1
          <6> QED
            BY <2>2, <3>1, <3>3, <5>1, <6>1
        <5>2. CASE n # 2
          <6>1. n <= 1
            BY <3>1, <3>2, <4>1, <5>2
          <6> QED
            BY <2>2, <3>1, <6>1
        <5> QED
          BY <5>1, <5>2
      <4> QED
        BY <1>1, <2>2, <3>1, <4>2, RoomFor
    <3>6. ASSUME NEW i \in DOMAIN s PROVE Fits(Code[s[i]], k + (i - 1), E, k + i)
      <4>1. i - 1 \in Nat /\ k + (i - 1) \in Nat /\ k + (i - 1) + 1 = k + i /\ i <= n
        BY <3>1
      <4>2. Room(s[i], k + (i - 1), E)
        <5> DEFINE j == k + (i - 1)
                   y == s[i]
        <5>1. j \in Nat /\ k <= j /\ y \in Exprs /\ StackUsed[y] \in Nat
          BY <2>3, <3>1, <4>1
        <5>2. ASSUME E # Nat PROVE Plain[y] /\ j + StackUsed[y] <= k + StackUsed[x]
          <6>1. Plain[x]
            BY <1>1, <5>2 DEF Room
          <6>2. n <= 2 /\ Plain[y] /\ (i = 1 \/ StackUsed[y] = 1)
            BY <3>2, <6>1
          <6>3. StackUsed[y] + 1 <= StackUsed[x]
            BY <3>3
          <6>4. j = k \/ (j = k + 1 /\ StackUsed[y] = 1)
            <7>1. CASE i = 1
              BY <7>1
            <7>2. CASE i # 1
              <8>1. i = 2
                BY <3>1, <4>1, <6>2, <7>2
              <8> QED
                BY <6>2, <7>2, <8>1
            <7> QED
              BY <7>1, <7>2
          <6> HIDE DEF j, y
          <6>5. j + StackUsed[y] <= k + StackUsed[x]
            BY <2>2, <5>1, <6>3, <6>4
          <6> QED
            BY <6>2, <6>5
        <5> HIDE DEF j, y
        <5>3. Room(y, j, E)
          BY <1>1, <5>1, <5>2, RoomWithin
        <5> QED
          BY <5>3 DEF y, j
      <4>3. Fits(Code[s[i]], k + (i - 1), E, k + (i - 1) + 1)
        BY <2>3, <3>1, <4>1, <4>2
      <4> QED
        BY <4>1, <4>3
    <3>7. q \in Seq(Insts) /\ Fits(q, k, E, k + n)
      BY <3>1, <3>5, <3>6, ArgumentsFit DEF q, n
    <3>8. Fits(<<PushArray(n)>>, k + n, E, k + 1)
      <4>1. Moves(PushArray(n), k + n, k + 1)
        BY <3>1 DEF Moves, PushArray
      <4>2. k + n \in E
        BY <3>1, <3>5
      <4> QED
        BY <2>4, <4>1, <4>2, Single DEF PushArray, Called, JumpOps
    <3>9. PushArray(n) \in Insts /\ <<PushArray(n)>> \in Seq(Insts)
      BY <3>1, InstsAreInsts, Pairs
    <3>10. Fits(q \o <<PushArray(n)>>, k, E, k + 1)
      BY <3>7, <3>8, <3>9, Following
    <3> QED
      BY <3>4, <3>7, <3>9, <3>10, AppendIsConcat
  <2>11. CASE Fold[x].status # "OK" /\ x.kind = "call"
    <3> DEFINE s == x.args
               n == Len(s)
               q == FlattenSeq([i \in DOMAIN s |-> Code[s[i]]])
    <3>1. s \in Seq(Exprs) /\ n \in Nat /\ DOMAIN s = 1 .. n
          /\ \A i \in DOMAIN s : s[i] \in PartsOf(x) /\ StackUsed[s[i]] \in Nat \ {0}
      BY <2>3, <2>11, PartsOfKinds, LenProperties
    <3>2. Plain[x] => \A i \in DOMAIN s : Plain[s[i]] /\ (i = 1 \/ StackUsed[s[i]] = 1)
      BY <2>1, <2>11 DEF PlainFrom
    <3>3. n + 1 <= StackUsed[x] /\ \A i \in DOMAIN s : StackUsed[s[i]] <= StackUsed[x]
      <4> DEFINE m == MostOf(StackUsed, s, n + 1)
      <4>1. StackUsed[x] = m
        BY <2>1, <2>11 DEF StackUsedFrom, MostOf
      <4>2. n + 1 <= m /\ \A i \in DOMAIN s : StackUsed[s[i]] <= m
        <5>1. n + 1 \in Nat
          BY <3>1
        <5> QED
          BY <3>1, <5>1, GreatestOf
      <4> HIDE DEF m, s, n
      <4> QED
        BY <4>1, <4>2
    <3>4. Code[x] = q \o <<Push(Number(n)), CallOp(x.name)>>
      BY <2>1, <2>11 DEF CodeFrom
    <3> HIDE DEF s, n, q
    <3>5. \A i \in 0 .. n + 1 : k + i \in E
      BY <1>1, <2>2, <3>1, <3>3, RoomFor
    <3>6. ASSUME NEW i \in DOMAIN s PROVE Fits(Code[s[i]], k + (i - 1), E, k + i)
      <4>1. i - 1 \in Nat /\ k + (i - 1) \in Nat /\ k + (i - 1) + 1 = k + i /\ i <= n
        BY <3>1
      <4>2. Room(s[i], k + (i - 1), E)
        <5> DEFINE j == k + (i - 1)
                   y == s[i]
        <5>1. j \in Nat /\ k <= j /\ y \in Exprs /\ StackUsed[y] \in Nat
          BY <2>3, <3>1, <4>1
        <5>2. ASSUME E # Nat PROVE Plain[y] /\ j + StackUsed[y] <= k + StackUsed[x]
          <6>1. Plain[x]
            BY <1>1, <5>2 DEF Room
          <6>2. Plain[y] /\ (i = 1 \/ StackUsed[y] = 1)
            BY <3>2, <6>1
          <6>3. StackUsed[y] <= StackUsed[x] /\ n + 1 <= StackUsed[x]
            BY <3>3
          <6>4. j = k \/ (j + 1 <= k + n /\ StackUsed[y] = 1)
            BY <3>1, <4>1, <6>2
          <6> HIDE DEF j, y
          <6>5. j + StackUsed[y] <= k + StackUsed[x]
            BY <2>2, <3>1, <5>1, <6>3, <6>4
          <6> QED
            BY <6>2, <6>5
        <5> HIDE DEF j, y
        <5>3. Room(y, j, E)
          BY <1>1, <5>1, <5>2, RoomWithin
        <5> QED
          BY <5>3 DEF y, j
      <4>3. Fits(Code[s[i]], k + (i - 1), E, k + (i - 1) + 1)
        BY <2>3, <3>1, <4>1, <4>2
      <4> QED
        BY <4>1, <4>3
    <3>7. q \in Seq(Insts) /\ Fits(q, k, E, k + n)
      <4>1. \A i \in 0 .. n : k + i \in E
        <5> SUFFICES ASSUME NEW i \in 0 .. n PROVE k + i \in E
          OBVIOUS
        <5>1. i \in 0 .. n + 1
          BY <3>1
        <5> QED
          BY <3>5, <5>1
      <4> QED
        BY <3>1, <3>6, <4>1, ArgumentsFit DEF q, n
    <3>8. Fits(<<Push(Number(n)), CallOp(x.name)>>, k + n, E, k + 1)
      <4>1. k + n \in E /\ k + n + 1 \in E /\ k + n \in Nat
        <5>1. n \in 0 .. n + 1 /\ n + 1 \in 0 .. n + 1 /\ k + (n + 1) = k + n + 1
          BY <3>1
        <5> QED
          BY <3>1, <3>5, <5>1
      <4> DEFINE y == CallOp(x.name)
      <4>2. y.op \in Called /\ Takes(y.op, n, k + n + 1, k + 1)
        BY <3>1 DEF CallOp, Takes, Called
      <4> HIDE DEF y
      <4>3. Fits(<<Push(Number(n)), y>>, k + n, E, k + 1)
        BY <2>4, <3>1, <4>1, <4>2, WithCount
      <4> QED
        BY <4>3 DEF y
    <3>9. <<Push(Number(n)), CallOp(x.name)>> \in Seq(Insts)
      BY <3>1, InstsAreInsts, Pairs
    <3>10. Fits(q \o <<Push(Number(n)), CallOp(x.name)>>, k, E, k + 1)
      BY <3>7, <3>8, <3>9, Following
    <3> QED
      BY <3>4, <3>10
  <2> QED
    BY <2>5, <2>6, <2>7, <2>8, <2>9, <2>10, <2>11, ExprsAssumption DEF IsExpr
<1>2. \A x \in Exprs : PartsOf(x) \subseteq S => x \in S
  BY <1>1
<1>3. Exprs \subseteq S
  <2> HIDE DEF S
  <2> QED
    BY <1>2, Structural
<1> QED
  BY <1>3

(***************************************************************************)
(* How deep the stack is in the code of a rule.                            *)
(***************************************************************************)
\* The depths an action is compiled to need.
ActionRoom(a, D) ==
  D = Nat \/ ((\A i \in DOMAIN a.args : Plain[a.args[i]]) /\ 0 .. ActionStack(a) \subseteq D)

\* What an action is taken to need covers its arguments, each above those before
\* it, and their number.
LEMMA ActionStacks ==
  ASSUME NEW a, IsAction(a)
  PROVE  /\ ActionStack(a) \in Nat /\ Len(a.args) + 1 <= ActionStack(a)
         /\ \A i \in DOMAIN a.args : StackUsed[a.args[i]] + (i - 1) <= ActionStack(a)
<1> DEFINE n == Len(a.args)
           m == [i \in 1 .. n |-> StackUsed[a.args[i]] + i - 1]
           S == {m[i] : i \in 1 .. n} \cup {n + 1}
<1>1. /\ n \in Nat /\ DOMAIN a.args = 1 .. n
      /\ \A i \in DOMAIN a.args : StackUsed[a.args[i]] \in Nat \ {0}
  <2>1. a.args \in Seq(Exprs)
    BY DEF IsAction
  <2> QED
    BY <2>1, LenProperties, ElementOfSeq, StackUsedPositive
<1>2. m \in [1 .. n -> Nat] /\ n + 1 \in Nat
  BY <1>1
<1>3. ActionStack(a) = Max(S)
  <2>1. {m[i] : i \in 1 .. n} = {StackUsed[a.args[i]] + i - 1 : i \in DOMAIN a.args}
    BY <1>1
  <2> HIDE DEF m
  <2> QED
    BY <2>1 DEF ActionStack
<1>4. \A i \in 1 .. n : m[i] = StackUsed[a.args[i]] + (i - 1)
  BY <1>1
<1> HIDE DEF m
<1>5. Max(S) \in Nat /\ n + 1 <= Max(S) /\ \A i \in 1 .. n : m[i] <= Max(S)
  <2> HIDE DEF n
  <2> QED
    BY <1>1, <1>2, GreatestAt
<1> QED
  BY <1>1, <1>3, <1>4, <1>5

\* An action leaves the stack as it was.
LEMMA ActionFits ==
  ASSUME NEW a \in ActionsOfRules, IsAction(a), NEW D \in SUBSET Nat, ActionRoom(a, D)
  PROVE  Fits(ActionCode(a), 0, D, 0)
<1> DEFINE s == a.args
           n == Len(s)
           q == FlattenSeq([i \in DOMAIN s |-> Code[s[i]]])
<1>1. /\ s \in Seq(Exprs) /\ n \in Nat /\ DOMAIN s = 1 .. n
      /\ \A i \in DOMAIN s : s[i] \in Exprs /\ StackUsed[s[i]] \in Nat \ {0}
  <2>1. s \in Seq(Exprs)
    BY DEF IsAction
  <2> QED
    BY <2>1, LenProperties, ElementOfSeq, StackUsedPositive
<1>2. ActionCode(a) = q \o <<Push(Number(n)), ActionOp(a.name)>>
  BY DEF ActionCode
<1>3. /\ ActionStack(a) \in Nat /\ n + 1 <= ActionStack(a)
      /\ \A i \in DOMAIN s : StackUsed[s[i]] + (i - 1) <= ActionStack(a)
  BY ActionStacks
<1>4. D = Nat \/ ((\A i \in DOMAIN s : Plain[s[i]]) /\ 0 .. ActionStack(a) \subseteq D)
  BY DEF ActionRoom
<1> HIDE DEF s, n, q
<1>5. \A i \in 0 .. n + 1 : i \in D
  BY <1>1, <1>3, <1>4
<1>6. ASSUME NEW i \in DOMAIN s PROVE Fits(Code[s[i]], 0 + (i - 1), D, 0 + i)
  <2>1. i - 1 \in Nat /\ (i - 1) + 1 = i /\ 0 + (i - 1) = i - 1 /\ 0 + i = i
    BY <1>1
  <2>2. Room(s[i], i - 1, D)
    <3>1. CASE D # Nat
      <4>1. (i - 1) .. (i - 1) + StackUsed[s[i]] \subseteq 0 .. ActionStack(a)
        BY <1>1, <1>3, <2>1
      <4> QED
        BY <1>4, <3>1, <4>1 DEF Room
    <3> QED
      BY <3>1 DEF Room
  <2>3. Fits(Code[s[i]], i - 1, D, (i - 1) + 1)
    BY <1>1, <2>1, <2>2, CodeFits
  <2> QED
    BY <2>1, <2>3
<1>7. q \in Seq(Insts) /\ Fits(q, 0, D, n)
  <2>1. \A i \in 0 .. n : 0 + i \in D
    <3> SUFFICES ASSUME NEW i \in 0 .. n PROVE i \in D
      OBVIOUS
    <3>1. i \in 0 .. n + 1
      BY <1>1
    <3> QED
      BY <1>5, <3>1
  <2>2. q \in Seq(Insts) /\ Fits(q, 0, D, 0 + n)
    BY <1>1, <1>6, <2>1, ArgumentsFit DEF q, n
  <2> QED
    BY <1>1, <2>2
<1>8. Fits(<<Push(Number(n)), ActionOp(a.name)>>, n, D, 0)
  <2> DEFINE y == ActionOp(a.name)
  <2>1. n \in D /\ n + 1 \in D /\ 0 \in D
    <3>1. n \in 0 .. n + 1 /\ n + 1 \in 0 .. n + 1 /\ 0 \in 0 .. n + 1
      BY <1>1
    <3> QED
      BY <1>5, <3>1
  <2>2. y.op \in Called /\ Takes(y.op, n, n + 1, 0)
    BY <1>1 DEF ActionOp, Takes, Called
  <2> HIDE DEF y
  <2>3. Fits(<<Push(Number(n)), y>>, n, D, 0)
    BY <1>1, <2>1, <2>2, WithCount
  <2> QED
    BY <2>3 DEF y
<1>9. <<Push(Number(n)), ActionOp(a.name)>> \in Seq(Insts)
  BY <1>1, InstsAreInsts, Pairs
<1>10. Fits(q \o <<Push(Number(n)), ActionOp(a.name)>>, 0, D, 0)
  BY <1>7, <1>8, <1>9, Following
<1> QED
  BY <1>2, <1>10

\* A value is pushed and made the score.
LEMMA Scoring ==
  ASSUME NEW D \in SUBSET Nat, 0 \in D, 1 \in D, NEW w \in Int
  PROVE  /\ Fits(<<Inst("SET_SCORE")>>, 1, D, 0)
         /\ Fits(<<Push(Number(w)), Inst("SET_SCORE")>>, 0, D, 0)
<1>1. Fits(<<Inst("SET_SCORE")>>, 1, D, 0)
  <2>1. Moves(Inst("SET_SCORE"), 1, 0)
    BY DEF Moves, Inst
  <2> QED
    BY <2>1, Single DEF Inst, Called, JumpOps
<1>2. Fits(<<Push(Number(w))>>, 0, D, 1)
  <2>1. Moves(Push(Number(w)), 0, 1)
    BY DEF Moves, Push
  <2> QED
    BY <2>1, Single DEF Push, Called, JumpOps
<1>3. <<Push(Number(w))>> \in Seq(Insts) /\ <<Inst("SET_SCORE")>> \in Seq(Insts)
  BY InstsAreInsts, Pairs
<1>4. Fits(<<Push(Number(w))>> \o <<Inst("SET_SCORE")>>, 0, D, 0)
  BY <1>1, <1>2, <1>3, Following
<1>5. <<Push(Number(w))>> \o <<Inst("SET_SCORE")>> = <<Push(Number(w)), Inst("SET_SCORE")>>
  BY OneAndOne, Zenon
<1> QED
  BY <1>1, <1>4, <1>5

\* The code of the score an action gives leaves the stack as it was.
LEMMA ScoreFits ==
  ASSUME NEW a \in ActionsOfRules, IsAction(a), NEW w \in Int, NEW D \in SUBSET Nat,
         0 \in D, 1 \in D, a.args # <<>> => Room(a.args[1], 0, D)
  PROVE  Fits(ScoreCode(a, w), 0, D, 0)
<1>1. CASE a.name = "score" /\ a.args # <<>>
  <2>1. a.args[1] \in Exprs
    BY <1>1 DEF IsAction
  <2>2. Fits(Code[a.args[1]], 0, D, 0 + 1)
    BY <1>1, <2>1, CodeFits
  <2>3. Code[a.args[1]] \in Seq(Insts) /\ Inst("SET_SCORE") \in Insts
        /\ <<Inst("SET_SCORE")>> \in Seq(Insts)
    BY <2>1, CodeUnfolds, InstsAreInsts, Pairs
  <2>4. 0 + 1 = 1
    OBVIOUS
  <2>5. Fits(Code[a.args[1]] \o <<Inst("SET_SCORE")>>, 0, D, 0)
    BY <2>2, <2>3, <2>4, Scoring, Following
  <2>6. ScoreCode(a, w) = Append(Code[a.args[1]], Inst("SET_SCORE"))
    BY <1>1 DEF ScoreCode
  <2> QED
    BY <2>3, <2>5, <2>6, AppendIsConcat
<1>2. CASE a.name = "fail_metric"
  <2>1. ReasonCode(a) \in Seq(Insts) /\ Fits(ReasonCode(a), 0, D, 0)
    <3> DEFINE x == FailMetric(a.args[2].value.data)
    <3>1. Fits(<<x>>, 0, D, 0)
      <4>1. Moves(x, 0, 0) /\ x.op \notin Called /\ x.op \notin JumpOps
        BY DEF Moves, FailMetric, Called, JumpOps
      <4> HIDE DEF x
      <4> QED
        BY <4>1, Single
    <3>2. Fits(<<>>, 0, D, 0)
      BY Nothing
    <3>3. <<x>> \in Seq(Insts) /\ <<>> \in Seq(Insts)
      BY InstsAreInsts, Pairs, EmptySeq
    <3>4. ReasonCode(a) = <<x>> \/ ReasonCode(a) = <<>>
      BY DEF ReasonCode
    <3> HIDE DEF x
    <3> QED
      BY <3>1, <3>2, <3>3, <3>4
  <2>2. <<Push(Number(0)), Inst("SET_SCORE")>> \in Seq(Insts)
    BY InstsAreInsts, Pairs
  <2>3. Fits(<<Push(Number(0)), Inst("SET_SCORE")>>, 0, D, 0)
    BY Scoring
  <2>4. Fits(<<Push(Number(0)), Inst("SET_SCORE")>> \o ReasonCode(a), 0, D, 0)
    BY <2>1, <2>2, <2>3, Following
  <2> QED
    BY <1>2, <2>4 DEF ScoreCode
<1>3. CASE ~(a.name = "score" /\ a.args # <<>>) /\ a.name # "fail_metric"
  BY <1>3, Scoring DEF ScoreCode
<1> QED
  BY <1>1, <1>2, <1>3

\* A case that does not match jumps over its action to the next one, and one that
\* does jumps over the rest.
LEMMA CaseFits ==
  ASSUME NEW c, IsCase(c), c.action \in ActionsOfRules, NEW w \in Int,
         NEW D \in SUBSET Nat, 0 \in D, 1 \in D, Room(c.condition, 0, D),
         ActionRoom(c.action, D),
         c.action.args # <<>> => Room(c.action.args[1], 0, D),
         NEW rest \in Seq(Insts), Fits(rest, 0, D, 0)
  PROVE  Fits(CaseCode(c, w, rest), 0, D, 0)
<1> DEFINE body == ActionCode(c.action) \o ScoreCode(c.action, w)
           pop == <<PopTop>>
           n == Len(body) + 3
           m == Len(rest) + 2
           jump == <<Jump(m)>>
           jumpIf == <<JumpIf(FALSE, n)>>
           cond == Code[c.condition]
<1>1. c.condition \in Exprs /\ IsAction(c.action)
  BY DEF IsCase
<1>2. body \in Seq(Insts) /\ Fits(body, 0, D, 0)
  <2>1. ActionCode(c.action) \in Seq(Insts) /\ ScoreCode(c.action, w) \in Seq(Insts)
    BY <1>1, ActionCodes, ScoreCodes
  <2>2. Fits(ActionCode(c.action), 0, D, 0) /\ Fits(ScoreCode(c.action, w), 0, D, 0)
    BY <1>1, ActionFits, ScoreFits
  <2> QED
    BY <2>1, <2>2, Following
<1>3. cond \in Seq(Insts) /\ Fits(cond, 0, D, 1)
  <2>1. Fits(cond, 0, D, 0 + 1) /\ 0 + 1 = 1
    BY <1>1, CodeFits
  <2> QED
    BY <1>1, <2>1, CodeUnfolds
<1>4. CaseCode(c, w, rest)
        = cond \o <<JumpIf(FALSE, n), PopTop>> \o body \o <<Jump(m), PopTop>> \o rest
  BY DEF CaseCode
<1>5. pop \in Seq(Insts) /\ Fits(pop, 1, D, 0) /\ Fits(pop, 0, D, 0) /\ Len(pop) = 1
      /\ pop[1].op \notin Called
  <2>1. Moves(PopTop, 1, 0) /\ Moves(PopTop, 0, 0) /\ PopTop.op \notin Called
        /\ PopTop.op \notin JumpOps
    BY DEF Moves, PopTop, Inst, Called, JumpOps
  <2> QED
    BY <2>1, Single, InstsAreInsts, Pairs
<1> HIDE DEF body, cond, pop
<1>6. Len(body) \in Nat /\ Len(rest) \in Nat /\ n \in Nat \ {0} /\ m \in Nat \ {0}
  BY <1>2, LenProperties
<1>7. jump \in Seq(Insts) /\ jumpIf \in Seq(Insts)
  <2> HIDE DEF n, m
  <2>1. Jump(m) \in Insts /\ JumpIf(FALSE, n) \in Insts
    BY <1>6, InstsAreInsts
  <2> QED
    BY <2>1, Pairs
<1> DEFINE t1 == pop \o rest
           t2 == jump \o t1
           t3 == body \o t2
           t4 == pop \o t3
           t5 == jumpIf \o t4
<1>8. t1 \in Seq(Insts) /\ Len(t1) + 1 = m /\ Fits(t1, 1, D, 0)
  <2>1. Len(t1) = Len(pop) + Len(rest)
    BY <1>5, ConcatProperties
  <2>2. t1 \in Seq(Insts) /\ Fits(t1, 1, D, 0)
    BY <1>5, Following
  <2> QED
    BY <1>5, <1>6, <2>1, <2>2
<1> HIDE DEF t1
<1>9. t2 \in Seq(Insts) /\ Enters(t2, 0, D, 0, 2, 1)
  <2>1. Enters(t1, 1, D, 0, m, 0)
    BY <1>8 DEF Fits
  <2> DEFINE x == Jump(m)
  <2>2. x \in {Jump(m), JumpIf(TRUE, m)} /\ x.op = "JMP"
    BY DEF Jump
  <2>3. Enters(<<x>> \o t1, 0, D, 0, 2, 1)
    <3> HIDE DEF x, m
    <3> QED
      BY <1>6, <1>8, <2>1, <2>2, Leaps
  <2>4. t2 \in Seq(Insts)
    <3> HIDE DEF jump
    <3> QED
      BY <1>7, <1>8, ConcatProperties
  <2> QED
    BY <2>3, <2>4
<1> HIDE DEF t2, jump
<1>10. t3 \in Seq(Insts) /\ Enters(t3, 0, D, 0, Len(body) + 2, 1)
  <2>1. t3 \in Seq(Insts)
    BY <1>2, <1>9, ConcatProperties
  <2> QED
    BY <1>2, <1>9, <2>1, Joined
<1> HIDE DEF t3
<1>11. t4 \in Seq(Insts) /\ Enters(t4, 0, D, 0, n, 1)
  <2>1. t4 \in Seq(Insts)
    BY <1>5, <1>10, ConcatProperties
  <2>2. Enters(t4, 0, D, 0, Len(pop) + (Len(body) + 2), 1)
    BY <1>5, <1>10, Joined
  <2>3. Len(pop) + (Len(body) + 2) = n
    BY <1>5, <1>6
  <2> QED
    BY <2>1, <2>2, <2>3
<1> HIDE DEF t4
<1>12. t5 \in Seq(Insts) /\ Fits(t5, 1, D, 0)
  <2> DEFINE x == JumpIf(FALSE, n)
  <2>1. x \in {Jump(n), JumpIf(FALSE, n)} /\ 1 <= 0 + 1
    OBVIOUS
  <2>2. Enters(<<x>> \o t4, 1, D, 0, 2, 0)
    <3> HIDE DEF x, n
    <3> QED
      BY <1>6, <1>11, <2>1, Leaps
  <2>3. t5 \in Seq(Insts)
    <3> HIDE DEF jumpIf
    <3> QED
      BY <1>7, <1>11, ConcatProperties
  <2> QED
    BY <2>2, <2>3, Entered
<1> HIDE DEF t5
<1>13. Fits(cond \o t5, 0, D, 0)
  BY <1>3, <1>12, Following
<1>14. CaseCode(c, w, rest) = cond \o t5
  <2> DEFINE u == <<JumpIf(FALSE, n), PopTop>>
             v == <<Jump(m), PopTop>>
  <2>1. u = jumpIf \o pop /\ v = jump \o pop
    BY OneAndOne, Zenon DEF jump, pop
  <2> HIDE DEF u, v, n, m, jumpIf
  <2>2. u \in Seq(Insts) /\ v \in Seq(Insts)
    BY <1>5, <1>7, <2>1, ConcatProperties
  <2>3. CaseCode(c, w, rest) = (((cond \o u) \o body) \o v) \o rest
    BY <1>4 DEF u, v
  <2>4. v \o rest = t2
    <3>0. jump \in Seq(Insts) /\ pop \in Seq(Insts) /\ rest \in Seq(Insts)
      BY <1>5, <1>7
    <3>1. (jump \o pop) \o rest = jump \o (pop \o rest)
      BY <3>0, Regrouped
    <3> QED
      BY <2>1, <3>1, Zenon DEF t1, t2
  <2>5. u \o t3 = t5
    <3>0. jumpIf \in Seq(Insts) /\ pop \in Seq(Insts) /\ t3 \in Seq(Insts)
      BY <1>5, <1>7, <1>10
    <3>1. (jumpIf \o pop) \o t3 = jumpIf \o (pop \o t3)
      BY <3>0, Regrouped
    <3> QED
      BY <2>1, <3>1, Zenon DEF t4, t5
  <2>6. cond \o u \in Seq(Insts) /\ (cond \o u) \o body \in Seq(Insts)
    BY <1>2, <1>3, <2>2, ConcatProperties
  <2>7. (((cond \o u) \o body) \o v) \o rest = ((cond \o u) \o body) \o (v \o rest)
    <3> DEFINE a == (cond \o u) \o body
    <3>1. a \in Seq(Insts) /\ v \in Seq(Insts) /\ rest \in Seq(Insts)
      BY <2>2, <2>6
    <3> HIDE DEF a
    <3>2. (a \o v) \o rest = a \o (v \o rest)
      BY <3>1, Regrouped
    <3> QED
      BY <3>2 DEF a
  <2>8. ((cond \o u) \o body) \o t2 = (cond \o u) \o (body \o t2)
    <3> DEFINE a == cond \o u
    <3>1. a \in Seq(Insts) /\ body \in Seq(Insts) /\ t2 \in Seq(Insts)
      BY <1>2, <1>9, <2>6
    <3> HIDE DEF a
    <3>2. (a \o body) \o t2 = a \o (body \o t2)
      BY <3>1, Regrouped
    <3> QED
      BY <3>2 DEF a
  <2>9. (cond \o u) \o t3 = cond \o (u \o t3)
    <3>1. cond \in Seq(Insts) /\ u \in Seq(Insts) /\ t3 \in Seq(Insts)
      BY <1>3, <1>10, <2>2
    <3> QED
      BY <3>1, Regrouped
  <2> QED
    BY <2>3, <2>4, <2>5, <2>7, <2>8, <2>9, Zenon DEF t3
<1> QED
  BY <1>13, <1>14

PlainRule(r) == \A e \in ConditionsOf(r) \cup ArgumentsOf(r) : Plain[e]

\* The depths of the stack while a rule is executed.
Depths(r) == IF PlainRule(r) THEN 0 .. StackOf(r) ELSE Nat

\* The first argument of an action, which gives the score.
LEMMA FirstArgument ==
  ASSUME NEW a, IsAction(a), a.args # <<>>
  PROVE  a.args[1] \in Exprs /\ 1 \in DOMAIN a.args /\ StackUsed[a.args[1]] <= ActionStack(a)
<1>1. a.args \in Seq(Exprs) /\ 1 \in DOMAIN a.args /\ a.args[1] \in Exprs
  BY DEF IsAction
<1>2. StackUsed[a.args[1]] + (1 - 1) <= ActionStack(a) /\ StackUsed[a.args[1]] \in Nat
  BY <1>1, ActionStacks, StackUsedPositive
<1> QED
  BY <1>1, <1>2

\* Conditions are expressions, and actions are actions.
LEMMA RulesAreMadeOf ==
  ASSUME NEW r \in Rules
  PROVE  /\ ConditionsOf(r) \subseteq Exprs
         /\ \A a \in ActionsOf(r) : IsAction(a) /\ a \in ActionsOfRules
<1>1. \A a \in ActionsOf(r) : a \in ActionsOfRules
  BY DEF ActionsOfRules
<1>2. CASE r.kind = "simple"
  BY <1>1, <1>2, SimpleRules DEF ConditionsOf, ActionsOf
<1>3. CASE r.kind = "metric"
  <2>1. ASSUME NEW m \in ToSet(r.metrics)
        PROVE  /\ IsAction(m.default)
               /\ \A c \in ToSet(m.cases) : c.condition \in Exprs /\ IsAction(c.action)
    <3>1. PICK i \in DOMAIN r.metrics : m = r.metrics[i]
      BY <2>1 DEF ToSet
    <3>2. Belongs(m)
      BY <1>3, <3>1, MetricsBelong
    <3>3. \A c \in ToSet(m.cases) : IsCase(c)
      BY <3>2 DEF Belongs, ToSet
    <3> QED
      BY <3>2, <3>3 DEF Belongs, IsMetric, IsCase
  <2>2. ConditionsOf(r) = UNION {{c.condition : c \in ToSet(m.cases)} : m \in ToSet(r.metrics)}
    BY <1>3 DEF ConditionsOf
  <2>3. ActionsOf(r)
          = UNION {{m.default} \cup {c.action : c \in ToSet(m.cases)} : m \in ToSet(r.metrics)}
    BY <1>3 DEF ActionsOf
  <2>4. ConditionsOf(r) \subseteq Exprs
    BY <2>1, <2>2
  <2>5. \A a \in ActionsOf(r) : IsAction(a)
    BY <2>1, <2>3
  <2> QED
    BY <1>1, <2>4, <2>5
<1> QED
  BY <1>2, <1>3, RulesAssumption

\* However many conditions and actions a rule has, one number bounds what they need.
LEMMA RulesAreBounded ==
  ASSUME NEW r \in Rules
  PROVE  \E k \in Nat : /\ \A e \in ConditionsOf(r) : StackUsed[e] <= k
                        /\ \A a \in ActionsOf(r) : ActionStack(a) <= k
<1>1. \A e \in ConditionsOf(r) : StackUsed[e] \in Nat
  BY RulesAreMadeOf, StackUsedPositive
<1>2. \A a \in ActionsOf(r) : ActionStack(a) \in Nat
  BY RulesAreMadeOf, ActionStacks
<1>3. CASE r.kind = "simple"
  <2>1. ConditionsOf(r) = {r.when} /\ ActionsOf(r) = {r.then}
    BY <1>3 DEF ConditionsOf, ActionsOf
  <2>2. StackUsed[r.when] \in Nat /\ ActionStack(r.then) \in Nat
    BY <1>1, <1>2, <2>1
  <2>3. PICK k \in Nat : StackUsed[r.when] <= k /\ ActionStack(r.then) <= k
    BY <2>2
  <2> QED
    BY <2>1, <2>3
<1>4. CASE r.kind = "metric"
  <2> DEFINE Bounds(m, k) == /\ ActionStack(m.default) <= k
                             /\ \A c \in ToSet(m.cases) :
                                  StackUsed[c.condition] <= k /\ ActionStack(c.action) <= k
             n == Len(r.metrics)
             high == [i \in 1 .. n |-> CHOOSE k \in Nat : Bounds(r.metrics[i], k)]
  <2>1. /\ n \in Nat /\ DOMAIN r.metrics = 1 .. n
        /\ \A i \in 1 .. n : Belongs(r.metrics[i])
    BY <1>4, MetricsBelong, LenProperties
  <2>2. ConditionsOf(r) = UNION {{c.condition : c \in ToSet(m.cases)} : m \in ToSet(r.metrics)}
    BY <1>4 DEF ConditionsOf
  <2>3. ActionsOf(r)
          = UNION {{m.default} \cup {c.action : c \in ToSet(m.cases)} : m \in ToSet(r.metrics)}
    BY <1>4 DEF ActionsOf
  <2>4. ASSUME NEW i \in 1 .. n PROVE \E k \in Nat : Bounds(r.metrics[i], k)
    <3> DEFINE m == r.metrics[i]
               l == Len(m.cases)
               w == [j \in 1 .. l |-> StackUsed[m.cases[j].condition] + ActionStack(m.cases[j].action)]
    <3>1. Belongs(m)
      BY <2>1
    <3> HIDE DEF m
    <3>2. l \in Nat /\ DOMAIN m.cases = 1 .. l
      BY <3>1, LenProperties DEF Belongs, IsMetric
    <3>3. \A j \in 1 .. l : /\ StackUsed[m.cases[j].condition] \in Nat
                            /\ ActionStack(m.cases[j].action) \in Nat
      BY <3>1, <3>2, StackUsedPositive, ActionStacks DEF Belongs, IsCase
    <3>4. w \in [1 .. l -> Nat]
      BY <3>3
    <3>5. PICK b \in Nat : \A j \in 1 .. l : w[j] <= b
      <4> HIDE DEF w, l
      <4> QED
        BY <3>2, <3>4, Bounded
    <3>6. \A j \in 1 .. l : StackUsed[m.cases[j].condition] <= b /\ ActionStack(m.cases[j].action) <= b
      <4> SUFFICES ASSUME NEW j \in 1 .. l
                   PROVE  StackUsed[m.cases[j].condition] <= b /\ ActionStack(m.cases[j].action) <= b
        OBVIOUS
      <4>1. w[j] <= b /\ w[j] = StackUsed[m.cases[j].condition] + ActionStack(m.cases[j].action)
        BY <3>5
      <4> QED
        BY <3>3, <4>1
    <3>7. ActionStack(m.default) \in Nat
      BY <3>1, ActionStacks DEF Belongs, IsMetric
    <3>8. PICK k \in Nat : b <= k /\ ActionStack(m.default) <= k
      BY <3>7
    <3>9. Bounds(m, k)
      <4>1. ASSUME NEW c \in ToSet(m.cases)
            PROVE  StackUsed[c.condition] <= k /\ ActionStack(c.action) <= k
        <5>1. PICK j \in 1 .. l : c = m.cases[j]
          BY <3>2 DEF ToSet
        <5> QED
          BY <3>3, <3>6, <3>8, <5>1
      <4> QED
        BY <3>8, <4>1
    <3> QED
      BY <3>9 DEF m
  <2> HIDE DEF Bounds
  <2>5. high \in [1 .. n -> Nat] /\ \A i \in 1 .. n : Bounds(r.metrics[i], high[i])
    BY <2>4
  <2>6. PICK k \in Nat : \A i \in 1 .. n : high[i] <= k
    <3> HIDE DEF high, n
    <3> QED
      BY <2>1, <2>5, Bounded
  <2> HIDE DEF high
  <2>7. ASSUME NEW m \in ToSet(r.metrics)
        PROVE  /\ ActionStack(m.default) <= k
               /\ \A c \in ToSet(m.cases) : StackUsed[c.condition] <= k /\ ActionStack(c.action) <= k
    <3>1. PICK i \in 1 .. n : m = r.metrics[i]
      BY <2>1 DEF ToSet
    <3>2. high[i] <= k /\ high[i] \in Nat /\ Bounds(m, high[i])
      BY <2>5, <2>6, <3>1
    <3>3. m.default \in ActionsOf(r)
          /\ \A c \in ToSet(m.cases) : c.condition \in ConditionsOf(r) /\ c.action \in ActionsOf(r)
      BY <2>2, <2>3
    <3> QED
      BY <1>1, <1>2, <3>2, <3>3 DEF Bounds
  <2>8. \A e \in ConditionsOf(r) : StackUsed[e] <= k
    BY <2>2, <2>7
  <2>9. \A a \in ActionsOf(r) : ActionStack(a) <= k
    BY <2>3, <2>7
  <2> QED
    BY <2>8, <2>9
<1> QED
  BY <1>3, <1>4, RulesAssumption

\* bc->max_stack covers every condition and every action of the rule.
LEMMA StacksOfRules ==
  ASSUME NEW r \in Rules
  PROVE  /\ StackOf(r) \in Nat \ {0}
         /\ \A e \in ConditionsOf(r) : StackUsed[e] <= StackOf(r)
         /\ \A a \in ActionsOf(r) : ActionStack(a) <= StackOf(r)
<1> DEFINE S == {StackUsed[e] : e \in ConditionsOf(r) \cup ScoresOf(r)}
                  \cup {ActionStack(a) : a \in ActionsOf(r)}
<1>1. PICK k \in Nat : /\ \A e \in ConditionsOf(r) : StackUsed[e] <= k
                       /\ \A a \in ActionsOf(r) : ActionStack(a) <= k
  BY RulesAreBounded
<1>2. \A a \in ActionsOf(r) : ActionStack(a) \in Nat \ {0}
  <2> SUFFICES ASSUME NEW a \in ActionsOf(r) PROVE ActionStack(a) \in Nat \ {0}
    OBVIOUS
  <2>1. IsAction(a)
    BY RulesAreMadeOf
  <2>2. ActionStack(a) \in Nat /\ Len(a.args) + 1 <= ActionStack(a) /\ Len(a.args) \in Nat
    BY <2>1, ActionStacks, LenProperties DEF IsAction
  <2> QED
    BY <2>2
<1>3. \A e \in ConditionsOf(r) : StackUsed[e] \in Nat
  BY RulesAreMadeOf, StackUsedPositive
<1>4. \A e \in ScoresOf(r) : StackUsed[e] \in Nat /\ StackUsed[e] <= k
  <2> SUFFICES ASSUME NEW e \in ScoresOf(r) PROVE StackUsed[e] \in Nat /\ StackUsed[e] <= k
    OBVIOUS
  <2>1. PICK a \in ActionsOf(r) : a.args # <<>> /\ e = a.args[1]
    BY DEF ScoresOf
  <2>2. e \in Exprs /\ StackUsed[e] <= ActionStack(a)
    BY <2>1, RulesAreMadeOf, FirstArgument
  <2>3. StackUsed[e] \in Nat /\ ActionStack(a) \in Nat /\ ActionStack(a) <= k
    BY <1>1, <1>2, <2>2, StackUsedPositive
  <2> QED
    BY <2>2, <2>3
<1>5. ActionsOf(r) # {}
  <2>1. CASE r.kind = "simple"
    BY <2>1 DEF ActionsOf
  <2>2. CASE r.kind = "metric"
    <3>1. r.metrics \in Seq(Range(r.metrics)) /\ r.metrics # <<>>
      BY <2>2, MetricsBelong
    <3>2. 1 \in DOMAIN r.metrics
      BY <3>1
    <3>3. r.metrics[1] \in ToSet(r.metrics)
      BY <3>2 DEF ToSet
    <3> QED
      BY <2>2, <3>3 DEF ActionsOf
  <2> QED
    BY <2>1, <2>2, RulesAssumption
<1>6. S \subseteq Nat /\ S # {} /\ \A s \in S : s <= k
  BY <1>1, <1>2, <1>3, <1>4, <1>5
<1>7. StackOf(r) = Max(S)
  BY DEF StackOf
<1>8. Max(S) \in Nat /\ \A s \in S : s <= Max(S)
  <2> HIDE DEF S
  <2> QED
    BY <1>6, Greatest
<1>9. \A a \in ActionsOf(r) : ActionStack(a) \in S
  OBVIOUS
<1>10. \A e \in ConditionsOf(r) : StackUsed[e] \in S
  OBVIOUS
<1> HIDE DEF S
<1> QED
  BY <1>2, <1>5, <1>7, <1>8, <1>9, <1>10

\* In a rule there is room for each of its conditions and actions.
LEMMA RoomInRules ==
  ASSUME NEW r \in Rules
  PROVE  /\ Depths(r) \in SUBSET Nat /\ 0 \in Depths(r) /\ 1 \in Depths(r)
         /\ \A e \in ConditionsOf(r) : Room(e, 0, Depths(r))
         /\ \A a \in ActionsOf(r) :
              /\ ActionRoom(a, Depths(r))
              /\ a.args # <<>> => Room(a.args[1], 0, Depths(r))
<1>1. StackOf(r) \in Nat \ {0}
  BY StacksOfRules
<1>2. CASE ~PlainRule(r)
  BY <1>2 DEF Depths, Room, ActionRoom
<1>3. CASE PlainRule(r)
  <2>1. Depths(r) = 0 .. StackOf(r)
    BY <1>3 DEF Depths
  <2>2. ASSUME NEW e \in ConditionsOf(r) PROVE Room(e, 0, Depths(r))
    <3>1. StackUsed[e] \in Nat /\ StackUsed[e] <= StackOf(r)
      BY RulesAreMadeOf, StackUsedPositive, StacksOfRules
    <3>2. 0 .. 0 + StackUsed[e] \subseteq Depths(r)
      BY <1>1, <2>1, <3>1
    <3> QED
      BY <1>3, <3>2 DEF PlainRule, Room
  <2>3. ASSUME NEW a \in ActionsOf(r)
        PROVE  /\ ActionRoom(a, Depths(r))
               /\ a.args # <<>> => Room(a.args[1], 0, Depths(r))
    <3>1. IsAction(a) /\ ActionStack(a) <= StackOf(r)
      BY RulesAreMadeOf, StacksOfRules
    <3>2. ActionStack(a) \in Nat
      BY <3>1, ActionStacks
    <3>3. \A i \in DOMAIN a.args : Plain[a.args[i]]
      BY <1>3 DEF PlainRule, ArgumentsOf, ToSet
    <3>4. 0 .. ActionStack(a) \subseteq Depths(r)
      BY <1>1, <2>1, <3>1, <3>2
    <3>5. ASSUME a.args # <<>> PROVE Room(a.args[1], 0, Depths(r))
      <4>1. a.args[1] \in Exprs /\ 1 \in DOMAIN a.args /\ StackUsed[a.args[1]] <= ActionStack(a)
        BY <3>1, <3>5, FirstArgument
      <4>2. StackUsed[a.args[1]] \in Nat
        BY <4>1, StackUsedPositive
      <4>3. 0 .. 0 + StackUsed[a.args[1]] \subseteq Depths(r)
        BY <1>1, <2>1, <3>1, <3>2, <4>1, <4>2
      <4> QED
        BY <3>3, <4>1, <4>3 DEF Room
    <3> QED
      BY <3>3, <3>4, <3>5 DEF ActionRoom
  <2>4. Depths(r) \in SUBSET Nat /\ 0 \in Depths(r) /\ 1 \in Depths(r)
    BY <1>1, <2>1
  <2> QED
    BY <2>2, <2>3, <2>4
<1> QED
  BY <1>2, <1>3

\* A metric leaves the stack as it was, whichever of its cases matches.
LEMMA MetricFits ==
  ASSUME NEW m, Belongs(m), NEW i \in Nat, NEW D \in SUBSET Nat, 0 \in D, 1 \in D,
         \A a \in {m.default} \cup {c.action : c \in ToSet(m.cases)} :
           ActionRoom(a, D) /\ (a.args # <<>> => Room(a.args[1], 0, D)),
         \A c \in ToSet(m.cases) : Room(c.condition, 0, D)
  PROVE  Fits(MetricCode(i, m), 0, D, 0)
<1> DEFINE n == Len(m.cases)
<1>1. n \in Nat /\ DOMAIN m.cases = 1 .. n /\ IsAction(m.default) /\ m.weight \in Int
      /\ m.default \in ActionsOfRules
  BY LenProperties DEF Belongs, IsMetric
<1>0. PICK f : FromCase(f, m, i)
  BY MetricUnfolds
<1>2. /\ f \in [1 .. n + 1 -> Seq(Insts)]
      /\ f[n + 1] = ActionCode(m.default) \o ScoreCode(m.default, 0)
      /\ \A k \in 1 .. n : f[k] = CaseCode(m.cases[k], m.weight, f[k + 1])
      /\ MetricCode(i, m) = <<MetricStart(i)>> \o f[1]
  BY <1>0 DEF FromCase
<1> HIDE DEF n
<1> DEFINE S == {k \in 1 .. n + 1 : Fits(f[k], 0, D, 0)}
<1>3. n + 1 \in S
  <2>1. Fits(ActionCode(m.default), 0, D, 0) /\ Fits(ScoreCode(m.default, 0), 0, D, 0)
    BY <1>1, ActionFits, ScoreFits
  <2>2. ActionCode(m.default) \in Seq(Insts) /\ ScoreCode(m.default, 0) \in Seq(Insts)
    BY <1>1, ActionCodes, ScoreCodes
  <2>3. Fits(f[n + 1], 0, D, 0)
    BY <1>2, <2>1, <2>2, Following
  <2> QED
    BY <1>1, <2>3
<1>4. ASSUME NEW k \in 1 .. n, k + 1 \in S PROVE k \in S
  <2>1. f[k + 1] \in Seq(Insts) /\ Fits(f[k + 1], 0, D, 0)
    BY <1>2, <1>4
  <2> DEFINE c == m.cases[k]
  <2>2. IsCase(c) /\ c.action \in ActionsOfRules /\ c \in ToSet(m.cases)
    BY <1>1 DEF Belongs, ToSet
  <2> HIDE DEF c
  <2>3. /\ Room(c.condition, 0, D) /\ ActionRoom(c.action, D)
        /\ c.action.args # <<>> => Room(c.action.args[1], 0, D)
    BY <2>2
  <2>4. Fits(CaseCode(c, m.weight, f[k + 1]), 0, D, 0)
    BY <1>1, <2>1, <2>2, <2>3, CaseFits
  <2>5. f[k] = CaseCode(c, m.weight, f[k + 1]) /\ k \in 1 .. n + 1
    BY <1>1, <1>2 DEF c
  <2> QED
    BY <2>4, <2>5
<1>5. 1 \in S
  <2>1. \A k \in 1 .. n + 1 : k \in S
    <3> HIDE DEF S
    <3> QED
      BY <1>1, <1>3, <1>4, Downwards
  <2>2. 1 \in 1 .. n + 1
    BY <1>1
  <2> QED
    BY <2>1, <2>2
<1>6. <<MetricStart(i)>> \in Seq(Insts) /\ f[1] \in Seq(Insts)
  BY <1>2, <1>5, InstsAreInsts, Pairs
<1>7. Fits(<<MetricStart(i)>>, 0, D, 0)
  <2>1. Moves(MetricStart(i), 0, 0)
    BY DEF Moves, MetricStart
  <2> QED
    BY <2>1, Single DEF MetricStart, Called, JumpOps
<1>8. Fits(<<MetricStart(i)>> \o f[1], 0, D, 0)
  BY <1>5, <1>6, <1>7, Following
<1> QED
  BY <1>2, <1>8

\* What ends the code of a rule.
Stops == {Inst("RET"), Inst("RULE_END")}

\* The code of a rule keeps within its depths up to the instruction that ends it.
LEMMA RuleFits ==
  ASSUME NEW r \in Rules
  PROVE  \E c \in Seq(Insts), x \in Stops, n \in Nat :
           CodeOf(r) = c \o <<x>> /\ Fits(c, 0, Depths(r), n)
<1> DEFINE D == Depths(r)
<1>1. /\ D \in SUBSET Nat /\ 0 \in D /\ 1 \in D
      /\ \A e \in ConditionsOf(r) : Room(e, 0, D)
      /\ \A a \in ActionsOf(r) : ActionRoom(a, D) /\ (a.args # <<>> => Room(a.args[1], 0, D))
  BY RoomInRules
<1> HIDE DEF D
<1>2. CASE r.kind = "simple"
  <2> DEFINE cond == Code[r.when]
             act == ActionCode(r.then)
             n == Len(act) + 2
             yes == <<Push(Bool(TRUE))>>
             ret == <<Inst("RET")>>
             jumpIf == <<JumpIf(FALSE, n)>>
             t1 == act \o yes
             t2 == jumpIf \o t1
             c == cond \o t2
  <2>1. r.when \in Exprs /\ IsAction(r.then) /\ r.then \in ActionsOfRules
        /\ r.when \in ConditionsOf(r) /\ r.then \in ActionsOf(r)
    BY <1>2, SimpleRules DEF ConditionsOf, ActionsOf
  <2>2. cond \in Seq(Insts) /\ Fits(cond, 0, D, 1)
    <3>1. Fits(cond, 0, D, 0 + 1) /\ 0 + 1 = 1
      BY <1>1, <2>1, CodeFits
    <3> QED
      BY <2>1, <3>1, CodeUnfolds
  <2>3. act \in Seq(Insts) /\ Fits(act, 0, D, 0)
    BY <1>1, <2>1, ActionCodes, ActionFits
  <2>4. yes \in Seq(Insts) /\ Fits(yes, 0, D, 1) /\ Len(yes) = 1
    <3>1. Moves(Push(Bool(TRUE)), 0, 1)
      BY DEF Moves, Push
    <3>2. Fits(yes, 0, D, 1)
      BY <1>1, <3>1, Single DEF Push, Called, JumpOps
    <3> QED
      BY <3>2, InstsAreInsts, Pairs
  <2>5. CodeOf(r) = cond \o jumpIf \o act \o <<Push(Bool(TRUE)), Inst("RET")>>
    BY <1>2 DEF CodeOf
  <2>6. ret \in Seq(Insts)
    BY InstsAreInsts, Pairs
  <2>7. <<Push(Bool(TRUE)), Inst("RET")>> = yes \o ret
    BY OneAndOne, Zenon
  <2> HIDE DEF cond, act, yes, ret
  <2>8. Len(act) \in Nat /\ n \in Nat \ {0}
    BY <2>3, LenProperties
  <2>9. jumpIf \in Seq(Insts)
    <3> HIDE DEF n
    <3>1. JumpIf(FALSE, n) \in Insts
      BY <2>8, InstsAreInsts
    <3> QED
      BY <3>1, Pairs
  <2>10. t1 \in Seq(Insts) /\ Fits(t1, 0, D, 1) /\ Len(t1) + 1 = n
    <3>1. Len(t1) = Len(act) + Len(yes)
      BY <2>3, <2>4, ConcatProperties
    <3>2. t1 \in Seq(Insts) /\ Fits(t1, 0, D, 1)
      BY <2>3, <2>4, Following
    <3> QED
      BY <2>4, <2>8, <3>1, <3>2
  <2> HIDE DEF t1
  <2>11. t2 \in Seq(Insts) /\ Fits(t2, 1, D, 1)
    <3> DEFINE x == JumpIf(FALSE, n)
    <3>1. x \in {Jump(n), JumpIf(FALSE, n)} /\ 1 <= 0 + 1
      OBVIOUS
    <3>2. Enters(t1, 0, D, 1, n, 1)
      BY <2>10 DEF Fits
    <3>3. Enters(<<x>> \o t1, 1, D, 1, 2, 0)
      <4> HIDE DEF x, n
      <4> QED
        BY <1>1, <2>8, <2>10, <3>1, <3>2, Leaps
    <3>4. t2 \in Seq(Insts)
      <4> HIDE DEF jumpIf
      <4> QED
        BY <2>9, <2>10, ConcatProperties
    <3> QED
      BY <3>3, <3>4, Entered
  <2> HIDE DEF jumpIf, t2
  <2>12. c \in Seq(Insts) /\ Fits(c, 0, D, 1)
    BY <2>2, <2>11, Following
  <2>13. CodeOf(r) = c \o ret
    <3>1. cond \o jumpIf \in Seq(Insts) /\ (cond \o jumpIf) \o act \in Seq(Insts)
      BY <2>2, <2>3, <2>9, ConcatProperties
    <3>2. CodeOf(r) = ((cond \o jumpIf) \o act) \o (yes \o ret)
      BY <2>5, <2>7
    <3>3. ((cond \o jumpIf) \o act) \o (yes \o ret) = (((cond \o jumpIf) \o act) \o yes) \o ret
      BY <2>4, <2>6, <3>1, Regrouped
    <3>4. ((cond \o jumpIf) \o act) \o yes = (cond \o jumpIf) \o t1
      BY <2>3, <2>4, <3>1, Regrouped DEF t1
    <3>5. (cond \o jumpIf) \o t1 = cond \o (jumpIf \o t1)
      BY <2>2, <2>9, <2>10, Regrouped
    <3> QED
      BY <3>2, <3>3, <3>4, <3>5, Zenon DEF t2
  <2> HIDE DEF c
  <2>14. ret = <<Inst("RET")>> /\ Inst("RET") \in Stops
    BY DEF ret, Stops
  <2> QED
    BY <2>12, <2>13, <2>14 DEF D
<1>3. CASE r.kind = "metric"
  <2> DEFINE q == [i \in DOMAIN r.metrics |-> MetricCode(i, r.metrics[i])]
             h == [i \in 0 .. Len(r.metrics) |-> 0]
             V == Seq(Insts)
             c == FlattenSeq(q)
  <2>1. r.metrics \in Seq(Range(r.metrics)) /\ \A i \in DOMAIN r.metrics : Belongs(r.metrics[i])
    BY <1>3, MetricsBelong
  <2>2. DOMAIN r.metrics = 1 .. Len(r.metrics) /\ Len(r.metrics) \in Nat
    BY <2>1, LenProperties
  <2>3. \A i \in DOMAIN r.metrics : MetricCode(i, r.metrics[i]) \in V
    BY <2>1, <2>2, MetricCodes
  <2>4. q \in Seq(V) /\ Len(q) = Len(r.metrics)
    <3> HIDE DEF V
    <3>1. q \in [1 .. Len(r.metrics) -> V] /\ DOMAIN q = 1 .. Len(r.metrics)
      BY <2>2, <2>3
    <3> HIDE DEF q
    <3>2. q \in Seq(V)
      BY <2>2, <3>1, IsASeq
    <3> QED
      BY <2>2, <3>1, <3>2, LenProperties
  <2>5. q \in Seq(Seq(Insts))
    BY <2>4
  <2>6. ASSUME NEW i \in 1 .. Len(r.metrics) PROVE Fits(q[i], 0, D, 0)
    <3> DEFINE m == r.metrics[i]
    <3>1. Belongs(m) /\ i \in Nat /\ m \in ToSet(r.metrics)
      BY <2>1, <2>2 DEF ToSet
    <3>2. q[i] = MetricCode(i, m)
      BY <2>2
    <3> HIDE DEF m, q
    <3>3. {m.default} \cup {x.action : x \in ToSet(m.cases)} \subseteq ActionsOf(r)
      BY <1>3, <3>1 DEF ActionsOf
    <3>4. \A x \in ToSet(m.cases) : x.condition \in ConditionsOf(r)
      BY <1>3, <3>1 DEF ConditionsOf
    <3>5. \A a \in {m.default} \cup {x.action : x \in ToSet(m.cases)} :
            ActionRoom(a, D) /\ (a.args # <<>> => Room(a.args[1], 0, D))
      BY <1>1, <3>3
    <3>6. \A x \in ToSet(m.cases) : Room(x.condition, 0, D)
      BY <1>1, <3>4
    <3> QED
      BY <1>1, <3>1, <3>2, <3>5, <3>6, MetricFits
  <2>7. h \in [0 .. Len(q) -> D] /\ \A i \in 0 .. Len(q) : h[i] = 0
    BY <1>1, <2>4
  <2> HIDE DEF h, q, V
  <2>8. \A i \in 1 .. Len(q) : Fits(q[i], h[i - 1], D, h[i])
    <3> SUFFICES ASSUME NEW i \in 1 .. Len(q) PROVE Fits(q[i], h[i - 1], D, h[i])
      OBVIOUS
    <3>1. i \in 0 .. Len(q) /\ i - 1 \in 0 .. Len(q)
      BY <2>2, <2>4
    <3>2. h[i] = 0 /\ h[i - 1] = 0
      BY <2>7, <3>1
    <3> QED
      BY <2>4, <2>6, <3>2
  <2>9. Fits(FlattenSeq(q), h[0], D, h[Len(q)])
    BY <2>5, <2>7, <2>8, SequenceFits
  <2>10. h[0] = 0 /\ h[Len(q)] = 0
    <3>1. 0 \in 0 .. Len(q) /\ Len(q) \in 0 .. Len(q)
      BY <2>2, <2>4
    <3> QED
      BY <2>7, <3>1
  <2>11. c \in Seq(Insts) /\ Fits(c, 0, D, 0)
    <3>1. c \in Seq(Insts)
      BY <2>5, FlattenIn, Zenon
    <3> QED
      BY <2>9, <2>10, <3>1
  <2>12. CodeOf(r) = c \o <<Inst("RULE_END")>>
    BY <1>3 DEF CodeOf, q
  <2> HIDE DEF c
  <2>13. Inst("RULE_END") \in Stops
    BY DEF Stops
  <2> QED
    BY <2>11, <2>12, <2>13 DEF D
<1> QED
  BY <1>2, <1>3, RulesAssumption

(***************************************************************************)
(* The stack machine.                                                      *)
(***************************************************************************)
IsStack(s) == \E V : s \in Seq(V)

\* Values are taken from the stack, or all there are.
LEMMA TakenOff ==
  ASSUME NEW s, IsStack(s), NEW n \in Nat
  PROVE  /\ IsStack(Below(s, n)) /\ Len(s) \in Nat
         /\ Len(Below(s, n)) = IF n <= Len(s) THEN Len(s) - n ELSE 0
<1>1. PICK V : s \in Seq(V)
  BY DEF IsStack
<1>2. Len(s) \in Nat /\ \A i \in 1 .. Len(s) - n : s[i] \in V
  BY <1>1, LenProperties, ElementOfSeq
<1>3. Below(s, n) \in Seq(V) /\ Len(Below(s, n)) = IF 1 <= Len(s) - n THEN (Len(s) - n) - 1 + 1 ELSE 0
  BY <1>2, SubSeqProperties DEF Below
<1> QED
  BY <1>2, <1>3 DEF IsStack

\* A value is put on the stack.
LEMMA PutOn ==
  ASSUME NEW s, IsStack(s), NEW v
  PROVE  /\ IsStack(Append(s, v)) /\ Len(Append(s, v)) = Len(s) + 1 /\ Len(s) \in Nat
         /\ Append(s, v) # <<>> /\ Last(Append(s, v)) = v
<1>1. PICK V : s \in Seq(V)
  BY DEF IsStack
<1> DEFINE W == V \cup {v}
<1>2. s \in Seq(W) /\ v \in W
  BY <1>1
<1> HIDE DEF W
<1>3. /\ Append(s, v) \in Seq(W) /\ Append(s, v) # <<>>
      /\ Len(Append(s, v)) = Len(s) + 1 /\ Len(s) \in Nat
      /\ Append(s, v)[Len(s) + 1] = v
  BY <1>2, AppendProperties, LenProperties
<1> QED
  BY <1>3 DEF IsStack, Last

\* The empty stack.
LEMMA NothingOn == IsStack(<<>>) /\ Len(<<>>) = 0
<1>1. <<>> \in Seq({}) /\ Len(<<>>) = 0
  BY EmptySeq
<1> QED
  BY <1>1 DEF IsStack

\* The machine is to execute instruction i of c, which is followed by x alone, with
\* the stack s that b allows there.
Stands(c, b, i, s) ==
  /\ i \in 1 .. Len(c) + 1
  /\ IsStack(s) /\ Len(s) <= b[i]
  /\ i <= Len(c) /\ c[i].op \in Called => s # <<>> /\ Last(s) = c[i - 1].value

Sound(c, b, D) ==
  /\ c \in Seq(Insts) /\ D \subseteq Nat /\ b \in [1 .. Len(c) + 1 -> D]
  /\ \A i \in 1 .. Len(c) : Allows(c, b, i)

\* An instruction of sound code, and the depths before and after it.
LEMMA OnTheWay ==
  ASSUME NEW c, NEW b, NEW D, Sound(c, b, D), NEW i \in 1 .. Len(c)
  PROVE  /\ Len(c) \in Nat /\ i \in Nat /\ i + 1 \in 1 .. Len(c) + 1
         /\ b[i] \in Nat /\ b[i + 1] \in Nat /\ c[i] \in Insts /\ Allows(c, b, i)
<1>1. /\ c \in Seq(Insts) /\ D \subseteq Nat /\ b \in [1 .. Len(c) + 1 -> D]
      /\ \A j \in 1 .. Len(c) : Allows(c, b, j)
  BY DEF Sound
<1>2. Len(c) \in Nat /\ c[i] \in Insts
  BY <1>1, LenProperties, ElementOfSeq
<1>3. i \in Nat /\ i \in 1 .. Len(c) + 1 /\ i + 1 \in 1 .. Len(c) + 1
  BY <1>2
<1>4. b[i] \in D /\ b[i + 1] \in D
  BY <1>1, <1>3
<1> QED
  BY <1>1, <1>2, <1>3, <1>4

\* The machine goes on to the next instruction, which it may find a number on the
\* stack for.
LEMMA GoesOn ==
  ASSUME NEW c, NEW b, NEW D, Sound(c, b, D), NEW i \in 1 .. Len(c),
         NEW t, IsStack(t), Len(t) <= b[i + 1],
         c[i].op = "PUSH" => t # <<>> /\ Last(t) = c[i].value
  PROVE  Stands(c, b, i + 1, t)
<1>1. Len(c) \in Nat /\ i \in Nat /\ i + 1 \in 1 .. Len(c) + 1 /\ (i + 1) - 1 = i
  BY OnTheWay
<1>2. ASSUME i + 1 <= Len(c), c[i + 1].op \in Called
      PROVE  t # <<>> /\ Last(t) = c[(i + 1) - 1].value
  <2>1. i + 1 \in 1 .. Len(c)
    BY <1>1, <1>2
  <2>2. Allows(c, b, i + 1)
    BY <2>1, OnTheWay
  <2>3. PICK k \in Nat : c[(i + 1) - 1] = Push(Number(k))
    BY <1>2, <2>2 DEF Allows
  <2>4. c[i].op = "PUSH"
    BY <1>1, <2>3 DEF Push
  <2> QED
    BY <1>1, <2>4
<1> QED
  BY <1>1, <1>2 DEF Stands

\* The machine jumps forward, to an instruction of the code or to what follows it.
LEMMA JumpsOn ==
  ASSUME NEW c, NEW b, NEW D, Sound(c, b, D), NEW i \in 1 .. Len(c),
         NEW s, Stands(c, b, i, s), c[i].op \in JumpOps
  PROVE  Stands(c, b, i + c[i].offset, s) /\ c[i].offset \in Nat \ {0}
<1> DEFINE j == i + c[i].offset
<1>1. c[i] \in Insts /\ Allows(c, b, i) /\ b[i] \in Nat
  BY OnTheWay
<1>2. c[i].offset \in Nat \ {0}
  BY <1>1, JumpsLeadForward DEF JumpOps
<1>3. j \in 1 .. Len(c) + 1 /\ b[i] <= b[j] /\ (j <= Len(c) => c[j].op \notin Called)
  BY <1>1 DEF Allows, Lands
<1>4. IsStack(s) /\ Len(s) <= b[i] /\ Len(s) \in Nat
  BY TakenOff DEF Stands
<1>5. b[j] \in Nat
  BY <1>3 DEF Sound
<1>6. Len(s) <= b[j]
  <2> HIDE DEF j
  <2> QED
    BY <1>1, <1>3, <1>4, <1>5
<1> QED
  BY <1>2, <1>3, <1>4, <1>6 DEF Stands

\* What an instruction is executed on.
LEMMA AtInstruction ==
  ASSUME NEW c, NEW x \in Stops, NEW b, NEW D, Sound(c, b, D), code = c \o <<x>>,
         Stands(c, b, ip, stack), NEW ops, "RET" \notin ops, "RULE_END" \notin ops, Executing(ops)
  PROVE  /\ ip \in 1 .. Len(c) /\ code[ip] = c[ip] /\ c[ip].op \in ops
         /\ c[ip] \in Insts /\ Moves(c[ip], b[ip], b[ip + 1])
         /\ b[ip] \in Nat /\ b[ip + 1] \in Nat /\ ip \in Nat
         /\ IsStack(stack) /\ Len(stack) \in Nat /\ Len(stack) <= b[ip]
<1>1. c \in Seq(Insts) /\ Len(c) \in Nat /\ ip \in 1 .. Len(c) + 1 /\ code[ip].op \in ops
  BY LenProperties DEF Sound, Stands, Executing
<1>2. x.op \in {"RET", "RULE_END"}
  BY DEF Stops, Inst
<1>3. ip # Len(c) + 1
  <2> SUFFICES ASSUME ip = Len(c) + 1 PROVE code[ip] = x
    BY <1>1, <1>2
  <2> DEFINE W == Insts \cup {x}
  <2>1. c \in Seq(W) /\ <<x>> \in Seq(W) /\ Len(<<x>>) = 1 /\ <<x>>[1] = x
    BY <1>1
  <2> HIDE DEF W
  <2>2. \A i \in 1 .. Len(c) + 1 : (c \o <<x>>)[i] = IF i <= Len(c) THEN c[i] ELSE <<x>>[i - Len(c)]
    BY <2>1, ConcatProperties
  <2> QED
    BY <1>1, <2>1, <2>2
<1>4. ip \in 1 .. Len(c)
  BY <1>1, <1>3
<1>5. code[ip] = c[ip]
  BY <1>1, <1>4
<1>6. Allows(c, b, ip) /\ c[ip] \in Insts /\ b[ip] \in Nat /\ b[ip + 1] \in Nat /\ ip \in Nat
  BY <1>4, OnTheWay
<1>7. IsStack(stack) /\ Len(stack) \in Nat /\ Len(stack) <= b[ip]
  BY TakenOff DEF Stands
<1> QED
  BY <1>1, <1>4, <1>5, <1>6, <1>7 DEF Allows

\* A value is pushed on what is left of the stack.
LEMMA Pushes ==
  ASSUME NEW s, IsStack(s), NEW v, NEW failing, PushOn(s, v, failing), mode' = "run"
  PROVE  /\ IsStack(stack') /\ Len(stack') = Len(s) + 1 /\ Len(s) \in Nat
         /\ stack' # <<>> /\ Last(stack') = v /\ ip' = ip + 1
<1>1. stack' = Append(s, v) /\ ip' = ip + 1
  BY DEF PushOn, Abort
<1> QED
  BY <1>1, PutOn

\* An array is made of a number of items.
LEMMA CountsPushed == \A x \in Insts : x.op = "PUSH_ARRAY" => x.count \in Nat
<1>1. \A x \in Jumps : x.op # "PUSH_ARRAY"
  BY DEF Jumps, Jump, JumpIf
<1>2. \A x \in Straight : x.op = "PUSH_ARRAY" => x.count \in Nat
  BY DEF Straight, Push, PushVar, PushArray, Operate, CallOp, ActionOp, FailMetric,
         MetricStart, Inst
<1> QED
  BY <1>1, <1>2 DEF Insts

\* What is called finds the number of its arguments on top of the stack.
LEMMA Calls ==
  ASSUME NEW c, NEW b, NEW D, Sound(c, b, D), NEW i \in 1 .. Len(c), NEW s, Stands(c, b, i, s),
         c[i].op \in Called
  PROVE  \E k \in Nat : Top(s).data = k /\ Takes(c[i].op, k, b[i], b[i + 1])
<1>1. Allows(c, b, i) /\ i <= Len(c)
  BY OnTheWay
<1>2. PICK k \in Nat : c[i - 1] = Push(Number(k)) /\ Takes(c[i].op, k, b[i], b[i + 1])
  BY <1>1 DEF Allows
<1>3. s # <<>> /\ Last(s) = c[i - 1].value
  BY <1>1 DEF Stands
<1>4. Top(s) = Number(k)
  BY <1>2, <1>3 DEF Top, Push
<1>5. Number(k).data = k
  BY DEF Number, Value
<1> QED
  BY <1>2, <1>4, <1>5

\* As long as the machine runs, an instruction takes it forward to where it may stand.
LEMMA Onward ==
  ASSUME NEW c, NEW x \in Stops, NEW b, NEW D, Sound(c, b, D), code = c \o <<x>>,
         Stands(c, b, ip, stack), mode = "run", Execute, mode' = "run"
  PROVE  code' = code /\ Stands(c, b, ip', stack') /\ ip' > ip
<1>1. ip \in Nat
  BY LenProperties DEF Stands, Sound
<1>2. CASE ExecPush
  <2>1. /\ ip \in 1 .. Len(c) /\ code[ip] = c[ip] /\ c[ip].op \in {"PUSH", "PUSH_VAR"}
        /\ Moves(c[ip], b[ip], b[ip + 1]) /\ b[ip] \in Nat /\ b[ip + 1] \in Nat
        /\ IsStack(stack) /\ Len(stack) \in Nat /\ Len(stack) <= b[ip]
    <3>1. Executing({"PUSH", "PUSH_VAR"})
      BY <1>2 DEF ExecPush
    <3> QED
      BY <3>1, AtInstruction
  <2> DEFINE v == IF code[ip].op = "PUSH" THEN code[ip].value ELSE Lookup(code[ip].name)
  <2>2. PushOn(stack, v, error) /\ code' = code
    BY <1>2 DEF ExecPush
  <2>3. c[ip].op = "PUSH" => v = c[ip].value
    BY <2>1
  <2> HIDE DEF v
  <2>4. /\ IsStack(stack') /\ Len(stack') = Len(stack) + 1
        /\ stack' # <<>> /\ Last(stack') = v /\ ip' = ip + 1
    BY <2>1, <2>2, Pushes
  <2>5. Len(stack') <= b[ip + 1]
    BY <2>1, <2>4 DEF Moves
  <2>6. Stands(c, b, ip + 1, stack')
    BY <2>1, <2>3, <2>4, <2>5, GoesOn
  <2> QED
    BY <1>1, <2>2, <2>4, <2>6
<1>3. CASE ExecArray
  <2>1. /\ ip \in 1 .. Len(c) /\ code[ip] = c[ip] /\ c[ip].op = "PUSH_ARRAY" /\ c[ip] \in Insts
        /\ Moves(c[ip], b[ip], b[ip + 1]) /\ b[ip] \in Nat /\ b[ip + 1] \in Nat
        /\ IsStack(stack) /\ Len(stack) \in Nat /\ Len(stack) <= b[ip]
    <3>1. Executing({"PUSH_ARRAY"})
      BY <1>3 DEF ExecArray
    <3> QED
      BY <3>1, AtInstruction
  <2> DEFINE n == c[ip].count
             t == Below(stack, n)
  <2>2. (\E v : PushOn(t, v, error \/ Len(stack) < n)) /\ code' = code
    BY <1>3, <2>1 DEF ExecArray
  <2>3. n \in Nat
    BY <2>1, CountsPushed
  <2>4. IsStack(t) /\ Len(t) = IF n <= Len(stack) THEN Len(stack) - n ELSE 0
    BY <2>1, <2>3, TakenOff
  <2> HIDE DEF t
  <2>5. IsStack(stack') /\ Len(stack') = Len(t) + 1 /\ ip' = ip + 1
    BY <2>2, <2>4, Pushes
  <2>6. b[ip] + 1 <= b[ip + 1] + n /\ 1 <= b[ip + 1]
    BY <2>1 DEF Moves
  <2> HIDE DEF n
  <2>7. Len(stack') <= b[ip + 1]
    <3>1. Len(stack) <= b[ip] /\ Len(stack) \in Nat /\ b[ip] \in Nat /\ b[ip + 1] \in Nat
      BY <2>1
    <3>2. Len(stack') = (IF n <= Len(stack) THEN Len(stack) - n ELSE 0) + 1
      BY <2>4, <2>5
    <3> QED
      BY <2>3, <2>6, <3>1, <3>2
  <2>8. Stands(c, b, ip + 1, stack')
    BY <2>1, <2>5, <2>7, GoesOn
  <2> QED
    BY <1>1, <2>2, <2>5, <2>8
<1>4. CASE ExecPop
  <2>1. /\ ip \in 1 .. Len(c) /\ c[ip].op = "POP"
        /\ Moves(c[ip], b[ip], b[ip + 1]) /\ b[ip] \in Nat /\ b[ip + 1] \in Nat
        /\ IsStack(stack) /\ Len(stack) \in Nat /\ Len(stack) <= b[ip]
    <3>1. Executing({"POP"})
      BY <1>4 DEF ExecPop
    <3> QED
      BY <3>1, AtInstruction
  <2>2. stack' = Below(stack, 1) /\ ip' = ip + 1 /\ code' = code
    BY <1>4 DEF ExecPop
  <2>3. IsStack(stack') /\ Len(stack') = IF 1 <= Len(stack) THEN Len(stack) - 1 ELSE 0
    BY <2>1, <2>2, TakenOff
  <2>4. Len(stack') <= b[ip + 1]
    BY <2>1, <2>3 DEF Moves
  <2>5. Stands(c, b, ip + 1, stack')
    BY <2>1, <2>3, <2>4, GoesOn
  <2> QED
    BY <1>1, <2>2, <2>5
<1>5. CASE ExecOperate
  <2>1. /\ ip \in 1 .. Len(c) /\ code[ip] = c[ip] /\ c[ip].op = "OPERATE"
        /\ Moves(c[ip], b[ip], b[ip + 1]) /\ b[ip] \in Nat /\ b[ip + 1] \in Nat
        /\ IsStack(stack) /\ Len(stack) \in Nat /\ Len(stack) <= b[ip]
    <3>1. Executing({"OPERATE"})
      BY <1>5 DEF ExecOperate
    <3> QED
      BY <3>1, AtInstruction
  <2> DEFINE n == Operands(c[ip].operator)
             t == Below(stack, n)
  <2>2. Len(stack) >= n /\ (\E v : PushOn(t, v, FALSE)) /\ code' = code
    BY <1>5, <2>1 DEF ExecOperate, Abort
  <2>3. n \in Nat
    BY DEF Operands
  <2>4. IsStack(t) /\ Len(t) = IF n <= Len(stack) THEN Len(stack) - n ELSE 0
    BY <2>1, <2>3, TakenOff
  <2> HIDE DEF t
  <2>5. IsStack(stack') /\ Len(stack') = Len(t) + 1 /\ ip' = ip + 1
    BY <2>2, <2>4, Pushes
  <2>6. b[ip] + 1 <= b[ip + 1] + n
    BY <2>1 DEF Moves
  <2> HIDE DEF n
  <2>7. Len(stack') <= b[ip + 1]
    BY <2>1, <2>2, <2>3, <2>4, <2>5, <2>6
  <2>8. Stands(c, b, ip + 1, stack')
    BY <2>1, <2>5, <2>7, GoesOn
  <2> QED
    BY <1>1, <2>2, <2>5, <2>8
<1>6. CASE ExecCall
  <2>1. /\ ip \in 1 .. Len(c) /\ c[ip].op = "CALL" /\ b[ip] \in Nat /\ b[ip + 1] \in Nat
        /\ IsStack(stack) /\ Len(stack) \in Nat /\ Len(stack) <= b[ip]
    <3>1. Executing({"CALL"})
      BY <1>6 DEF ExecCall
    <3> QED
      BY <3>1, AtInstruction
  <2>2. PICK k \in Nat : Arguments = k /\ Takes(c[ip].op, k, b[ip], b[ip + 1])
    BY <2>1, Calls DEF Called, Arguments
  <2> DEFINE n == 1 + k
  <2>9. n \in Nat
    BY <2>2
  <2> DEFINE t == Below(stack, n)
  <2>3. (\E v, failing : PushOn(t, v, failing)) /\ code' = code
    BY <1>6, <2>2 DEF ExecCall
  <2>4. IsStack(t) /\ Len(t) = IF n <= Len(stack) THEN Len(stack) - n ELSE 0
    <3> HIDE DEF n
    <3> QED
      BY <2>1, <2>9, TakenOff
  <2> HIDE DEF t
  <2>5. IsStack(stack') /\ Len(stack') = Len(t) + 1 /\ ip' = ip + 1
    BY <2>3, <2>4, Pushes
  <2>6. b[ip] <= b[ip + 1] + k /\ 1 <= b[ip + 1]
    BY <2>1, <2>2 DEF Takes
  <2>7. Len(stack') <= b[ip + 1]
    BY <2>1, <2>2, <2>4, <2>5, <2>6
  <2>8. Stands(c, b, ip + 1, stack')
    BY <2>1, <2>5, <2>7, GoesOn
  <2> QED
    BY <1>1, <2>3, <2>5, <2>8
<1>7. CASE ExecAction
  <2>1. /\ ip \in 1 .. Len(c) /\ c[ip].op = "ACTION" /\ b[ip] \in Nat /\ b[ip + 1] \in Nat
        /\ IsStack(stack) /\ Len(stack) \in Nat /\ Len(stack) <= b[ip]
    <3>1. Executing({"ACTION"})
      BY <1>7 DEF ExecAction
    <3> QED
      BY <3>1, AtInstruction
  <2>2. PICK k \in Nat : Arguments = k /\ Takes(c[ip].op, k, b[ip], b[ip + 1])
    BY <2>1, Calls DEF Called, Arguments
  <2> DEFINE n == 1 + k
  <2>9. n \in Nat
    BY <2>2
  <2>3. stack' = Below(stack, 1 + k) /\ ip' = ip + 1 /\ code' = code
    BY <1>7, <2>2 DEF ExecAction
  <2>4. /\ IsStack(stack')
        /\ Len(stack') = IF n <= Len(stack) THEN Len(stack) - n ELSE 0
    <3>1. stack' = Below(stack, n)
      BY <2>3
    <3> HIDE DEF n
    <3> QED
      BY <2>1, <2>9, <3>1, TakenOff
  <2>5. b[ip] <= b[ip + 1] + k + 1
    BY <2>1, <2>2 DEF Takes
  <2>6. Len(stack') <= b[ip + 1]
    BY <2>1, <2>2, <2>4, <2>5
  <2>7. Stands(c, b, ip + 1, stack')
    BY <2>1, <2>4, <2>6, GoesOn
  <2> QED
    BY <1>1, <2>3, <2>7
<1>8. CASE ExecJump
  <2>1. /\ ip \in 1 .. Len(c) /\ code[ip] = c[ip] /\ c[ip].op \in JumpOps
        /\ Moves(c[ip], b[ip], b[ip + 1]) /\ b[ip] \in Nat /\ b[ip + 1] \in Nat
        /\ IsStack(stack) /\ Len(stack) \in Nat /\ Len(stack) <= b[ip]
    <3>1. Executing(JumpOps)
      BY <1>8 DEF ExecJump, JumpOps
    <3>2. "RET" \notin JumpOps /\ "RULE_END" \notin JumpOps
      BY DEF JumpOps
    <3> QED
      BY <3>1, <3>2, AtInstruction
  <2>2. /\ \/ ip' = ip + c[ip].offset /\ stack' = stack
           \/ c[ip].op # "JMP" /\ ip' = ip + 1 /\ stack' = Below(stack, 1)
        /\ code' = code
    BY <1>8, <2>1 DEF ExecJump
  <2>3. CASE ip' = ip + c[ip].offset /\ stack' = stack
    BY <1>1, <2>1, <2>2, <2>3, JumpsOn
  <2>4. CASE c[ip].op # "JMP" /\ ip' = ip + 1 /\ stack' = Below(stack, 1)
    <3>1. IsStack(stack') /\ Len(stack') = IF 1 <= Len(stack) THEN Len(stack) - 1 ELSE 0
      BY <2>1, <2>4, TakenOff
    <3>2. Len(stack') <= b[ip + 1] /\ c[ip].op # "PUSH"
      BY <2>1, <2>4, <3>1 DEF Moves, JumpOps
    <3>3. Stands(c, b, ip + 1, stack')
      BY <2>1, <3>1, <3>2, GoesOn
    <3> QED
      BY <1>1, <2>2, <2>4, <3>3
  <2> QED
    BY <2>2, <2>3, <2>4
<1>9. CASE ExecMetricStart \/ ExecFailMetric
  <2>1. /\ ip \in 1 .. Len(c) /\ c[ip].op \in {"METRIC_START", "FAIL_METRIC"}
        /\ Moves(c[ip], b[ip], b[ip + 1]) /\ b[ip] \in Nat /\ b[ip + 1] \in Nat
        /\ IsStack(stack) /\ Len(stack) \in Nat /\ Len(stack) <= b[ip]
    <3>1. \E ops \in {{"METRIC_START"}, {"FAIL_METRIC"}} : Executing(ops)
      BY <1>9 DEF ExecMetricStart, ExecFailMetric
    <3> QED
      BY <3>1, AtInstruction
  <2>2. stack' = stack /\ ip' = ip + 1 /\ code' = code
    BY <1>9 DEF ExecMetricStart, ExecFailMetric
  <2>3. Len(stack) <= b[ip + 1]
    BY <2>1 DEF Moves
  <2>4. Stands(c, b, ip + 1, stack)
    BY <2>1, <2>3, GoesOn
  <2> QED
    BY <1>1, <2>2, <2>4
<1>10. CASE ExecSetScore
  <2>1. /\ ip \in 1 .. Len(c) /\ c[ip].op = "SET_SCORE"
        /\ Moves(c[ip], b[ip], b[ip + 1]) /\ b[ip] \in Nat /\ b[ip + 1] \in Nat
        /\ IsStack(stack) /\ Len(stack) \in Nat /\ Len(stack) <= b[ip]
    <3>1. Executing({"SET_SCORE"})
      BY <1>10 DEF ExecSetScore
    <3> QED
      BY <3>1, AtInstruction
  <2>2. stack' = Below(stack, 1) /\ ip' = ip + 1 /\ code' = code
    BY <1>10 DEF ExecSetScore
  <2>3. IsStack(stack') /\ Len(stack') = IF 1 <= Len(stack) THEN Len(stack) - 1 ELSE 0
    BY <2>1, <2>2, TakenOff
  <2>4. Len(stack') <= b[ip + 1]
    BY <2>1, <2>3 DEF Moves
  <2>5. Stands(c, b, ip + 1, stack')
    BY <2>1, <2>3, <2>4, GoesOn
  <2> QED
    BY <1>1, <2>2, <2>5
<1>11. CASE Compile \/ FallBack
  BY <1>11 DEF Compile, FallBack
<1>12. CASE OverQuota \/ ExecRuleEnd \/ ExecRet
  BY <1>12 DEF OverQuota, Abort, ExecRuleEnd, ExecRet
<1>13. CASE ReportFailure \/ ReportSimple \/ ReportMetrics
  BY <1>13 DEF ReportFailure, ReportSimple, ReportMetrics
<1> QED
  BY <1>2, <1>3, <1>4, <1>5, <1>6, <1>7, <1>8, <1>9, <1>10, <1>11, <1>12, <1>13 DEF Execute

(***************************************************************************)
(* The executions.                                                         *)
(***************************************************************************)
\* The machine starts when the tree has been walked, with nothing on the stack.
Resting ==
  /\ rule \in Rules
  /\ mode \in {"idle", "run", "stopped", "reported"}
  /\ mode # "idle" => at = "done"
  /\ mode = "idle" => ip = 1 /\ stack = <<>>

\* What is executed is sound code, with one instruction that ends it.
Running ==
  mode = "run" =>
    \E c, x, b : /\ code = c \o <<x>> /\ x \in Stops
                 /\ Sound(c, b, Depths(rule)) /\ Stands(c, b, ip, stack)

\* An execution begins at rest.
LEMMA RestingFirst == Init => Resting
  BY DEF Init, TreeInit, Resting

\* No step walks the tree after the machine has been started.
LEMMA RestingNext == Resting /\ [Next]_vars => Resting'
<1> SUFFICES ASSUME Resting, [Next]_vars PROVE Resting'
  OBVIOUS
<1>1. CASE Walk
  <2>1. at # "done" /\ rule' = rule
    BY <1>1 DEF Walk, TreeNext, ExecuteSimple, NextMetric, CaseFails, CaseMisses, CaseMatches,
                Default, Finish, Matching
  <2> QED
    BY <1>1, <2>1 DEF Walk, machine, Resting
<1>2. CASE Execute /\ UNCHANGED <<rule, limit, treeVars>>
  <2>1. rule' = rule /\ at' = at
    BY <1>2 DEF treeVars
  <2>2. CASE Compile \/ FallBack
    BY <2>1, <2>2 DEF Compile, FallBack, Resting
  <2>3. ASSUME mode \in {"run", "stopped"}, mode' \in {"run", "stopped", "reported"} PROVE Resting'
    BY <2>1, <2>3 DEF Resting
  <2>4. CASE OverQuota \/ ExecRuleEnd \/ ExecRet
    BY <2>3, <2>4 DEF OverQuota, ExecRuleEnd, ExecRet, Executing, Abort
  <2>5. CASE ExecPush \/ ExecArray \/ ExecOperate \/ ExecCall
    <3>1. mode = "run" /\ \E s, v, failing : PushOn(s, v, failing) \/ Abort
      BY <2>5 DEF ExecPush, ExecArray, ExecOperate, ExecCall, Executing
    <3>2. mode' \in {"run", "stopped"}
      BY <3>1 DEF PushOn, Abort
    <3> QED
      BY <2>3, <3>1, <3>2
  <2>6. CASE ExecPop \/ ExecAction \/ ExecJump \/ ExecMetricStart \/ ExecSetScore \/ ExecFailMetric
    BY <2>3, <2>6 DEF ExecPop, ExecAction, ExecJump, ExecMetricStart, ExecSetScore,
                      ExecFailMetric, Executing
  <2>7. CASE ReportFailure \/ ReportSimple \/ ReportMetrics
    BY <2>3, <2>7 DEF ReportFailure, ReportSimple, ReportMetrics
  <2> QED
    BY <1>2, <2>2, <2>4, <2>5, <2>6, <2>7 DEF Execute
<1>3. CASE Ended \/ UNCHANGED vars
  BY <1>3 DEF Ended, vars, treeVars, machine, Resting
<1> QED
  BY <1>1, <1>2, <1>3 DEF Next

\* The machine does not run at the beginning.
LEMMA RunningFirst == Init => Running
  BY DEF Init, Running

\* The machine starts at the first instruction of sound code.
LEMMA Starts ==
  ASSUME Resting, Compile, rule' = rule
  PROVE  Running'
<1>1. rule \in Rules /\ ip' = 1 /\ stack' = <<>> /\ code' = CodeOf(rule)
  BY DEF Resting, Compile
<1>2. PICK c \in Seq(Insts), x \in Stops, n \in Nat :
        CodeOf(rule) = c \o <<x>> /\ Fits(c, 0, Depths(rule), n)
  BY <1>1, RuleFits
<1>3. PICK b \in [1 .. Len(c) + 1 -> Depths(rule)] :
        b[1] = 0 /\ \A i \in 1 .. Len(c) : Allows(c, b, i)
  BY <1>2 DEF Fits, Enters
<1>4. Depths(rule) \subseteq Nat
  BY <1>1, RoomInRules
<1>5. Sound(c, b, Depths(rule))
  BY <1>3, <1>4 DEF Sound
<1>6. Stands(c, b, 1, <<>>)
  <2>1. Len(c) \in Nat /\ 1 \in 1 .. Len(c) + 1
    BY LenProperties
  <2>2. 1 <= Len(c) => c[1].op \notin Called
    <3> SUFFICES ASSUME 1 <= Len(c) PROVE c[1].op \notin Called
      OBVIOUS
    <3>1. Allows(c, b, 1)
      BY <1>3, <2>1
    <3> QED
      BY <3>1 DEF Allows
  <2> QED
    BY <1>3, <2>1, <2>2, NothingOn DEF Stands
<1> QED
  BY <1>1, <1>2, <1>5, <1>6 DEF Running

\* Every step leaves the machine in sound code, one step for each action.
LEMMA RunningNext == Resting /\ Running /\ [Next]_vars => Running'
<1> SUFFICES ASSUME Resting, Running, [Next]_vars PROVE Running'
  OBVIOUS
<1>1. CASE UNCHANGED <<rule, mode, code, ip, stack>>
  BY <1>1 DEF Running
<1>2. CASE Walk
  <2>1. rule' = rule
    BY <1>2 DEF Walk, TreeNext, ExecuteSimple, NextMetric, CaseFails, CaseMisses, CaseMatches,
                Default, Finish
  <2> QED
    BY <1>1, <1>2, <2>1 DEF Walk, machine
<1>3. CASE Execute /\ UNCHANGED <<rule, limit, treeVars>>
  <2> SUFFICES ASSUME mode' = "run" PROVE Running'
    BY DEF Running
  <2>1. CASE mode = "run"
    <3>1. PICK c, x, b : /\ code = c \o <<x>> /\ x \in Stops
                         /\ Sound(c, b, Depths(rule)) /\ Stands(c, b, ip, stack)
      BY <2>1 DEF Running
    <3>2. code' = c \o <<x>> /\ Stands(c, b, ip', stack')
      BY <1>3, <2>1, <3>1, Onward
    <3> QED
      BY <1>3, <3>1, <3>2 DEF Running
  <2>2. CASE mode # "run"
    <3>1. Compile
      BY <1>3, <2>2 DEF Execute, FallBack, OverQuota, ExecPush, ExecArray, ExecPop,
           ExecOperate, ExecCall, ExecAction, ExecJump, ExecMetricStart, ExecSetScore,
           ExecFailMetric, ExecRuleEnd, ExecRet, Executing, ReportFailure, ReportSimple,
           ReportMetrics
    <3> QED
      BY <1>3, <3>1, Starts
  <2> QED
    BY <2>1, <2>2
<1>4. CASE Ended \/ UNCHANGED vars
  BY <1>1, <1>4 DEF Ended, vars, machine
<1> QED
  BY <1>2, <1>3, <1>4 DEF Next

\* The inductive invariant: the machine of every execution is in sound code
\* (bc_run_instructions), whatever the rules, the limits and the callbacks.
THEOREM Machine == Spec => [](Resting /\ Running)
<1>1. Init => Resting /\ Running
  BY RestingFirst, RunningFirst
<1>2. Resting /\ Running /\ [Next]_vars => Resting' /\ Running'
  BY RestingNext, RunningNext
<1> QED
  BY <1>1, <1>2, PTL DEF Spec

\* Code of which the compiler has counted the stack keeps within what it has counted
\* (compile_expr and compile_action_call, against the pushes of
\* bc_run_instructions), for every rule and every depth of expressions.
THEOREM StackIsKeptTo == Spec => []CodeKeepsToItsStack
<1>1. Resting /\ Running => CodeKeepsToItsStack
  <2> SUFFICES ASSUME Resting, Running, mode = "run", PlainRule(rule)
               PROVE Len(stack) <= StackOf(rule)
    BY DEF CodeKeepsToItsStack, PlainRule
  <2>1. PICK c, b : Sound(c, b, Depths(rule)) /\ Stands(c, b, ip, stack)
    BY DEF Running
  <2>2. b[ip] \in Depths(rule) /\ Len(stack) <= b[ip] /\ Len(stack) \in Nat
    BY <2>1, TakenOff DEF Sound, Stands
  <2>3. b[ip] \in 0 .. StackOf(rule)
    BY <2>2 DEF Depths
  <2>4. StackOf(rule) \in Nat
    BY StacksOfRules DEF Resting
  <2> QED
    BY <2>2, <2>3, <2>4
<1> QED
  BY <1>1, Machine, PTL

\* The machine never leaves its code: every jump that bc_patch_jmp has patched leads
\* to an instruction of it, and the last instruction ends the execution.
THEOREM CodeIsKeptTo == Spec => [](mode = "run" => ip \in DOMAIN code)
<1>1. Running => (mode = "run" => ip \in DOMAIN code)
  <2> SUFFICES ASSUME Running, mode = "run" PROVE ip \in DOMAIN code
    OBVIOUS
  <2>1. PICK c, x, b : code = c \o <<x>> /\ c \in Seq(Insts) /\ Stands(c, b, ip, stack)
    BY DEF Running, Sound
  <2>2. c \in Seq(Insts \cup {x}) /\ <<x>> \in Seq(Insts \cup {x}) /\ Len(<<x>>) = 1
    BY <2>1
  <2>3. code \in Seq(Insts \cup {x}) /\ Len(code) = Len(c) + 1
    BY <2>1, <2>2, ConcatProperties
  <2> QED
    BY <2>1, <2>3, LenProperties DEF Stands
<1> QED
  BY <1>1, Machine, PTL

\* No instruction is executed twice (bc_patch_jmp leaves no jump that leads
\* backwards), so the length of the code bounds an execution without a limit.
THEOREM RunsForward == Spec => CodeRunsForward
<1>1. Resting /\ Running /\ [Next]_vars => [mode = "run" /\ mode' = "run" => ip' > ip]_vars
  <2> SUFFICES ASSUME Resting, Running, Next, mode = "run", mode' = "run", ~UNCHANGED vars
               PROVE  ip' > ip
    OBVIOUS
  <2>1. at = "done"
    BY DEF Resting
  <2>2. Execute
    BY <2>1 DEF Next, Walk, TreeNext, ExecuteSimple, NextMetric, CaseFails, CaseMisses,
                CaseMatches, Default, Finish, Matching, Ended
  <2>3. PICK c, x, b : /\ code = c \o <<x>> /\ x \in Stops
                       /\ Sound(c, b, Depths(rule)) /\ Stands(c, b, ip, stack)
    BY DEF Running
  <2> QED
    BY <2>2, <2>3, Onward
<1> QED
  BY <1>1, Machine, PTL DEF Spec, CodeRunsForward

(***************************************************************************)
(* Verification: what resolve_expr_type and the tree walk are, unfolded    *)
(***************************************************************************)
\* A total is a number, and that of numbers above zero only if one of them is.
LEMMA Totals ==
  ASSUME NEW n \in Nat, NEW s \in [1 .. n -> Nat]
  PROVE  Total(s) \in Nat /\ (Total(s) = 0 => \A i \in 1 .. n : s[i] = 0)
<1> DEFINE Adds(f) == f = [i \in 0 .. n |-> IF i = 0 THEN 0 ELSE f[i - 1] + s[i]]
           H == [i \in 1 .. n |-> [x \in Nat |-> x + s[i]]]
           sum == CHOOSE f : Adds(f)
<1>1. Len(s) = n
  OBVIOUS
<1>2. PICK F \in [0 .. n -> Nat] : F[0] = 0 /\ \A i \in 1 .. n : F[i] = H[i][F[i - 1]]
  <2>1. H \in [1 .. n -> [Nat -> Nat]] /\ 0 \in Nat
    OBVIOUS
  <2> HIDE DEF H
  <2> QED
    <3>1. Chains(Nat)
      BY ChainOf
    <3> QED
      BY <2>1, <3>1 DEF Chains
<1>3. Adds(F)
  <2>1. \A i \in 1 .. n : F[i] = F[i - 1] + s[i]
    <3> SUFFICES ASSUME NEW i \in 1 .. n PROVE F[i] = F[i - 1] + s[i]
      OBVIOUS
    <3>1. F[i - 1] \in Nat /\ H[i] = [x \in Nat |-> x + s[i]]
      BY <1>2
    <3> HIDE DEF H
    <3> QED
      BY <1>2, <3>1
  <2> HIDE DEF H
  <2> QED
    BY <1>2, <2>1
<1>4. Adds(sum)
  <2> HIDE DEF Adds
  <2> QED
    BY <1>3
<1>5. Total(s) = sum[n]
  BY <1>1 DEF Total
<1> HIDE DEF sum
<1>6. sum[0] = 0 /\ \A i \in 1 .. n : sum[i] = sum[i - 1] + s[i]
  BY <1>4
<1> DEFINE S == {i \in 0 .. n : sum[i] \in Nat /\ (sum[i] = 0 => \A j \in 1 .. i : s[j] = 0)}
<1>7. 0 \in S
  BY <1>6
<1>8. ASSUME NEW i \in 1 .. n, i - 1 \in S PROVE i \in S
  <2>1. sum[i] = sum[i - 1] + s[i] /\ s[i] \in Nat /\ sum[i - 1] \in Nat
    BY <1>6, <1>8
  <2>2. sum[i] = 0 => \A j \in 1 .. i : s[j] = 0
    <3>1. ASSUME sum[i] = 0 PROVE sum[i - 1] = 0 /\ s[i] = 0
      BY <2>1, <3>1
    <3>2. sum[i - 1] = 0 => \A j \in 1 .. i - 1 : s[j] = 0
      BY <1>8
    <3> QED
      BY <3>1, <3>2
  <2> QED
    BY <2>1, <2>2
<1>9. n \in S
  <2>1. \A i \in 0 .. n : i \in S
    <3> HIDE DEF S
    <3> QED
      BY <1>7, <1>8, Upwards
  <2> QED
    BY <2>1
<1> QED
  BY <1>5, <1>9

\* The errors of so many resolutions.
LEMMA ErrorsAdd ==
  ASSUME NEW n \in Nat, NEW r, \A i \in 1 .. n : r[i].errors \in Nat
  PROVE  ErrorsOf(r, n) \in Nat /\ (ErrorsOf(r, n) = 0 => \A i \in 1 .. n : r[i].errors = 0)
<1> DEFINE s == [i \in 1 .. n |-> r[i].errors]
<1>1. s \in [1 .. n -> Nat] /\ \A i \in 1 .. n : s[i] = r[i].errors
  OBVIOUS
<1>2. ErrorsOf(r, n) = Total(s)
  BY DEF ErrorsOf
<1> HIDE DEF s
<1> QED
  BY <1>1, <1>2, Totals

\* What Evaluated makes of an expression, given the evaluations of its parts.
EvaluatedFrom(f, e) ==
  [depth \in 0 .. MaxExprDepth |->
     IF depth = MaxExprDepth THEN Walked(Void, 0, "NONE")
     ELSE CASE e.kind = "literal" -> Walked(e.value, 1, "NONE")
       [] e.kind = "id" -> Walked(Lookup(e.name), 1, "NONE")
       [] e.kind = "array" ->
            LET items == [i \in DOMAIN e.items |-> f[e.items[i]][depth + 1]] IN
            Walked(ArrayOf(ValuesOf(items)), 1 + SumOfNodes(items), LastError(items))
       [] e.kind = "unary" -> UnaryWalk(e.op, f[e.arg][depth + 1])
       [] e.kind = "binary" ->
            BinaryWalk(e.op, f[e.left][depth + 1], f[e.right][depth + 1])
       [] e.kind = "call" ->
            CallWalk(e.name, [i \in DOMAIN e.args |-> f[e.args[i]][0]])]

\* and it is made of the evaluations of the parts only.
LEMMA EvaluatedRestsOnParts ==
  ASSUME NEW f, NEW g, NEW e \in Exprs, \A d \in PartsOf(e) : f[d] = g[d]
  PROVE  EvaluatedFrom(f, e) = EvaluatedFrom(g, e)
<1>1. CASE e.kind = "array"
  <2>1. \A i \in DOMAIN e.items : f[e.items[i]] = g[e.items[i]]
    BY <1>1, PartsOfKinds
  <2>2. \A k : [i \in DOMAIN e.items |-> f[e.items[i]][k]] = [i \in DOMAIN e.items |-> g[e.items[i]][k]]
    BY <2>1
  <2> QED
    BY <1>1, <2>2 DEF EvaluatedFrom
<1>2. CASE e.kind = "call"
  <2>1. \A i \in DOMAIN e.args : f[e.args[i]] = g[e.args[i]]
    BY <1>2, PartsOfKinds
  <2>2. [i \in DOMAIN e.args |-> f[e.args[i]][0]] = [i \in DOMAIN e.args |-> g[e.args[i]][0]]
    BY <2>1
  <2> QED
    BY <1>2, <2>2 DEF EvaluatedFrom
<1>3. CASE e.kind = "unary"
  <2>1. f[e.arg] = g[e.arg]
    BY <1>3, PartsOfKinds
  <2> QED
    BY <1>3, <2>1 DEF EvaluatedFrom
<1>4. CASE e.kind = "binary"
  <2>1. f[e.left] = g[e.left] /\ f[e.right] = g[e.right]
    BY <1>4, PartsOfKinds
  <2> QED
    BY <1>4, <2>1 DEF EvaluatedFrom
<1>5. CASE e.kind \in {"literal", "id"}
  BY <1>5 DEF EvaluatedFrom
<1> QED
  BY <1>1, <1>2, <1>3, <1>4, <1>5, ExprsAssumption DEF IsExpr

\* Evaluated is what its definition says: the recursion has a solution.
LEMMA EvaluatedUnfolds == \A e \in Exprs : Evaluated[e] = EvaluatedFrom(Evaluated, e)
<1> DEFINE Again(f) == [e \in Exprs |-> EvaluatedFrom(f, e)]
           Lower(n) == {e \in Exprs : Height[e] < n}
           Solves(f, n) == \A e \in Lower(n) : f[e] = EvaluatedFrom(f, e)
           S == {n \in Nat : \E f : Solves(f, n)}
<1>1. 0 \in S
  <2>1. Lower(0) = {}
    BY Heights
  <2> QED
    BY <2>1
<1>2. ASSUME NEW n \in Nat, n \in S PROVE n + 1 \in S
  <2>1. PICK f : Solves(f, n)
    BY <1>2
  <2> DEFINE g == Again(f)
  <2>2. ASSUME NEW e \in Lower(n + 1) PROVE g[e] = EvaluatedFrom(g, e)
    <3>1. e \in Exprs /\ \A d \in PartsOf(e) : d \in Exprs /\ d \in Lower(n)
      BY <2>2, PartsAreExprs, Heights
    <3>2. \A d \in PartsOf(e) : f[d] = g[d]
      BY <2>1, <3>1
    <3>3. g[e] = EvaluatedFrom(f, e)
      BY <3>1
    <3> HIDE DEF g
    <3> QED
      BY <3>1, <3>2, <3>3, EvaluatedRestsOnParts
  <2> HIDE DEF g
  <2> QED
    BY <2>2
<1>3. Nat \subseteq S
  <2> HIDE DEF S
  <2> QED
    BY <1>1, <1>2, Counting
<1> DEFINE F == [n \in Nat |-> CHOOSE f : Solves(f, n)]
<1>4. \A n \in Nat : Solves(F[n], n)
  <2> SUFFICES ASSUME NEW n \in Nat PROVE Solves(F[n], n)
    OBVIOUS
  <2>1. \E f : Solves(f, n)
    BY <1>3
  <2> HIDE DEF Solves
  <2> QED
    BY <2>1
<1> HIDE DEF F
<1> DEFINE Same == {e \in Exprs : \A m, n \in Nat : Height[e] < m /\ Height[e] < n => F[m][e] = F[n][e]}
<1>5. Exprs \subseteq Same
  <2>1. ASSUME NEW e \in Exprs, PartsOf(e) \subseteq Same,
               NEW m \in Nat, NEW n \in Nat, Height[e] < m, Height[e] < n
        PROVE  F[m][e] = F[n][e]
    <3>1. F[m][e] = EvaluatedFrom(F[m], e) /\ F[n][e] = EvaluatedFrom(F[n], e)
      BY <1>4, <2>1
    <3>2. \A d \in PartsOf(e) : F[m][d] = F[n][d]
      <4> SUFFICES ASSUME NEW d \in PartsOf(e) PROVE F[m][d] = F[n][d]
        OBVIOUS
      <4>1. Height[d] < m /\ Height[d] < n
        BY <2>1, PartsAreExprs, Heights
      <4> QED
        BY <2>1, <4>1
    <3> QED
      BY <3>1, <3>2, EvaluatedRestsOnParts
  <2>2. \A e \in Exprs : PartsOf(e) \subseteq Same => e \in Same
    BY <2>1
  <2> HIDE DEF Same
  <2> QED
    BY <2>2, Structural
<1> DEFINE h == [e \in Exprs |-> F[Height[e] + 1][e]]
<1>6. ASSUME NEW e \in Exprs PROVE h[e] = EvaluatedFrom(h, e)
  <2> DEFINE n == Height[e] + 1
  <2>1. n \in Nat /\ Height[e] < n
    BY Heights
  <2>2. h[e] = EvaluatedFrom(F[n], e)
    BY <1>4, <2>1
  <2>3. \A d \in PartsOf(e) : h[d] = F[n][d]
    <3> SUFFICES ASSUME NEW d \in PartsOf(e) PROVE h[d] = F[n][d]
      OBVIOUS
    <3>1. /\ d \in Exprs /\ Height[d] \in Nat /\ Height[d] + 1 \in Nat
          /\ Height[d] < Height[d] + 1 /\ Height[d] < n
      BY <2>1, PartsAreExprs, Heights
    <3>2. F[Height[d] + 1][d] = F[n][d]
      BY <1>5, <2>1, <3>1
    <3> QED
      BY <3>1, <3>2
  <2> HIDE DEF h, n
  <2> QED
    BY <2>2, <2>3, EvaluatedRestsOnParts
<1>7. h = Again(h)
  <2>1. h = [e \in Exprs |-> h[e]]
    OBVIOUS
  <2> HIDE DEF h
  <2> QED
    BY <1>6, <2>1
<1>8. \E f : f = [e \in Exprs |-> EvaluatedFrom(f, e)]
  <2> HIDE DEF h
  <2> QED
    BY <1>7
<1>9. Evaluated = [e \in Exprs |-> EvaluatedFrom(Evaluated, e)]
  BY <1>8 DEF Evaluated, EvaluatedFrom
<1> QED
  BY <1>9

Resolutions == [type : Types, errors : Nat]

\* The least of a set of numbers.
LEMMA Least ==
  ASSUME NEW S, S \subseteq Nat, S # {}
  PROVE  Min(S) \in S /\ \A x \in S : Min(S) <= x
<1>1. PICK n \in S : \A x \in S : n <= x
  BY SmallestNumber
<1> QED
  BY <1>1 DEF Min

\* The check of arguments finds no error only in accepted ones that have none, or
\* if it comes upon one that is VOID without an error.
LEMMA ArgsChecked ==
  ASSUME NEW n \in Nat, NEW given, DOMAIN given = 1 .. n, Len(given) = n,
         \A i \in 1 .. n : given[i] \in Resolutions, NEW types
  PROVE  /\ CheckedArgs(given, types).fine \in BOOLEAN
         /\ CheckedArgs(given, types).errors \in Nat
         /\ CheckedArgs(given, types).fine
              => \A i \in 1 .. n : Accepts(types[i], given[i].type)
         /\ CheckedArgs(given, types).errors = 0 =>
              \/ CheckedArgs(given, types).fine /\ \A i \in 1 .. n : given[i].errors = 0
              \/ \E i \in 1 .. n : given[i].errors = 0 /\ given[i].type = "VOID"
<1> DEFINE bad == {i \in DOMAIN given : ~Accepts(types[i], given[i].type)}
           last == IF bad = {} THEN Len(given) ELSE Min(bad)
           own == IF bad # {} /\ given[last].type # "VOID" THEN 1 ELSE 0
           c == CheckedArgs(given, types)
<1>1. c.fine = (bad = {}) /\ c.errors = ErrorsOf(given, last) + own
  BY DEF CheckedArgs
<1> HIDE DEF c
<1>2. bad # {} => last \in bad
  <2>1. bad \subseteq Nat
    OBVIOUS
  <2> HIDE DEF bad
  <2> QED
    BY <2>1, Least
<1>3. last \in Nat /\ last <= n /\ (bad = {} => last = n)
  BY <1>2
<1>4. own \in Nat /\ (own = 0 /\ bad # {} => given[last].type = "VOID")
  OBVIOUS
<1>5. bad = {} => \A i \in 1 .. n : Accepts(types[i], given[i].type)
  OBVIOUS
<1>6. bad # {} => last \in 1 .. n
  BY <1>2
<1> HIDE DEF last, own, bad
<1>7. \A i \in 1 .. last : given[i].errors \in Nat
  BY <1>3 DEF Resolutions
<1>8. ErrorsOf(given, last) \in Nat
      /\ (ErrorsOf(given, last) = 0 => \A i \in 1 .. last : given[i].errors = 0)
  BY <1>3, <1>7, ErrorsAdd
<1>9. c.fine \in BOOLEAN /\ c.errors \in Nat
      /\ (c.fine => \A i \in 1 .. n : Accepts(types[i], given[i].type))
  <2>1. c.fine \in BOOLEAN /\ c.fine = (bad = {})
    BY <1>1
  <2>2. c.errors \in Nat
    BY <1>1, <1>4, <1>8
  <2> QED
    BY <1>5, <2>1, <2>2
<1>10. ASSUME c.errors = 0
       PROVE  \/ c.fine /\ \A i \in 1 .. n : given[i].errors = 0
              \/ \E i \in 1 .. n : given[i].errors = 0 /\ given[i].type = "VOID"
  <2>1. ErrorsOf(given, last) = 0 /\ own = 0
    BY <1>1, <1>4, <1>8, <1>10
  <2>2. CASE bad = {}
    <3>1. last = n /\ c.fine
      BY <1>1, <1>3, <2>2
    <3> QED
      BY <1>8, <2>1, <3>1
  <2>3. CASE bad # {}
    BY <1>3, <1>4, <1>6, <1>8, <2>1, <2>3
  <2> QED
    BY <2>2, <2>3
<1> QED
  BY <1>9, <1>10 DEF c

\* The schema holds types.
TypedSchema(vs, as) ==
  /\ \A x \in DOMAIN vs : vs[x] \in Types
  /\ \A a \in DOMAIN as : as[a].returns \in Types

\* The types of operators.
LEMMA OperatorTypes ==
  ASSUME NEW op, NEW l \in Types, NEW r \in Types
  PROVE  /\ op \in {"NOT", "NEG"} => UnaryType(op, l) \in Types
         /\ op \in Arithmetic \cup Relational \cup Logical => BinaryType(op, l, r) \in Types
<1>1. op \in {"NOT", "NEG"} => UnaryType(op, l) \in Types
  BY DEF UnaryType, Types
<1>0. /\ op \in Logical => op \notin Arithmetic /\ op \notin Relational
      /\ op \in Arithmetic => op \notin Relational
  BY DEF Logical, Arithmetic, Relational
<1>2. CASE op \in Logical
  <2>1. BinaryType(op, l, r) = LogicalType(l, r)
    BY <1>0, <1>2 DEF BinaryType
  <2> QED
    BY <1>0, <1>1, <1>2, <2>1 DEF LogicalType, Types
<1>3. CASE op \in Arithmetic
  <2>1. {l, r} \subseteq Numeric => Widest({l, r}) \in {l, r}
    <3> SUFFICES ASSUME {l, r} \subseteq Numeric PROVE Widest({l, r}) \in {l, r}
      OBVIOUS
    <3>1. \E t \in {l, r} : t = "FLOAT" \/ (t = "LONG" /\ "FLOAT" \notin {l, r}) \/ {l, r} = {"INT"}
      BY DEF Numeric
    <3> QED
      BY <3>1 DEF Widest
  <2>2. BinaryType(op, l, r) = ArithmeticType(op, l, r)
    BY <1>0, <1>3 DEF BinaryType
  <2>3. ArithmeticType(op, l, r) \in Types
    <3>0. {"INT", "DATE", "VOID"} \subseteq Types
      BY DEF Types
    <3>1. CASE {l, r} = {"DATE"} /\ op = "SUB"
      <4>1. l = "DATE" /\ r = "DATE" /\ r \notin Numeric /\ l \notin Numeric /\ op = "SUB"
        BY <3>1 DEF Numeric
      <4>2. ArithmeticType(op, l, r) = "INT"
        BY <4>1 DEF ArithmeticType
      <4> QED
        BY <3>0, <4>2
    <3>2. CASE ~({l, r} = {"DATE"} /\ op = "SUB")
      BY <2>1, <3>0, <3>2 DEF ArithmeticType
    <3> QED
      BY <3>1, <3>2
  <2> QED
    BY <1>0, <1>1, <1>3, <2>2, <2>3
<1>4. CASE op \in Relational
  <2>1. BinaryType(op, l, r) = ComparisonType(op, l, r)
    BY <1>0, <1>4 DEF BinaryType
  <2> QED
    BY <1>0, <1>1, <1>4, <2>1 DEF ComparisonType, Types
<1> QED
  BY <1>1, <1>2, <1>3, <1>4

\* A type that was checked, and the errors so far, are a resolution.
LEMMA Checks ==
  ASSUME NEW t \in Types, NEW n \in Nat
  PROVE  AfterCheck(t, n) \in Resolutions
  BY DEF AfterCheck, Resolved, Resolutions

\* A resolution is a type and a number of errors.
LEMMA ResolvesTo ==
  ASSUME NEW vs, NEW as, TypedSchema(vs, as), NEW e \in Exprs,
         NEW f, \A d \in PartsOf(e) : f[d] \in Resolutions
  PROVE  ResolveFrom(f, e, vs, as) \in Resolutions
<1>0. "VOID" \in Types /\ "ARRAY" \in Types
  BY DEF Types
<1>1. CASE e.kind = "literal"
  BY <1>1, ExprsAssumption DEF ResolveFrom, IsExpr, Resolved, Resolutions
<1>2. CASE e.kind = "id"
  BY <1>0, <1>2 DEF ResolveFrom, Resolved, Resolutions, TypedSchema
<1>3. CASE e.kind = "array"
  <2> DEFINE n == Len(e.items)
             items == [i \in DOMAIN e.items |-> f[e.items[i]]]
             bad == {i \in DOMAIN items : items[i].type = "VOID"}
  <2>1. n \in Nat /\ DOMAIN items = 1 .. n /\ Len(items) = n
        /\ \A i \in 1 .. n : items[i] \in Resolutions
    BY <1>3, PartsOfKinds, LenProperties
  <2>2. ResolveFrom(f, e, vs, as)
          = IF bad = {} THEN Resolved("ARRAY", ErrorsOf(items, Len(items)))
            ELSE Resolved("VOID", ErrorsOf(items, Min(bad)))
    BY <1>3 DEF ResolveFrom
  <2>3. bad # {} => Min(bad) \in 1 .. n
    <3>1. bad \subseteq 1 .. n /\ bad \subseteq Nat
      BY <2>1
    <3> HIDE DEF bad
    <3> QED
      BY <3>1, Least
  <2> HIDE DEF n, items, bad
  <2>4. ASSUME NEW m \in Nat, m <= n PROVE ErrorsOf(items, m) \in Nat
    <3>1. \A i \in 1 .. m : items[i].errors \in Nat
      BY <2>1, <2>4 DEF Resolutions
    <3> QED
      BY <3>1, ErrorsAdd
  <2>5. bad = {} => ErrorsOf(items, Len(items)) \in Nat
    BY <2>1, <2>4
  <2>6. bad # {} => ErrorsOf(items, Min(bad)) \in Nat
    BY <2>1, <2>3, <2>4
  <2> QED
    BY <1>0, <2>2, <2>5, <2>6 DEF Resolved, Resolutions
<1>4. CASE e.kind = "unary"
  <2> DEFINE t == f[e.arg]
  <2>1. t \in Resolutions /\ e.op \in {"NOT", "NEG"}
    BY <1>4, PartsOfKinds, ExprsAssumption DEF IsExpr
  <2>2. ResolveFrom(f, e, vs, as)
          = IF t.type = "VOID" THEN t ELSE AfterCheck(UnaryType(e.op, t.type), t.errors)
    BY <1>4 DEF ResolveFrom
  <2> HIDE DEF t
  <2>3. t.type \in Types /\ t.errors \in Nat
    BY <2>1 DEF Resolutions
  <2>4. AfterCheck(UnaryType(e.op, t.type), t.errors) \in Resolutions
    BY <2>1, <2>3, OperatorTypes, Checks
  <2> QED
    BY <2>1, <2>2, <2>4
<1>5. CASE e.kind = "binary"
  <2> DEFINE l == f[e.left]
             r == f[e.right]
             n == l.errors + r.errors
  <2>1. l \in Resolutions /\ r \in Resolutions /\ e.op \in Arithmetic \cup Relational \cup Logical
    BY <1>5, PartsOfKinds, ExprsAssumption DEF IsExpr
  <2>2. ResolveFrom(f, e, vs, as)
          = IF "VOID" \in {l.type, r.type} THEN Resolved("VOID", n)
            ELSE AfterCheck(BinaryType(e.op, l.type, r.type), n)
    BY <1>5 DEF ResolveFrom
  <2> HIDE DEF l, r
  <2>3. l.type \in Types /\ r.type \in Types /\ n \in Nat
    BY <2>1 DEF Resolutions
  <2> HIDE DEF n
  <2>4. AfterCheck(BinaryType(e.op, l.type, r.type), n) \in Resolutions
    BY <2>1, <2>3, OperatorTypes, Checks
  <2>5. Resolved("VOID", n) \in Resolutions
    BY <1>0, <2>3 DEF Resolved, Resolutions
  <2> QED
    BY <2>2, <2>4, <2>5
<1>6. CASE e.kind = "call"
  <2> DEFINE given == [i \in DOMAIN e.args |-> f[e.args[i]]]
             n == Len(e.args)
             types == as[e.name].args
             c == CheckedArgs(given, types)
  <2>1. n \in Nat /\ DOMAIN given = 1 .. n /\ Len(given) = n
        /\ \A i \in 1 .. n : given[i] \in Resolutions
    BY <1>6, PartsOfKinds, LenProperties
  <2>2. \/ ResolveFrom(f, e, vs, as) = Resolved("VOID", 1)
        \/ /\ e.name \in DOMAIN as
           /\ ResolveFrom(f, e, vs, as)
                = Resolved(IF c.fine THEN as[e.name].returns ELSE "VOID", c.errors)
    <3>1. CASE e.name \notin DOMAIN as \/ Len(e.args) # Len(types)
      BY <1>6, <3>1 DEF ResolveFrom
    <3>2. CASE ~(e.name \notin DOMAIN as \/ Len(e.args) # Len(types))
      BY <1>6, <3>2 DEF ResolveFrom
    <3> QED
      BY <3>1, <3>2
  <2> HIDE DEF given, n, types
  <2>3. c.fine \in BOOLEAN /\ c.errors \in Nat
    BY <2>1, ArgsChecked
  <2> HIDE DEF c
  <2>4. e.name \in DOMAIN as => as[e.name].returns \in Types
    BY DEF TypedSchema
  <2>5. CASE ResolveFrom(f, e, vs, as) = Resolved("VOID", 1)
    BY <1>0, <2>5 DEF Resolved, Resolutions
  <2>6. CASE /\ e.name \in DOMAIN as
             /\ ResolveFrom(f, e, vs, as)
                  = Resolved(IF c.fine THEN as[e.name].returns ELSE "VOID", c.errors)
    <3> DEFINE t == IF c.fine THEN as[e.name].returns ELSE "VOID"
    <3>1. t \in Types
      BY <1>0, <2>4, <2>6
    <3> HIDE DEF t
    <3>2. Resolved(t, c.errors) \in Resolutions
      BY <2>3, <3>1 DEF Resolved, Resolutions
    <3> QED
      BY <2>6, <3>2 DEF t
  <2> QED
    BY <2>2, <2>5, <2>6
<1> QED
  BY <1>1, <1>2, <1>3, <1>4, <1>5, <1>6, ExprsAssumption DEF IsExpr

\* and rests on those of the parts.
LEMMA ResolvesByParts ==
  ASSUME NEW vs, NEW as, NEW e \in Exprs, NEW f, NEW g, \A d \in PartsOf(e) : f[d] = g[d]
  PROVE  ResolveFrom(f, e, vs, as) = ResolveFrom(g, e, vs, as)
<1>1. CASE e.kind = "array"
  <2>1. [i \in DOMAIN e.items |-> f[e.items[i]]] = [i \in DOMAIN e.items |-> g[e.items[i]]]
    BY <1>1, PartsOfKinds
  <2> QED
    BY <1>1, <2>1 DEF ResolveFrom
<1>2. CASE e.kind = "call"
  <2>1. [i \in DOMAIN e.args |-> f[e.args[i]]] = [i \in DOMAIN e.args |-> g[e.args[i]]]
    BY <1>2, PartsOfKinds
  <2> QED
    BY <1>2, <2>1 DEF ResolveFrom
<1>3. CASE e.kind = "unary"
  <2>1. f[e.arg] = g[e.arg]
    BY <1>3, PartsOfKinds
  <2> QED
    BY <1>3, <2>1 DEF ResolveFrom
<1>4. CASE e.kind = "binary"
  <2>1. f[e.left] = g[e.left] /\ f[e.right] = g[e.right]
    BY <1>4, PartsOfKinds
  <2> QED
    BY <1>4, <2>1 DEF ResolveFrom
<1>5. CASE e.kind \in {"literal", "id"}
  BY <1>5 DEF ResolveFrom
<1> QED
  BY <1>1, <1>2, <1>3, <1>4, <1>5, ExprsAssumption DEF IsExpr

Resolver(vs, as) == [e \in Exprs |-> ResolveIn(e, vs, as)]

\* The recursion of resolve_expr_type has a solution.
LEMMA ResolveUnfolds ==
  ASSUME NEW vs, NEW as, TypedSchema(vs, as)
  PROVE  \A e \in Exprs : /\ ResolveIn(e, vs, as) \in Resolutions
                          /\ ResolveIn(e, vs, as) = ResolveFrom(Resolver(vs, as), e, vs, as)
<1> DEFINE V == Resolutions
           G == [f \in [Exprs -> V] |-> [e \in Exprs |-> ResolveFrom(f, e, vs, as)]]
           Solves(f) == f = [e \in Exprs |-> ResolveFrom(f, e, vs, as)]
           h == CHOOSE f : Solves(f)
<1>1. \A f \in [Exprs -> V] : G[f] \in [Exprs -> V]
  <2> SUFFICES ASSUME NEW f \in [Exprs -> V], NEW e \in Exprs
               PROVE  ResolveFrom(f, e, vs, as) \in V
    OBVIOUS
  <2>1. \A d \in PartsOf(e) : f[d] \in V
    BY PartsAreExprs
  <2> QED
    BY <2>1, ResolvesTo
<1>2. ASSUME NEW f \in [Exprs -> V], NEW g \in [Exprs -> V], NEW e \in Exprs,
             \A d \in PartsOf(e) : f[d] = g[d]
      PROVE  G[f][e] = G[g][e]
  <2>1. ResolveFrom(f, e, vs, as) = ResolveFrom(g, e, vs, as)
    <3>1. \A d \in PartsOf(e) : f[d] = g[d]
      BY <1>2
    <3> HIDE DEF V, G, Solves, h
    <3> QED
      BY <3>1, ResolvesByParts, Zenon
  <2> QED
    BY <2>1
<1>3. \E f \in [Exprs -> V] : f = G[f]
  <2>1. \A f \in [Exprs -> V] : \A g \in [Exprs -> V] : \A e \in Exprs :
          (\A d \in PartsOf(e) : f[d] = g[d]) => G[f][e] = G[g][e]
    BY <1>2
  <2>2. V # {}
    <3>1. Resolved("VOID", 0) \in V
      BY DEF Resolved, Resolutions, Types
    <3> QED
      BY <3>1
  <2> HIDE DEF G, V
  <2>3. RestsOnParts(G, V)
    BY <1>1, <2>1, <2>2 DEF RestsOnParts
  <2> QED
    BY <2>3, Recursion
<1>4. \E f : Solves(f)
  BY <1>3
<1>5. Solves(h)
  <2> HIDE DEF Solves
  <2> QED
    BY <1>4
<1>6. \A e \in Exprs : ResolveIn(e, vs, as) = h[e]
  BY DEF ResolveIn
<1> HIDE DEF h
<1>7. \A e \in Exprs : h[e] = ResolveFrom(h, e, vs, as)
  BY <1>5
<1> DEFINE S == {e \in Exprs : h[e] \in V}
<1>8. Exprs \subseteq S
  <2>1. \A e \in Exprs : PartsOf(e) \subseteq S => e \in S
    <3> SUFFICES ASSUME NEW e \in Exprs, PartsOf(e) \subseteq S PROVE h[e] \in V
      OBVIOUS
    <3>1. \A d \in PartsOf(e) : h[d] \in Resolutions
      OBVIOUS
    <3> HIDE DEF S
    <3> QED
      BY <1>7, <3>1, ResolvesTo
  <2> HIDE DEF S
  <2> QED
    BY <2>1, Structural
<1>9. ASSUME NEW e \in Exprs PROVE h[e] = ResolveFrom(Resolver(vs, as), e, vs, as)
  <2>1. \A d \in PartsOf(e) : h[d] = Resolver(vs, as)[d]
    BY <1>6, PartsAreExprs DEF Resolver
  <2>2. ResolveFrom(h, e, vs, as) = ResolveFrom(Resolver(vs, as), e, vs, as)
    BY <2>1, ResolvesByParts
  <2>3. h[e] = ResolveFrom(h, e, vs, as)
    BY <1>7
  <2> QED
    BY <2>2, <2>3
<1>10. ASSUME NEW e \in Exprs PROVE h[e] \in Resolutions
  BY <1>8
<1> QED
  BY <1>6, <1>9, <1>10

(***************************************************************************)
(* The types of values: an operator that resolves to a type gives a value of*)
(* that type, or none, for operands of the types it was resolved for.      *)
(***************************************************************************)
\* Within is what its definition says.
LEMMA WithinUnfolds ==
  \A e \in Exprs : /\ Within[e] \subseteq Exprs
                   /\ Within[e] = {e} \cup UNION {Within[d] : d \in PartsOf(e)}
<1> DEFINE V == SUBSET Exprs
           From(f, e) == {e} \cup UNION {f[d] : d \in PartsOf(e)}
           G == [f \in [Exprs -> V] |-> [e \in Exprs |-> From(f, e)]]
<1>1. \A f \in [Exprs -> V] : G[f] \in [Exprs -> V]
  <2> SUFFICES ASSUME NEW f \in [Exprs -> V], NEW e \in Exprs PROVE From(f, e) \in V
    OBVIOUS
  <2>1. \A d \in PartsOf(e) : f[d] \subseteq Exprs
    BY PartsAreExprs
  <2> QED
    BY <2>1
<1>2. ASSUME NEW f \in [Exprs -> V], NEW g \in [Exprs -> V], NEW e \in Exprs,
             \A d \in PartsOf(e) : f[d] = g[d]
      PROVE  G[f][e] = G[g][e]
  <2>1. {f[d] : d \in PartsOf(e)} = {g[d] : d \in PartsOf(e)}
    BY <1>2
  <2>2. From(f, e) = From(g, e)
    BY <2>1
  <2> QED
    BY <2>2
<1>3. \E f \in [Exprs -> V] : f = G[f]
  <2>1. \A f \in [Exprs -> V] : \A g \in [Exprs -> V] : \A e \in Exprs :
          (\A d \in PartsOf(e) : f[d] = g[d]) => G[f][e] = G[g][e]
    BY <1>2
  <2>2. V # {}
    OBVIOUS
  <2> HIDE DEF G, V
  <2>3. RestsOnParts(G, V)
    BY <1>1, <2>1, <2>2 DEF RestsOnParts
  <2> QED
    BY <2>3, Recursion
<1>4. \E f : f = [e \in Exprs |-> From(f, e)]
  BY <1>3
<1>5. Within = [e \in Exprs |-> From(Within, e)]
  BY <1>4 DEF Within
<1>6. \A e \in Exprs : Within[e] = From(Within, e)
  BY <1>5
<1> DEFINE S == {e \in Exprs : Within[e] \subseteq Exprs}
<1>7. \A e \in Exprs : PartsOf(e) \subseteq S => e \in S
  <2> SUFFICES ASSUME NEW e \in Exprs, PartsOf(e) \subseteq S PROVE From(Within, e) \subseteq Exprs
    BY <1>6
  <2> QED
    OBVIOUS
<1>8. Exprs \subseteq S
  <2> HIDE DEF S
  <2> QED
    BY <1>7, Structural
<1> QED
  BY <1>6, <1>8

\* What is within a part of an expression is within the expression.
LEMMA WithinParts ==
  ASSUME NEW e \in Exprs
  PROVE  /\ e \in Within[e]
         /\ \A d \in PartsOf(e) : Within[d] \subseteq Within[e]
         /\ \A x \in Within[e] : x = e \/ \E d \in PartsOf(e) : x \in Within[d]
<1>1. Within[e] = {e} \cup UNION {Within[d] : d \in PartsOf(e)}
  BY WithinUnfolds
<1> QED
  BY <1>1

\* What is within something within an expression is within the expression.
LEMMA WithinWithin == \A e \in Exprs : \A x \in Within[e] : Within[x] \subseteq Within[e]
<1> DEFINE S == {e \in Exprs : \A x \in Within[e] : Within[x] \subseteq Within[e]}
<1>1. ASSUME NEW e \in Exprs, PartsOf(e) \subseteq S PROVE e \in S
  <2> SUFFICES ASSUME NEW x \in Within[e] PROVE Within[x] \subseteq Within[e]
    OBVIOUS
  <2>1. CASE x = e
    BY <2>1
  <2>2. ASSUME NEW d \in PartsOf(e), x \in Within[d] PROVE Within[x] \subseteq Within[e]
    <3>1. Within[x] \subseteq Within[d]
      BY <1>1, <2>2
    <3>2. Within[d] \subseteq Within[e]
      BY WithinParts
    <3> QED
      BY <3>1, <3>2
  <2> QED
    BY <2>1, <2>2, WithinParts
<1>2. Exprs \subseteq S
  <2>1. \A e \in Exprs : PartsOf(e) \subseteq S => e \in S
    BY <1>1
  <2> HIDE DEF S
  <2> QED
    BY <2>1, Structural
<1> QED
  BY <1>2

\* The walk of an expression that was resolved to type t: no type error, and a value
\* that may occur there.
TypedWalk(t, w) == w.error # "TYPE_ERROR" /\ OfType(t, w.value)

\* No value may occur anywhere.
LEMMA VoidIsOfAnyType == \A t : OfType(t, Void)
  BY DEF OfType, Void, Value

\* What an operator makes of values of the types it was resolved for.
TypedOutcome(t, o) == o.status # "TYPE_ERROR" /\ (Usable(o) => OfType(t, o.value))

\* The walk that goes on with such an outcome.
LEMMA OutcomeWalk ==
  ASSUME NEW t, NEW o, NEW n, TypedOutcome(t, o)
  PROVE  TypedWalk(t, AsWalked(o, n))
<1>1. AsWalked(o, n) = IF Usable(o) THEN Walked(o.value, n, "NONE") ELSE Walked(Void, n, o.status)
  BY DEF AsWalked
<1>2. CASE Usable(o)
  <2>1. TypedWalk(t, Walked(o.value, n, "NONE"))
    BY <1>2 DEF TypedOutcome, TypedWalk, Walked
  <2> QED
    BY <1>1, <1>2, <2>1
<1>3. CASE ~Usable(o)
  <2>1. TypedWalk(t, Walked(Void, n, o.status))
    BY VoidIsOfAnyType DEF TypedOutcome, TypedWalk, Walked
  <2> QED
    BY <1>1, <1>3, <2>1
<1> QED
  BY <1>2, <1>3

\* So is a failure that is not a type error.
LEMMA FailsTyped == \A t, s : s # "TYPE_ERROR" => TypedOutcome(t, Fails(s))
  BY VoidIsOfAnyType DEF TypedOutcome, Fails, Outcome

\* A value of the type is such an outcome.
LEMMA GivesTyped ==
  ASSUME NEW t, NEW s, s # "TYPE_ERROR", NEW v, OfType(t, v)
  PROVE  TypedOutcome(t, Outcome(s, v))
  BY DEF TypedOutcome, Outcome

\* The types of the values that are made.
LEMMA Made ==
  /\ \A t, n : Value(t, n).type = t
  /\ \A b : Bool(b).type = "BOOL"
  /\ \A v : v.type = "BOOL" => OfType("BOOL", v)
  BY DEF Value, Bool, OfType

\* A result that is checked for overflow has the type it is checked for.
LEMMA CheckedTyped ==
  ASSUME NEW t, NEW n, NEW u, u = t \/ (u = "FLOAT" /\ t \in Numeric)
  PROVE  TypedOutcome(u, Checked(t, n))
<1>1. TypedOutcome(u, Outcome("OK", Value(t, n)))
  <2>1. OfType(u, Value(t, n))
    BY Made DEF OfType
  <2> QED
    BY <2>1, GivesTyped
<1>2. TypedOutcome(u, Fails("OVERFLOW"))
  BY FailsTyped
<1> QED
  BY <1>1, <1>2 DEF Checked

\* Unary operators on values of the types they are resolved for.
LEMMA UnaryTyped ==
  ASSUME NEW op \in {"NOT", "NEG"}, NEW t \in Types, NEW v, OfType(t, v),
         UnaryType(op, t) # "VOID"
  PROVE  TypedOutcome(UnaryType(op, t), Unop(op, v))
<1> DEFINE u == UnaryType(op, t)
<1>1. CASE op = "NOT"
  <2>1. t = "BOOL" /\ u = "BOOL"
    BY <1>1 DEF UnaryType
  <2>2. v.type \in {"VOID", "BOOL"}
    BY <2>1 DEF OfType
  <2>3. \E s \in {"OK", "VOID_OPERAND"} : \E b : Unop(op, v) = Outcome(s, Bool(b))
    BY <1>1, <2>2 DEF Unop
  <2>4. \A b : OfType("BOOL", Bool(b))
    BY Made
  <2> HIDE DEF u
  <2> QED
    BY <2>1, <2>3, <2>4, GivesTyped DEF u
<1>2. CASE op = "NEG"
  <2>1. t \in Numeric /\ u = t
    BY <1>2 DEF UnaryType
  <2>2. v.type = "VOID" \/ (v.type \in Numeric /\ (u = v.type \/ u = "FLOAT"))
    BY <2>1 DEF OfType, Numeric
  <2> HIDE DEF u
  <2>3. CASE v.type = "VOID"
    <3>1. Unop(op, v) = Outcome("VOID_OPERAND", Void)
      BY <1>2, <2>3 DEF Unop
    <3>2. TypedOutcome(u, Outcome("VOID_OPERAND", Void))
      BY VoidIsOfAnyType, GivesTyped
    <3> QED
      BY <3>1, <3>2 DEF u
  <2>4. CASE v.type \in {"INT", "LONG"}
    <3>1. Unop(op, v) = Checked(v.type, -v.data)
      BY <1>2, <2>4 DEF Unop
    <3>2. TypedOutcome(u, Checked(v.type, -v.data))
      <4>1. u = v.type \/ (u = "FLOAT" /\ v.type \in Numeric)
        BY <2>2, <2>4
      <4> QED
        BY <4>1, CheckedTyped
    <3> QED
      BY <3>1, <3>2 DEF u
  <2>5. CASE v.type = "FLOAT"
    <3>1. Unop(op, v) = Outcome("OK", Value("FLOAT", -v.data)) /\ u = "FLOAT"
      BY <1>2, <2>2, <2>5 DEF Unop
    <3>2. OfType(u, Value("FLOAT", -v.data))
      BY <3>1, Made DEF OfType
    <3>3. TypedOutcome(u, Outcome("OK", Value("FLOAT", -v.data)))
      BY <3>2, GivesTyped
    <3> QED
      BY <3>1, <3>3 DEF u
  <2> QED
    BY <2>2, <2>3, <2>4, <2>5 DEF Numeric
<1> QED
  BY <1>1, <1>2

\* What a comparison gives is BOOL.
LEMMA BoolsTyped == \A b : TypedOutcome("BOOL", Outcome("OK", Bool(b)))
  BY Made, GivesTyped

\* No operator is of two kinds.
LEMMA Operators ==
  /\ \A op \in Logical : op \notin Arithmetic /\ op \notin Relational
  /\ \A op \in Arithmetic : op \notin Relational
  /\ \A op \in {"EQ", "NE"} : op \in Relational
  /\ \A op \in {"ADD", "SUB", "DIV"} : op \in Arithmetic
  BY DEF Logical, Arithmetic, Relational

\* Comparisons of values whose types may be compared.
LEMMA ComparisonTyped ==
  ASSUME NEW op \in Relational, NEW l \in Types, NEW r \in Types, NEW a, NEW b,
         OfType(l, a), OfType(r, b), ComparisonType(op, l, r) # "VOID",
         l # "VOID", l # "ARRAY" \/ r # "ARRAY"
  PROVE  TypedOutcome("BOOL", Binop(op, a, b))
<1>1. (l = r \/ {l, r} \subseteq Numeric) /\ (l = "STRING" => op \in {"EQ", "NE"})
  BY DEF ComparisonType
<1>2. op \notin Arithmetic /\ op # "DIV"
  BY Operators
<1>3. CASE "VOID" \in {a.type, b.type}
  <2>1. Binop(op, a, b) = Outcome("VOID_OPERAND", Bool(FALSE))
    BY <1>2, <1>3 DEF Binop
  <2>2. OfType("BOOL", Bool(FALSE))
    BY Made
  <2>3. TypedOutcome("BOOL", Outcome("VOID_OPERAND", Bool(FALSE)))
    BY <2>2, GivesTyped
  <2> QED
    BY <2>1, <2>3
<1>4. CASE "VOID" \notin {a.type, b.type} /\ {l, r} \subseteq Numeric
  <2>1. {a.type, b.type} \subseteq Numeric
    BY <1>4 DEF OfType
  <2>2. Binop(op, a, b) = Numbers(op, a, b)
    BY <1>2, <1>4, <2>1 DEF Binop, Numeric
  <2>3. \E c : Numbers(op, a, b) = Outcome("OK", Bool(c))
    BY DEF Numbers
  <2> QED
    BY <2>2, <2>3, BoolsTyped
<1>5. CASE "VOID" \notin {a.type, b.type} /\ l = r /\ l \notin Numeric
  <2>1. a.type = l /\ b.type = l
    BY <1>5 DEF OfType, Numeric
  <2>2. CASE l = "STRING"
    <3>1. \E c : Binop(op, a, b) = Outcome("OK", Bool(c))
      BY <1>1, <1>2, <2>1, <2>2 DEF Binop, Strings
    <3> QED
      BY <3>1, BoolsTyped
  <2>3. CASE l = "DATE"
    <3>1. Binop(op, a, b) = Dates(op, a, b)
      BY <1>2, <2>1, <2>3 DEF Binop
    <3>2. op # "SUB"
      BY DEF Relational
    <3>3. Dates(op, a, b) = Outcome("OK", Bool(Holds(op, a.data, b.data)))
      BY <2>1, <2>3, <3>2 DEF Dates
    <3> QED
      BY <3>1, <3>3, BoolsTyped
  <2>4. CASE l = "BOOL"
    <3>1. \E c : Binop(op, a, b) = Outcome("OK", Bool(c))
      BY <1>2, <2>1, <2>4 DEF Binop, Booleans
    <3> QED
      BY <3>1, BoolsTyped
  <2> QED
    BY <1>5, <2>2, <2>3, <2>4 DEF Types, Numeric
<1> QED
  BY <1>1, <1>3, <1>4, <1>5

\* What one adds to a date is a number.
LEMMA MovedTyped ==
  ASSUME NEW op, NEW date, NEW days, days.type \in Numeric
  PROVE  TypedOutcome("DATE", Moved(op, date, days))
<1>1. \E n : Moved(op, date, days) = Outcome("OK", Value("DATE", n))
  BY DEF Moved
<1>2. \A n : OfType("DATE", Value("DATE", n))
  BY Made DEF OfType
<1> QED
  BY <1>1, <1>2, GivesTyped

\* Arithmetic on values whose types allow it.
LEMMA ArithmeticTyped ==
  ASSUME NEW op \in Arithmetic, NEW l \in Types, NEW r \in Types, NEW a, NEW b,
         OfType(l, a), OfType(r, b), ArithmeticType(op, l, r) # "VOID"
  PROVE  TypedOutcome(ArithmeticType(op, l, r), Binop(op, a, b))
<1> DEFINE t == ArithmeticType(op, l, r)
<1>0. op \notin Relational /\ "DATE" \notin Numeric
  BY Operators DEF Numeric
<1>1. CASE op = "DIV" /\ IsZeroDivisor(b)
  <2>1. Binop(op, a, b) = Fails("DIV_ZERO")
    BY <1>1 DEF Binop
  <2> QED
    BY <2>1, FailsTyped
<1>2. CASE ~(op = "DIV" /\ IsZeroDivisor(b)) /\ "VOID" \in {a.type, b.type}
  <2>1. Binop(op, a, b) = Outcome("VOID_OPERAND", Void)
    BY <1>0, <1>2 DEF Binop
  <2> QED
    BY <2>1, VoidIsOfAnyType, GivesTyped
<1>3. CASE ~(op = "DIV" /\ IsZeroDivisor(b)) /\ "VOID" \notin {a.type, b.type}
  <2>1. CASE l = "DATE" /\ r = "DATE" /\ op = "SUB"
    <3>1. t = "INT"
      BY <1>0, <2>1 DEF ArithmeticType
    <3>2. a.type = "DATE" /\ b.type = "DATE"
      BY <1>3, <2>1 DEF OfType
    <3>3. Binop(op, a, b) = Dates(op, a, b)
      BY <1>3, <3>2 DEF Binop
    <3>4. Dates(op, a, b) = Checked("INT", Quotient(a.data - b.data, Day))
      BY <1>0, <2>1, <3>2 DEF Dates
    <3>5. TypedOutcome("INT", Checked("INT", Quotient(a.data - b.data, Day)))
      BY CheckedTyped
    <3> QED
      BY <3>1, <3>3, <3>4, <3>5
  <2>2. CASE l = "DATE" /\ r \in Numeric /\ op \in {"ADD", "SUB"}
    <3>1. t = "DATE"
      BY <1>0, <2>2 DEF ArithmeticType
    <3>2. a.type = "DATE" /\ b.type \in Numeric /\ b.type # "DATE"
      BY <1>0, <1>3, <2>2 DEF OfType
    <3>3. Binop(op, a, b) = Dates(op, a, b)
      BY <1>3, <3>2 DEF Binop, Numeric
    <3>4. Dates(op, a, b) = Moved(op, a, b)
      BY <2>2, <3>2 DEF Dates
    <3> QED
      BY <3>1, <3>2, <3>3, <3>4, MovedTyped
  <2>3. CASE r = "DATE" /\ l \in Numeric /\ op = "ADD"
    <3>1. t = "DATE"
      BY <1>0, <2>3 DEF ArithmeticType
    <3>2. b.type = "DATE" /\ a.type \in Numeric /\ a.type # "DATE"
      BY <1>0, <1>3, <2>3 DEF OfType
    <3>3. Binop(op, a, b) = Dates(op, a, b)
      BY <1>3, <3>2 DEF Binop, Numeric
    <3>4. Dates(op, a, b) = Moved(op, b, a)
      BY <2>3, <3>2 DEF Dates
    <3> QED
      BY <3>1, <3>2, <3>3, <3>4, MovedTyped
  <2>4. CASE {l, r} \subseteq Numeric
    <3>0. l # "DATE" /\ r # "DATE"
      BY <1>0, <2>4
    <3>1. t = Widest({l, r})
      BY <2>4, <3>0 DEF ArithmeticType
    <3>2. /\ Widest({l, r}) \in {l, r}
          /\ \/ Widest({l, r}) = "FLOAT"
             \/ Widest({l, r}) = "LONG" /\ "FLOAT" \notin {l, r}
             \/ {l, r} = {"INT"}
      <4>1. \E u \in {l, r} : u = "FLOAT" \/ (u = "LONG" /\ "FLOAT" \notin {l, r}) \/ {l, r} = {"INT"}
        BY <2>4 DEF Numeric
      <4> QED
        BY <4>1 DEF Widest
    <3>3. {a.type, b.type} \subseteq Numeric
      BY <1>3, <2>4 DEF OfType
    <3>4. Binop(op, a, b) = Numbers(op, a, b)
      BY <1>3, <3>3 DEF Binop, Numeric
    <3>5. (l # "FLOAT" => a.type = l) /\ (r # "FLOAT" => b.type = r)
      BY <1>3 DEF OfType
    <3>6. CASE "FLOAT" \in {a.type, b.type}
      <4>1. t = "FLOAT"
        BY <3>1, <3>2, <3>5, <3>6
      <4>2. \E n : Numbers(op, a, b) = Outcome("OK", Value("FLOAT", n))
        BY <1>0, <3>6 DEF Numbers
      <4>3. \A n : OfType("FLOAT", Value("FLOAT", n))
        BY Made DEF OfType
      <4> HIDE DEF t
      <4> QED
        BY <3>4, <4>1, <4>2, <4>3, GivesTyped DEF t
    <3>7. CASE "FLOAT" \notin {a.type, b.type}
      <4> DEFINE w == IF "LONG" \in {a.type, b.type} THEN "LONG" ELSE "INT"
      <4>1. Numbers(op, a, b) = Checked(w, Exact(op, a.data, b.data))
        BY <1>0, <3>7 DEF Numbers
      <4>2. t = w \/ (t = "FLOAT" /\ w \in Numeric)
        <5>1. w \in Numeric
          BY DEF Numeric
        <5>2. CASE t = "FLOAT"
          BY <5>1, <5>2
        <5>3. CASE t = "LONG" /\ "FLOAT" \notin {l, r}
          BY <3>1, <3>2, <3>5, <5>3
        <5>4. CASE {l, r} = {"INT"}
          BY <3>1, <3>2, <3>5, <5>4
        <5> HIDE DEF t, w
        <5> QED
          BY <3>1, <3>2, <5>2, <5>3, <5>4
      <4> HIDE DEF t, w
      <4>3. TypedOutcome(t, Checked(w, Exact(op, a.data, b.data)))
        BY <4>2, CheckedTyped
      <4> QED
        BY <3>4, <4>1, <4>3 DEF t
    <3> QED
      BY <3>6, <3>7
  <2> QED
    BY <2>1, <2>2, <2>3, <2>4 DEF ArithmeticType
<1> QED
  BY <1>1, <1>2, <1>3

\* A walk of an operator's operands that are of the types they were resolved to.
LEMMA BinaryTyped ==
  ASSUME NEW op \in Arithmetic \cup Relational \cup Logical, NEW tl \in Types, NEW tr \in Types,
         NEW l, NEW r, TypedWalk(tl, l), TypedWalk(tr, r),
         BinaryType(op, tl, tr) # "VOID", tl # "VOID", tr # "VOID",
         op \in Relational => tl # "ARRAY" \/ tr # "ARRAY"
  PROVE  TypedWalk(BinaryType(op, tl, tr), BinaryWalk(op, l, r))
<1> DEFINE t == BinaryType(op, tl, tr)
           w == BinaryWalk(op, l, r)
           both == l.nodes + r.nodes + 1
<1>1. CASE Failed(l)
  <2>1. w = Walked(Void, l.nodes + 1, l.error)
    BY <1>1 DEF BinaryWalk
  <2> QED
    BY <2>1, VoidIsOfAnyType DEF TypedWalk, Walked
<1>2. CASE ~Failed(l) /\ op \in Logical
  <2>1. t = "BOOL"
    BY <1>2, Operators DEF BinaryType, LogicalType
  <2>2. \/ \E b : \E n : w = Walked(Bool(b), n, "NONE")
        \/ \E n : w = Walked(Void, n, r.error)
        \/ \E n : \E k : w = Walked(Value("BOOL", n), k, "NONE")
    BY <1>2 DEF BinaryWalk
  <2> HIDE DEF t, w
  <2>3. \A v, n : v.type = "BOOL" => TypedWalk(t, Walked(v, n, "NONE"))
    BY <2>1, Made DEF TypedWalk, Walked
  <2>4. \A n : TypedWalk(t, Walked(Void, n, r.error))
    BY VoidIsOfAnyType DEF TypedWalk, Walked
  <2> QED
    BY <2>2, <2>3, <2>4, Made DEF t, w
<1>3. CASE ~Failed(l) /\ op \notin Logical /\ Failed(r)
  <2>1. w = Walked(Void, both, r.error)
    BY <1>3 DEF BinaryWalk
  <2> QED
    BY <2>1, VoidIsOfAnyType DEF TypedWalk, Walked
<1>4. CASE ~Failed(l) /\ op \notin Logical /\ ~Failed(r)
  <2>1. w = AsWalked(Binop(op, l.value, r.value), both)
    BY <1>4 DEF BinaryWalk
  <2>2. OfType(tl, l.value) /\ OfType(tr, r.value)
    BY DEF TypedWalk
  <2>3. TypedOutcome(t, Binop(op, l.value, r.value))
    <3>1. CASE op \in Arithmetic
      <4>1. t = ArithmeticType(op, tl, tr)
        BY <1>4, <3>1, Operators DEF BinaryType
      <4> QED
        BY <2>2, <3>1, <4>1, ArithmeticTyped
    <3>2. CASE op \in Relational
      <4>1. t = ComparisonType(op, tl, tr)
        BY <1>4, <3>2, Operators DEF BinaryType
      <4>2. t = "BOOL"
        BY <4>1 DEF ComparisonType
      <4>3. TypedOutcome("BOOL", Binop(op, l.value, r.value))
        BY <2>2, <3>2, <4>1, ComparisonTyped
      <4> QED
        BY <4>2, <4>3
    <3> QED
      BY <1>4, <3>1, <3>2
  <2> HIDE DEF t, both
  <2>4. TypedWalk(t, AsWalked(Binop(op, l.value, r.value), both))
    BY <2>3, OutcomeWalk
  <2> QED
    BY <2>1, <2>4 DEF t
<1> QED
  BY <1>1, <1>2, <1>3, <1>4

\* Of several walks the error is that of one of them.
LEMMA LastErrors ==
  ASSUME NEW n \in Nat, NEW walks, DOMAIN walks = 1 .. n
  PROVE  LastError(walks) = "NONE" \/ \E i \in 1 .. n : LastError(walks) = walks[i].error
<1> DEFINE failed == {i \in DOMAIN walks : Failed(walks[i])}
<1>1. LastError(walks) = IF failed = {} THEN "NONE" ELSE walks[Max(failed)].error
  BY DEF LastError
<1>2. failed # {} => Max(failed) \in 1 .. n
  <2>1. failed \subseteq Nat /\ failed \subseteq 1 .. n /\ \A s \in failed : s <= n
    OBVIOUS
  <2> HIDE DEF failed
  <2> QED
    BY <2>1, Greatest
<1> HIDE DEF failed
<1> QED
  BY <1>1, <1>2

(***************************************************************************)
(* An expression that resolves without errors, in a schema that conforms to*)
(* the context, is settled: it has the type it was resolved to.            *)
(***************************************************************************)
\* Values and errors of the walks of parts.
LEMMA PartsWalked ==
  ASSUME NEW n \in Nat, NEW s, DOMAIN s = 1 .. n, NEW types,
         \A i \in 1 .. n : TypedWalk(types[i], s[i])
  PROVE  /\ LastError(s) # "TYPE_ERROR"
         /\ DOMAIN ValuesOf(s) = 1 .. n
         /\ \A i \in 1 .. n : OfType(types[i], ValuesOf(s)[i])
<1>1. \A i \in 1 .. n : s[i].error # "TYPE_ERROR" /\ OfType(types[i], s[i].value)
  BY DEF TypedWalk
<1>2. LastError(s) # "TYPE_ERROR"
  BY <1>1, LastErrors
<1> QED
  BY <1>1, <1>2 DEF ValuesOf

\* The schema conforms to the context as far as a set of expressions goes, none of
\* which compares arrays.
ConformsFor(W) ==
  /\ TypedSchema(variables, actions)
  /\ W \subseteq Exprs
  /\ \A x \in W : PartsOf(x) \subseteq W
  /\ \A x \in DOMAIN variables :
       variables[x] # "VOID" /\ Lookup(x).type \in {"VOID", variables[x]}
  /\ \A e \in W :
       e.kind = "call" /\ e.name \in DOMAIN actions =>
         actions[e.name].returns # "VOID" /\ KeepsPromise(e)
  /\ ~ \E e \in W : ComparesArrays(e)

\* An expression was resolved without errors and has the type it was resolved to.
Settled(e) ==
  /\ Resolve(e).errors = 0 /\ Resolve(e).type # "VOID"
  /\ \A k \in 0 .. MaxExprDepth : TypedWalk(Resolve(e).type, Evaluated[e][k])

ResolvesWell(e) == Resolve(e).errors = 0 => Settled(e)

\* Resolve is the recursion its definition says.
LEMMA Resolving ==
  ASSUME TypedSchema(variables, actions)
  PROVE  \A e \in Exprs :
           /\ Resolve(e).type \in Types /\ Resolve(e).errors \in Nat
           /\ Resolve(e) \in Resolutions
           /\ Resolve(e) = ResolveFrom([d \in Exprs |-> Resolve(d)], e, variables, actions)
<1>1. \A e \in Exprs : Resolve(e) \in Resolutions
        /\ Resolve(e) = ResolveFrom([d \in Exprs |-> Resolve(d)], e, variables, actions)
  BY ResolveUnfolds DEF Resolve, Resolver
<1> QED
  BY <1>1 DEF Resolutions

\* Evaluated is the recursion its definition says, depth by depth.
LEMMA Walking ==
  ASSUME NEW e \in Exprs, NEW k \in 0 .. MaxExprDepth
  PROVE  Evaluated[e][k] =
     IF k = MaxExprDepth THEN Walked(Void, 0, "NONE")
     ELSE CASE e.kind = "literal" -> Walked(e.value, 1, "NONE")
       [] e.kind = "id" -> Walked(Lookup(e.name), 1, "NONE")
       [] e.kind = "array" ->
            LET items == [i \in DOMAIN e.items |-> Evaluated[e.items[i]][k + 1]] IN
            Walked(ArrayOf(ValuesOf(items)), 1 + SumOfNodes(items), LastError(items))
       [] e.kind = "unary" -> UnaryWalk(e.op, Evaluated[e.arg][k + 1])
       [] e.kind = "binary" ->
            BinaryWalk(e.op, Evaluated[e.left][k + 1], Evaluated[e.right][k + 1])
       [] e.kind = "call" ->
            CallWalk(e.name, [i \in DOMAIN e.args |-> Evaluated[e.args[i]][0]])
  BY EvaluatedUnfolds DEF EvaluatedFrom

\* The walk of an expression at the depth limit, and what it takes elsewhere.
LEMMA WalkedAs ==
  ASSUME NEW e \in Exprs, NEW t,
         \A k \in 0 .. MaxExprDepth : k # MaxExprDepth => TypedWalk(t, Evaluated[e][k])
  PROVE  \A k \in 0 .. MaxExprDepth : TypedWalk(t, Evaluated[e][k])
<1>1. MaxExprDepth \in 0 .. MaxExprDepth
  BY DepthAssumption
<1>2. Evaluated[e][MaxExprDepth] = Walked(Void, 0, "NONE")
  BY <1>1, Walking
<1>3. TypedWalk(t, Walked(Void, 0, "NONE"))
  BY VoidIsOfAnyType DEF TypedWalk, Walked
<1> QED
  BY <1>2, <1>3

\* Below the limit there is another level.
LEMMA Deeper == \A k \in 0 .. MaxExprDepth : k # MaxExprDepth => k + 1 \in 0 .. MaxExprDepth
  BY DepthAssumption

\* Each kind of expression is settled if its parts resolve well: literals,
LEMMA LiteralSound ==
  ASSUME NEW W, ConformsFor(W), NEW e \in W, e.kind = "literal"
  PROVE  ResolvesWell(e)
<1>1. e \in Exprs /\ TypedSchema(variables, actions)
  BY DEF ConformsFor
<1>2. Resolve(e) = Resolved(e.value.type, 0)
  BY <1>1, Resolving DEF ResolveFrom
<1>3. e.value.type \in Types \ {"VOID", "ARRAY"}
  BY <1>1, ExprsAssumption DEF IsExpr
<1>4. Resolve(e).type = e.value.type
  BY <1>2 DEF Resolved
<1>5. ASSUME NEW k \in 0 .. MaxExprDepth, k # MaxExprDepth PROVE TypedWalk(Resolve(e).type, Evaluated[e][k])
  <2>1. Evaluated[e][k] = Walked(e.value, 1, "NONE")
    BY <1>1, <1>5, Walking
  <2> QED
    BY <1>4, <2>1 DEF TypedWalk, Walked, OfType
<1> QED
  BY <1>1, <1>3, <1>4, <1>5, WalkedAs DEF ResolvesWell, Settled

\* variables,
LEMMA NameSound ==
  ASSUME NEW W, ConformsFor(W), NEW e \in W, e.kind = "id"
  PROVE  ResolvesWell(e)
<1>1. e \in Exprs /\ TypedSchema(variables, actions)
  BY DEF ConformsFor
<1> SUFFICES ASSUME Resolve(e).errors = 0 PROVE Settled(e)
  BY DEF ResolvesWell
<1>2. Resolve(e) = IF e.name \in DOMAIN variables THEN Resolved(variables[e.name], 0)
                   ELSE Resolved("VOID", 1)
  BY <1>1, Resolving DEF ResolveFrom
<1>3. e.name \in DOMAIN variables /\ Resolve(e).type = variables[e.name]
  BY <1>2 DEF Resolved
<1>4. variables[e.name] # "VOID" /\ Lookup(e.name).type \in {"VOID", variables[e.name]}
  BY <1>3 DEF ConformsFor
<1>5. ASSUME NEW k \in 0 .. MaxExprDepth, k # MaxExprDepth PROVE TypedWalk(Resolve(e).type, Evaluated[e][k])
  <2>1. Evaluated[e][k] = Walked(Lookup(e.name), 1, "NONE")
    BY <1>1, <1>5, Walking
  <2> QED
    BY <1>3, <1>4, <2>1 DEF TypedWalk, Walked, OfType
<1> QED
  BY <1>1, <1>3, <1>4, <1>5, WalkedAs DEF Settled

\* unary operators,
LEMMA UnarySound ==
  ASSUME NEW W, ConformsFor(W), NEW e \in W, e.kind = "unary",
         \A d \in PartsOf(e) : ResolvesWell(d)
  PROVE  ResolvesWell(e) /\ (Resolve(e).errors = 0 => \A d \in PartsOf(e) : Resolve(d).errors = 0)
<1>1. e \in Exprs /\ TypedSchema(variables, actions)
  BY DEF ConformsFor
<1>2. e.arg \in PartsOf(e) /\ PartsOf(e) = {e.arg} /\ e.arg \in Exprs /\ e.op \in {"NOT", "NEG"}
  BY <1>1, PartsOfKinds, PartsAreExprs, ExprsAssumption DEF PartsOf, IsExpr
<1> SUFFICES ASSUME Resolve(e).errors = 0 PROVE Settled(e) /\ Resolve(e.arg).errors = 0
  BY <1>2 DEF ResolvesWell
<1> DEFINE t == Resolve(e.arg)
           u == UnaryType(e.op, t.type)
<1>3. Resolve(e) = IF t.type = "VOID" THEN t ELSE AfterCheck(u, t.errors)
  BY <1>1, <1>2, Resolving DEF ResolveFrom
<1>4. t.type \in Types /\ t.errors \in Nat
  BY <1>1, <1>2, Resolving
<1>5. AfterCheck(u, t.errors).errors = (IF u = "VOID" THEN t.errors + 1 ELSE t.errors)
      /\ AfterCheck(u, t.errors).type = u
  BY DEF AfterCheck, Resolved
<1>6. t.errors = 0
  <2> HIDE DEF t, u
  <2> QED
    BY <1>3, <1>4, <1>5
<1>7. Settled(e.arg)
  BY <1>2, <1>6 DEF ResolvesWell
<1>8. t.type # "VOID" /\ Resolve(e).type = u /\ u # "VOID"
  <2>1. t.type # "VOID"
    BY <1>7 DEF Settled
  <2> HIDE DEF t, u
  <2> QED
    BY <1>3, <1>4, <1>5, <2>1
<1>9. ASSUME NEW k \in 0 .. MaxExprDepth, k # MaxExprDepth PROVE TypedWalk(Resolve(e).type, Evaluated[e][k])
  <2> DEFINE w == Evaluated[e.arg][k + 1]
  <2>1. Evaluated[e][k] = UnaryWalk(e.op, w)
    BY <1>1, <1>9, Walking
  <2>2. TypedWalk(t.type, w)
    BY <1>7, <1>9, Deeper DEF Settled
  <2> HIDE DEF t, u, w
  <2>3. OfType(t.type, w.value) /\ w.error # "TYPE_ERROR"
    BY <2>2 DEF TypedWalk
  <2>4. TypedOutcome(u, Unop(e.op, w.value))
    BY <1>2, <1>4, <1>8, <2>3, UnaryTyped DEF u
  <2>5. CASE Failed(w)
    <3>1. UnaryWalk(e.op, w) = Walked(Void, w.nodes + 1, w.error)
      BY <2>5 DEF UnaryWalk
    <3>2. TypedWalk(u, Walked(Void, w.nodes + 1, w.error))
      BY <2>3, VoidIsOfAnyType DEF TypedWalk, Walked
    <3> QED
      BY <1>8, <2>1, <3>1, <3>2
  <2>6. CASE ~Failed(w)
    <3>1. UnaryWalk(e.op, w) = AsWalked(Unop(e.op, w.value), w.nodes + 1)
      BY <2>6 DEF UnaryWalk
    <3> QED
      BY <1>8, <2>1, <2>4, <3>1, OutcomeWalk
  <2> QED
    BY <2>5, <2>6
<1> QED
  <2> HIDE DEF u
  <2>1. \A k \in 0 .. MaxExprDepth : TypedWalk(Resolve(e).type, Evaluated[e][k])
    BY <1>1, <1>9, WalkedAs
  <2> QED
    BY <1>6, <1>8, <2>1 DEF Settled

\* binary operators,
LEMMA BinarySound ==
  ASSUME NEW W, ConformsFor(W), NEW e \in W, e.kind = "binary",
         \A d \in PartsOf(e) : ResolvesWell(d)
  PROVE  ResolvesWell(e) /\ (Resolve(e).errors = 0 => \A d \in PartsOf(e) : Resolve(d).errors = 0)
<1>1. e \in Exprs /\ TypedSchema(variables, actions)
  BY DEF ConformsFor
<1>2. PartsOf(e) = {e.left, e.right} /\ {e.left, e.right} \subseteq Exprs
      /\ e.op \in Arithmetic \cup Relational \cup Logical
  BY <1>1, ExprsAssumption DEF PartsOf, IsExpr
<1> SUFFICES ASSUME Resolve(e).errors = 0
             PROVE  Settled(e) /\ Resolve(e.left).errors = 0 /\ Resolve(e.right).errors = 0
  BY <1>2 DEF ResolvesWell
<1> DEFINE l == Resolve(e.left)
           r == Resolve(e.right)
           n == l.errors + r.errors
           u == BinaryType(e.op, l.type, r.type)
<1>3. Resolve(e) = IF "VOID" \in {l.type, r.type} THEN Resolved("VOID", n) ELSE AfterCheck(u, n)
  BY <1>1, <1>2, Resolving DEF ResolveFrom
<1>4. l.type \in Types /\ l.errors \in Nat /\ r.type \in Types /\ r.errors \in Nat
  BY <1>1, <1>2, Resolving
<1>5. /\ AfterCheck(u, n).errors = IF u = "VOID" THEN n + 1 ELSE n
      /\ AfterCheck(u, n).type = u
      /\ Resolved("VOID", n).errors = n
  BY DEF AfterCheck, Resolved
<1>6. l.errors = 0 /\ r.errors = 0
  <2> HIDE DEF l, r, u
  <2> QED
    BY <1>3, <1>4, <1>5
<1>7. Settled(e.left) /\ Settled(e.right)
  BY <1>2, <1>6 DEF ResolvesWell
<1>8. l.type # "VOID" /\ r.type # "VOID" /\ Resolve(e).type = u /\ u # "VOID"
  <2>1. l.type # "VOID" /\ r.type # "VOID"
    BY <1>7 DEF Settled
  <2> HIDE DEF l, r, u
  <2> QED
    BY <1>3, <1>4, <1>5, <2>1
<1>9. e.op \in Relational => l.type # "ARRAY" \/ r.type # "ARRAY"
  BY DEF ConformsFor, ComparesArrays
<1>10. ASSUME NEW k \in 0 .. MaxExprDepth, k # MaxExprDepth PROVE TypedWalk(Resolve(e).type, Evaluated[e][k])
  <2> DEFINE a == Evaluated[e.left][k + 1]
             b == Evaluated[e.right][k + 1]
  <2>1. Evaluated[e][k] = BinaryWalk(e.op, a, b)
    BY <1>1, <1>10, Walking
  <2>2. TypedWalk(l.type, a) /\ TypedWalk(r.type, b)
    BY <1>7, <1>10, Deeper DEF Settled
  <2> HIDE DEF l, r, a, b
  <2>3. TypedWalk(u, BinaryWalk(e.op, a, b))
    BY <1>2, <1>4, <1>8, <1>9, <2>2, BinaryTyped
  <2> QED
    BY <1>8, <2>1, <2>3
<1> QED
  <2> HIDE DEF u
  <2>1. \A k \in 0 .. MaxExprDepth : TypedWalk(Resolve(e).type, Evaluated[e][k])
    BY <1>1, <1>10, WalkedAs
  <2> QED
    BY <1>6, <1>8, <2>1 DEF Settled

\* arrays
LEMMA ArraySound ==
  ASSUME NEW W, ConformsFor(W), NEW e \in W, e.kind = "array",
         \A d \in PartsOf(e) : ResolvesWell(d)
  PROVE  ResolvesWell(e) /\ (Resolve(e).errors = 0 => \A d \in PartsOf(e) : Resolve(d).errors = 0)
<1>1. e \in Exprs /\ TypedSchema(variables, actions)
  BY DEF ConformsFor
<1> DEFINE n == Len(e.items)
           items == [i \in DOMAIN e.items |-> Resolve(e.items[i])]
           bad == {i \in DOMAIN items : items[i].type = "VOID"}
<1>2. /\ n \in Nat /\ DOMAIN e.items = 1 .. n /\ DOMAIN items = 1 .. n /\ Len(items) = n
      /\ \A i \in 1 .. n : e.items[i] \in PartsOf(e) /\ e.items[i] \in Exprs
      /\ \A d \in PartsOf(e) : \E i \in 1 .. n : d = e.items[i]
  <2>1. e.items \in Seq(Exprs) /\ PartsOf(e) = ToSet(e.items)
    BY <1>1, ExprsAssumption DEF IsExpr, PartsOf
  <2> QED
    BY <2>1, LenProperties DEF ToSet
<1> SUFFICES ASSUME Resolve(e).errors = 0
             PROVE  Settled(e) /\ \A i \in 1 .. n : Resolve(e.items[i]).errors = 0
  BY <1>2 DEF ResolvesWell
<1>3. \A i \in 1 .. n : items[i] = Resolve(e.items[i]) /\ items[i].errors \in Nat
  BY <1>1, <1>2, Resolving
<1>4. Resolve(e) = IF bad = {} THEN Resolved("ARRAY", ErrorsOf(items, Len(items)))
                   ELSE Resolved("VOID", ErrorsOf(items, Min(bad)))
  <2>1. \A i \in 1 .. n : [d \in Exprs |-> Resolve(d)][e.items[i]] = Resolve(e.items[i])
    BY <1>2
  <2>2. items = [i \in DOMAIN e.items |-> [d \in Exprs |-> Resolve(d)][e.items[i]]]
    BY <1>2, <2>1
  <2> HIDE DEF items
  <2>3. Resolve(e) = ResolveFrom([d \in Exprs |-> Resolve(d)], e, variables, actions)
    BY <1>1, Resolving
  <2> DEFINE R == [d \in Exprs |-> Resolve(d)]
  <2> HIDE DEF R
  <2>4. Resolve(e) = ResolveFrom(R, e, variables, actions) /\ items = [i \in DOMAIN e.items |-> R[e.items[i]]]
    BY <2>2, <2>3 DEF R
  <2> QED
    BY <2>4 DEF ResolveFrom
<1>5. bad # {} => Min(bad) \in bad /\ Min(bad) \in 1 .. n
  <2>1. bad \subseteq 1 .. n /\ bad \subseteq Nat
    BY <1>2
  <2> HIDE DEF bad
  <2> QED
    BY <2>1, Least
<1>6. \A i \in bad : items[i].type = "VOID"
  OBVIOUS
<1>7. \A i \in 1 .. n : i \notin bad => items[i].type # "VOID"
  BY <1>2
<1> HIDE DEF items, bad
<1>8. bad = {}
  <2> SUFFICES ASSUME bad # {} PROVE FALSE
    OBVIOUS
  <2> DEFINE m == Min(bad)
  <2>1. m \in 1 .. n /\ items[m].type = "VOID"
    BY <1>5, <1>6
  <2>2. ErrorsOf(items, m) = 0
    BY <1>4 DEF Resolved
  <2> HIDE DEF m
  <2>3. \A i \in 1 .. m : items[i].errors \in Nat
    BY <1>2, <1>3, <2>1
  <2>4. items[m].errors = 0
    <3>1. m \in Nat /\ m \in 1 .. m
      BY <1>2, <2>1
    <3> QED
      BY <2>2, <2>3, <3>1, ErrorsAdd
  <2>5. Settled(e.items[m])
    BY <1>2, <1>3, <2>1, <2>4 DEF ResolvesWell
  <2> QED
    BY <1>3, <2>1, <2>5 DEF Settled
<1>9. Resolve(e).type = "ARRAY" /\ ErrorsOf(items, n) = 0
  BY <1>2, <1>4, <1>8 DEF Resolved
<1>10. \A i \in 1 .. n : items[i].errors = 0
  BY <1>2, <1>3, <1>9, ErrorsAdd
<1>11. \A i \in 1 .. n : Settled(e.items[i])
  BY <1>2, <1>3, <1>10 DEF ResolvesWell
<1>12. ASSUME NEW k \in 0 .. MaxExprDepth, k # MaxExprDepth PROVE TypedWalk(Resolve(e).type, Evaluated[e][k])
  <2> DEFINE s == [i \in DOMAIN e.items |-> Evaluated[e.items[i]][k + 1]]
             types == [i \in 1 .. n |-> items[i].type]
  <2>1. Evaluated[e][k] = Walked(ArrayOf(ValuesOf(s)), 1 + SumOfNodes(s), LastError(s))
    BY <1>1, <1>12, Walking
  <2>2. DOMAIN s = 1 .. n
    BY <1>2
  <2>3. \A i \in 1 .. n : TypedWalk(types[i], s[i])
    BY <1>2, <1>3, <1>11, <1>12, Deeper DEF Settled
  <2> HIDE DEF s, types, n
  <2>4. LastError(s) # "TYPE_ERROR"
    BY <1>2, <2>2, <2>3, PartsWalked
  <2>5. OfType("ARRAY", ArrayOf(ValuesOf(s)))
    BY DEF OfType, ArrayOf
  <2> QED
    BY <1>9, <2>1, <2>4, <2>5 DEF TypedWalk, Walked
<1>13. Settled(e)
  BY <1>1, <1>9, <1>12, WalkedAs DEF Settled
<1> QED
  BY <1>3, <1>10, <1>13

\* A value of the type an argument was resolved to is one the parameter takes.
LEMMA AcceptedTyped ==
  ASSUME NEW t, NEW given, NEW v, Accepts(t, given), OfType(given, v)
  PROVE  OfType(t, v)
  BY DEF Accepts, OfType, Numeric

\* Calls are settled if their arguments resolve well.
LEMMA CallSound ==
  ASSUME NEW W, ConformsFor(W), NEW e \in W, e.kind = "call",
         \A d \in PartsOf(e) : ResolvesWell(d)
  PROVE  ResolvesWell(e) /\ (Resolve(e).errors = 0 => \A d \in PartsOf(e) : Resolve(d).errors = 0)
<1>1. e \in Exprs /\ TypedSchema(variables, actions)
  BY DEF ConformsFor
<1> DEFINE n == Len(e.args)
           given == [i \in DOMAIN e.args |-> Resolve(e.args[i])]
           takes == actions[e.name].args
           c == CheckedArgs(given, takes)
           returns == actions[e.name].returns
<1>2. /\ n \in Nat /\ DOMAIN e.args = 1 .. n /\ DOMAIN given = 1 .. n /\ Len(given) = n
      /\ \A i \in 1 .. n : e.args[i] \in PartsOf(e) /\ e.args[i] \in Exprs
      /\ \A d \in PartsOf(e) : \E i \in 1 .. n : d = e.args[i]
  <2>1. e.args \in Seq(Exprs) /\ PartsOf(e) = ToSet(e.args)
    BY <1>1, ExprsAssumption DEF IsExpr, PartsOf
  <2> QED
    BY <2>1, LenProperties DEF ToSet
<1> SUFFICES ASSUME Resolve(e).errors = 0
             PROVE  Settled(e) /\ \A i \in 1 .. n : Resolve(e.args[i]).errors = 0
  BY <1>2 DEF ResolvesWell
<1>3. \A i \in 1 .. n : given[i] = Resolve(e.args[i]) /\ given[i] \in Resolutions
  BY <1>1, <1>2, Resolving
<1>4. Resolve(e) = IF e.name \notin DOMAIN actions THEN Resolved("VOID", 1)
                   ELSE IF n # Len(takes) THEN Resolved("VOID", 1)
                   ELSE Resolved(IF c.fine THEN returns ELSE "VOID", c.errors)
  <2> DEFINE R == [d \in Exprs |-> Resolve(d)]
  <2>1. given = [i \in DOMAIN e.args |-> R[e.args[i]]]
    BY <1>2
  <2> HIDE DEF R, given
  <2>2. Resolve(e) = ResolveFrom(R, e, variables, actions)
    BY <1>1, Resolving DEF R
  <2> QED
    BY <2>1, <2>2 DEF ResolveFrom
<1>5. e.name \in DOMAIN actions /\ n = Len(takes)
      /\ Resolve(e) = Resolved(IF c.fine THEN returns ELSE "VOID", c.errors)
  BY <1>4 DEF Resolved
<1> HIDE DEF c
<1>6. c.errors = 0 /\ Resolve(e).type = IF c.fine THEN returns ELSE "VOID"
  BY <1>5 DEF Resolved
<1>7. returns # "VOID" /\ KeepsPromise(e)
  BY <1>5 DEF ConformsFor
<1> HIDE DEF given
<1>8. c.fine /\ \A i \in 1 .. n : given[i].errors = 0 /\ Accepts(takes[i], given[i].type)
  <2>1. \/ c.fine /\ \A i \in 1 .. n : given[i].errors = 0
        \/ \E i \in 1 .. n : given[i].errors = 0 /\ given[i].type = "VOID"
    BY <1>2, <1>3, <1>6, ArgsChecked DEF c
  <2>2. c.fine => \A i \in 1 .. n : Accepts(takes[i], given[i].type)
    BY <1>2, <1>3, ArgsChecked DEF c
  <2>3. ASSUME NEW i \in 1 .. n, given[i].errors = 0, given[i].type = "VOID" PROVE FALSE
    <3>1. Settled(e.args[i])
      BY <1>2, <1>3, <2>3 DEF ResolvesWell
    <3> QED
      BY <1>3, <2>3, <3>1 DEF Settled
  <2> QED
    BY <2>1, <2>2, <2>3
<1>9. \A i \in 1 .. n : Settled(e.args[i])
  BY <1>2, <1>3, <1>8 DEF ResolvesWell
<1>10. Resolve(e).type = returns
  BY <1>6, <1>8
<1>11. ASSUME NEW k \in 0 .. MaxExprDepth, k # MaxExprDepth PROVE TypedWalk(Resolve(e).type, Evaluated[e][k])
  <2> DEFINE s == [i \in DOMAIN e.args |-> Evaluated[e.args[i]][0]]
             types == [i \in 1 .. n |-> given[i].type]
             values == [i \in DOMAIN e.args |-> Evaluate(e.args[i], 0).value]
  <2>1. Evaluated[e][k] = CallWalk(e.name, s)
    BY <1>1, <1>11, Walking
  <2>2. DOMAIN s = 1 .. n /\ 0 \in 0 .. MaxExprDepth
    BY <1>2, DepthAssumption
  <2>3. \A i \in 1 .. n : TypedWalk(types[i], s[i])
    BY <1>2, <1>3, <1>9, <2>2 DEF Settled
  <2>4. ValuesOf(s) = values
    BY DEF ValuesOf, Evaluate
  <2> HIDE DEF s, types
  <2>5. LastError(s) # "TYPE_ERROR" /\ \A i \in 1 .. n : OfType(types[i], ValuesOf(s)[i])
    BY <1>2, <2>2, <2>3, PartsWalked
  <2>6. \A i \in 1 .. n : OfType(takes[i], ValuesOf(s)[i])
    BY <1>8, <2>5, AcceptedTyped DEF types
  <2>7. CASE e.name \in Functions
    <3>1. CallWalk(e.name, s) = Walked(Apply(e.name, ValuesOf(s)), 1 + SumOfNodes(s), LastError(s))
      BY <2>7 DEF CallWalk
    <3>2. OfType(returns, Apply(e.name, values))
      <4>1. \A i \in DOMAIN e.args : OfType(takes[i], values[i])
        BY <1>2, <2>4, <2>6
      <4> QED
        BY <1>5, <1>7, <2>7, <4>1 DEF KeepsPromise
    <3> QED
      BY <1>10, <2>1, <2>4, <2>5, <3>1, <3>2 DEF TypedWalk, Walked
  <2>8. CASE e.name \notin Functions
    <3>1. CallWalk(e.name, s) = Walked(Void, 1, "NONE")
      BY <2>8 DEF CallWalk
    <3> QED
      BY <2>1, <3>1, VoidIsOfAnyType DEF TypedWalk, Walked
  <2> QED
    BY <2>7, <2>8
<1>12. Settled(e)
  <2>1. \A k \in 0 .. MaxExprDepth : TypedWalk(Resolve(e).type, Evaluated[e][k])
    BY <1>1, <1>11, WalkedAs
  <2>2. Resolve(e).type # "VOID"
    BY <1>7, <1>10
  <2> QED
    BY <2>1, <2>2 DEF Settled
<1> QED
  BY <1>3, <1>8, <1>12

\* An expression that resolves without errors is settled, and so are all within it.
Deep(e) == Resolve(e).errors = 0 => \A x \in Within[e] : Settled(x)

\* An expression of the rule that resolves without errors is settled with all within it.
LEMMA Soundness ==
  ASSUME NEW W, ConformsFor(W)
  PROVE  \A e \in W : Deep(e)
<1> DEFINE S == {e \in Exprs : e \in W => ResolvesWell(e) /\ Deep(e)}
<1>1. ASSUME NEW e \in Exprs, PartsOf(e) \subseteq S, e \in W PROVE ResolvesWell(e) /\ Deep(e)
  <2>1. \A d \in PartsOf(e) : d \in W /\ ResolvesWell(d) /\ Deep(d)
    BY <1>1 DEF ConformsFor
  <2>2. ResolvesWell(e) /\ (Resolve(e).errors = 0 => \A d \in PartsOf(e) : Resolve(d).errors = 0)
    <3>1. CASE e.kind = "literal"
      BY <1>1, <3>1, LiteralSound DEF PartsOf
    <3>2. CASE e.kind = "id"
      BY <1>1, <3>2, NameSound DEF PartsOf
    <3>3. CASE e.kind = "array"
      BY <1>1, <2>1, <3>3, ArraySound
    <3>4. CASE e.kind = "unary"
      BY <1>1, <2>1, <3>4, UnarySound
    <3>5. CASE e.kind = "binary"
      BY <1>1, <2>1, <3>5, BinarySound
    <3>6. CASE e.kind = "call"
      BY <1>1, <2>1, <3>6, CallSound
    <3> QED
      BY <3>1, <3>2, <3>3, <3>4, <3>5, <3>6, ExprsAssumption DEF IsExpr
  <2>3. ASSUME Resolve(e).errors = 0, NEW x \in Within[e] PROVE Settled(x)
    <3>1. CASE x = e
      BY <2>2, <2>3, <3>1 DEF ResolvesWell
    <3>2. CASE \E d \in PartsOf(e) : x \in Within[d]
      BY <2>1, <2>2, <2>3, <3>2 DEF Deep
    <3> QED
      BY <3>1, <3>2, WithinParts
  <2> QED
    BY <2>2, <2>3 DEF Deep
<1>2. Exprs \subseteq S
  <2>1. \A e \in Exprs : PartsOf(e) \subseteq S => e \in S
    BY <1>1
  <2> HIDE DEF S
  <2> QED
    BY <2>1, Structural
<1> QED
  BY <1>2 DEF ConformsFor

(***************************************************************************)
(* A rule in which no error is found                                       *)
(***************************************************************************)
\* The check of an action's arguments finds no error only if they resolve without one.
ArgumentsFine(a) == VerifyAction(a) = 0 => \A i \in DOMAIN a.args : Resolve(a.args[i]).errors = 0

\* What verify_action finds of an action is a number of errors, none only if its
\* arguments resolve without errors;
LEMMA ActionsVerified ==
  ASSUME NEW W, ConformsFor(W), NEW a, IsAction(a), ToSet(a.args) \subseteq W
  PROVE  VerifyAction(a) \in Nat /\ ArgumentsFine(a)
<1> DEFINE n == Len(a.args)
           given == [i \in DOMAIN a.args |-> Resolve(a.args[i])]
           takes == actions[a.name].args
           c == CheckedArgs(given, takes)
<1>1. /\ n \in Nat /\ DOMAIN a.args = 1 .. n /\ DOMAIN given = 1 .. n /\ Len(given) = n
      /\ \A i \in 1 .. n : a.args[i] \in Exprs /\ a.args[i] \in W
  <2>1. a.args \in Seq(Exprs)
    BY DEF IsAction
  <2> QED
    BY <2>1, LenProperties DEF ToSet
<1>2. \A i \in 1 .. n : given[i] = Resolve(a.args[i]) /\ given[i] \in Resolutions
  BY <1>1, Resolving DEF ConformsFor
<1>3. VerifyAction(a) = IF a.name \notin DOMAIN actions THEN 1
                        ELSE IF n # Len(takes) THEN 1 ELSE c.errors
  BY DEF VerifyAction
<1> HIDE DEF given
<1>4. c.errors \in Nat
  BY <1>1, <1>2, ArgsChecked
<1>5. VerifyAction(a) \in Nat
  <2> HIDE DEF c
  <2> QED
    BY <1>3, <1>4
<1>6. ASSUME VerifyAction(a) = 0 PROVE \A i \in 1 .. n : given[i].errors = 0
  <2>1. c.errors = 0
    <3> HIDE DEF c
    <3> QED
      BY <1>3, <1>6
  <2>2. \/ \A i \in 1 .. n : given[i].errors = 0
        \/ \E i \in 1 .. n : given[i].errors = 0 /\ given[i].type = "VOID"
    BY <1>1, <1>2, <2>1, ArgsChecked
  <2>3. ASSUME NEW i \in 1 .. n, given[i].errors = 0, given[i].type = "VOID" PROVE FALSE
    <3>1. Deep(a.args[i]) /\ a.args[i] \in Within[a.args[i]]
      BY <1>1, Soundness, WithinParts
    <3>2. Settled(a.args[i])
      BY <1>1, <1>2, <2>3, <3>1 DEF Deep
    <3> QED
      BY <1>2, <2>3, <3>2 DEF Settled
  <2> QED
    BY <2>2, <2>3
<1> QED
  BY <1>1, <1>2, <1>5, <1>6 DEF ArgumentsFine

\* What a case resolves without errors.
LEMMA CasesVerified ==
  ASSUME NEW W, ConformsFor(W), NEW c, IsCase(c), c.condition \in W, ToSet(c.action.args) \subseteq W
  PROVE  /\ VerifyCase(c) \in Nat
         /\ VerifyCase(c) = 0 => Resolve(c.condition).errors = 0 /\ VerifyAction(c.action) = 0
<1> DEFINE t == Resolve(c.condition)
           v == VerifyAction(c.action)
           n == IF t.type = "ARRAY" THEN 1 ELSE 0
<1>1. t.errors \in Nat
  BY Resolving DEF ConformsFor
<1>2. v \in Nat
  BY ActionsVerified DEF IsCase
<1>3. VerifyCase(c) = t.errors + n + v
  BY DEF VerifyCase
<1>4. n \in Nat
  OBVIOUS
<1> HIDE DEF t, v, n
<1>5. VerifyCase(c) \in Nat /\ (VerifyCase(c) = 0 => t.errors = 0 /\ v = 0)
  BY <1>1, <1>2, <1>3, <1>4
<1> QED
  BY <1>5 DEF t, v

MetricWithin(m, W) ==
  /\ ToSet(m.default.args) \subseteq W
  /\ \A c \in ToSet(m.cases) : c.condition \in W /\ ToSet(c.action.args) \subseteq W

\* and a metric.
LEMMA MetricsVerified ==
  ASSUME NEW W, ConformsFor(W), NEW m, IsMetric(m), MetricWithin(m, W)
  PROVE  /\ VerifyMetric(m) \in Nat
         /\ VerifyMetric(m) = 0 =>
              /\ VerifyAction(m.default) = 0
              /\ \A c \in ToSet(m.cases) : Resolve(c.condition).errors = 0 /\ VerifyAction(c.action) = 0
<1> DEFINE n == Len(m.cases)
           s == [k \in DOMAIN m.cases |-> VerifyCase(m.cases[k])]
           v == VerifyAction(m.default)
<1>1. /\ n \in Nat /\ DOMAIN m.cases = 1 .. n
      /\ \A k \in 1 .. n : IsCase(m.cases[k]) /\ m.cases[k] \in ToSet(m.cases)
      /\ \A c \in ToSet(m.cases) : \E k \in 1 .. n : c = m.cases[k]
  BY LenProperties DEF IsMetric, Range, ToSet
<1>2. \A k \in 1 .. n : /\ VerifyCase(m.cases[k]) \in Nat
                        /\ VerifyCase(m.cases[k]) = 0 =>
                             /\ Resolve(m.cases[k].condition).errors = 0
                             /\ VerifyAction(m.cases[k].action) = 0
  BY <1>1, CasesVerified DEF MetricWithin
<1>3. s \in [1 .. n -> Nat] /\ \A k \in 1 .. n : s[k] = VerifyCase(m.cases[k])
  BY <1>1, <1>2
<1>4. VerifyMetric(m) = v + Total(s)
  BY DEF VerifyMetric
<1>5. v \in Nat
  BY ActionsVerified DEF IsMetric, MetricWithin
<1> HIDE DEF s, v, n
<1>6. Total(s) \in Nat /\ (Total(s) = 0 => \A k \in 1 .. n : s[k] = 0)
  BY <1>1, <1>3, Totals
<1>7. VerifyMetric(m) \in Nat
  BY <1>4, <1>5, <1>6
<1>8. ASSUME VerifyMetric(m) = 0 PROVE v = 0 /\ \A k \in 1 .. n : VerifyCase(m.cases[k]) = 0
  <2>1. v = 0 /\ Total(s) = 0
    BY <1>4, <1>5, <1>6, <1>8
  <2> QED
    BY <1>3, <1>6, <2>1
<1>9. ASSUME VerifyMetric(m) = 0, NEW c \in ToSet(m.cases)
      PROVE  Resolve(c.condition).errors = 0 /\ VerifyAction(c.action) = 0
  BY <1>1, <1>2, <1>8, <1>9
<1> QED
  BY <1>7, <1>8, <1>9 DEF v

\* The expressions of a rule are expressions, and so is what is within them.
LEMMA AllWithinClosed ==
  ASSUME NEW r \in Rules
  PROVE  /\ ExpressionsOf(r) \subseteq Exprs
         /\ ExpressionsOf(r) \subseteq AllWithin(r)
         /\ AllWithin(r) \subseteq Exprs
         /\ \A x \in AllWithin(r) : PartsOf(x) \subseteq AllWithin(r)
<1>1. ExpressionsOf(r) \subseteq Exprs
  <2>1. \A a \in ActionsOf(r) : ToSet(a.args) \subseteq Exprs
    <3> SUFFICES ASSUME NEW a \in ActionsOf(r) PROVE ToSet(a.args) \subseteq Exprs
      OBVIOUS
    <3>1. a.args \in Seq(Exprs)
      BY RulesAreMadeOf DEF IsAction
    <3> QED
      BY <3>1 DEF ToSet
  <2> QED
    BY <2>1, RulesAreMadeOf DEF ExpressionsOf
<1>2. \A e \in ExpressionsOf(r) : e \in Within[e] /\ Within[e] \subseteq Exprs
  BY <1>1, WithinParts, WithinUnfolds
<1>3. ExpressionsOf(r) \subseteq AllWithin(r) /\ AllWithin(r) \subseteq Exprs
  BY <1>2 DEF AllWithin
<1>4. ASSUME NEW x \in AllWithin(r) PROVE PartsOf(x) \subseteq AllWithin(r)
  <2>1. PICK e \in ExpressionsOf(r) : x \in Within[e]
    BY <1>4 DEF AllWithin
  <2>2. Within[x] \subseteq Within[e]
    BY <1>1, <2>1, WithinWithin
  <2>3. \A d \in PartsOf(x) : d \in Within[d] /\ Within[d] \subseteq Within[x]
    BY <1>3, <1>4, WithinParts, PartsAreExprs
  <2> QED
    BY <2>1, <2>2, <2>3 DEF AllWithin
<1> QED
  BY <1>1, <1>3, <1>4

\* The conditions and arguments of a metric are among the expressions of its rule.
LEMMA MetricsWithin ==
  ASSUME NEW r \in Rules, r.kind = "metric", NEW m \in ToSet(r.metrics)
  PROVE  IsMetric(m) /\ MetricWithin(m, ExpressionsOf(r))
<1>1. IsMetric(m)
  BY MetricsBelong DEF Belongs, ToSet
<1>2. ConditionsOf(r) = UNION {{c.condition : c \in ToSet(k.cases)} : k \in ToSet(r.metrics)}
  BY DEF ConditionsOf
<1>3. ActionsOf(r)
        = UNION {{k.default} \cup {c.action : c \in ToSet(k.cases)} : k \in ToSet(r.metrics)}
  BY DEF ActionsOf
<1>4. m.default \in ActionsOf(r) /\ \A c \in ToSet(m.cases) : c.action \in ActionsOf(r)
  BY <1>3
<1>5. \A c \in ToSet(m.cases) : c.condition \in ConditionsOf(r)
  BY <1>2
<1> QED
  BY <1>1, <1>4, <1>5 DEF MetricWithin, ExpressionsOf

\* A rule that was verified without errors is settled throughout.
LEMMA VerifiedRules ==
  ASSUME NEW r \in Rules, ConformsFor(AllWithin(r)), VerifyRule(r) = 0
  PROVE  \A x \in AllWithin(r) : Settled(x)
<1> DEFINE W == AllWithin(r)
<1>0. ExpressionsOf(r) \subseteq W
  BY AllWithinClosed
<1>1. \A e \in ExpressionsOf(r) : Resolve(e).errors = 0
  <2>1. CASE r.kind = "simple"
    <3>1. /\ ConditionsOf(r) = {r.when} /\ ActionsOf(r) = {r.then} /\ IsAction(r.then)
          /\ ExpressionsOf(r) = {r.when} \cup ToSet(r.then.args)
      BY <2>1, RulesAreMadeOf DEF ConditionsOf, ActionsOf, ExpressionsOf
    <3>2. r.when \in Exprs
      BY <3>1, AllWithinClosed
    <3>3. Resolve(r.when).errors \in Nat
      BY <3>2, Resolving DEF ConformsFor
    <3>4. VerifyAction(r.then) \in Nat /\ ArgumentsFine(r.then)
      BY <1>0, <3>1, ActionsVerified
    <3>5. Resolve(r.when).errors + VerifyAction(r.then) = 0
      BY <2>1 DEF VerifyRule
    <3>6. Resolve(r.when).errors = 0 /\ VerifyAction(r.then) = 0
      BY <3>3, <3>4, <3>5
    <3> QED
      BY <3>1, <3>4, <3>6 DEF ArgumentsFine, ToSet
  <2>2. CASE r.kind = "metric"
    <3> DEFINE n == Len(r.metrics)
               s == [i \in DOMAIN r.metrics |-> VerifyMetric(r.metrics[i])]
    <3>1. /\ n \in Nat /\ DOMAIN r.metrics = 1 .. n
          /\ \A i \in 1 .. n : r.metrics[i] \in ToSet(r.metrics)
          /\ \A m \in ToSet(r.metrics) : \E i \in 1 .. n : m = r.metrics[i]
      <4>1. n \in Nat /\ DOMAIN r.metrics = 1 .. n
        BY <2>2, MetricsBelong, LenProperties
      <4> QED
        BY <4>1 DEF ToSet
    <3>2. \A m \in ToSet(r.metrics) : IsMetric(m) /\ MetricWithin(m, W)
      BY <1>0, <2>2, MetricsWithin DEF MetricWithin
    <3>3. \A m \in ToSet(r.metrics) :
            /\ VerifyMetric(m) \in Nat
            /\ VerifyMetric(m) = 0 =>
                 /\ VerifyAction(m.default) = 0
                 /\ \A c \in ToSet(m.cases) :
                      Resolve(c.condition).errors = 0 /\ VerifyAction(c.action) = 0
      BY <3>2, MetricsVerified
    <3>4. s \in [1 .. n -> Nat] /\ \A i \in 1 .. n : s[i] = VerifyMetric(r.metrics[i])
      BY <3>1, <3>3
    <3>5. Total(s) = 0
      BY <2>2 DEF VerifyRule
    <3> HIDE DEF s, n
    <3>6. \A i \in 1 .. n : s[i] = 0
      BY <3>1, <3>4, <3>5, Totals
    <3>7. \A m \in ToSet(r.metrics) :
            /\ VerifyAction(m.default) = 0
            /\ \A c \in ToSet(m.cases) :
                 Resolve(c.condition).errors = 0 /\ VerifyAction(c.action) = 0
      <4> SUFFICES ASSUME NEW m \in ToSet(r.metrics) PROVE VerifyMetric(m) = 0
        BY <3>3
      <4>1. PICK i \in 1 .. n : m = r.metrics[i]
        BY <3>1
      <4>2. VerifyMetric(r.metrics[i]) = 0
        BY <3>4, <3>6
      <4> QED
        BY <4>1, <4>2
    <3>8. ConditionsOf(r) = UNION {{c.condition : c \in ToSet(k.cases)} : k \in ToSet(r.metrics)}
      BY <2>2 DEF ConditionsOf
    <3>9. ActionsOf(r)
            = UNION {{k.default} \cup {c.action : c \in ToSet(k.cases)} : k \in ToSet(r.metrics)}
      BY <2>2 DEF ActionsOf
    <3>10. \A e \in ConditionsOf(r) : Resolve(e).errors = 0
      BY <3>7, <3>8
    <3>11. \A a \in ActionsOf(r) : VerifyAction(a) = 0
      BY <3>7, <3>9
    <3>12. ASSUME NEW a \in ActionsOf(r), NEW e \in ToSet(a.args) PROVE Resolve(e).errors = 0
      <4>1. IsAction(a) /\ ToSet(a.args) \subseteq W
        BY <1>0, <3>12, RulesAreMadeOf DEF ExpressionsOf
      <4>2. ArgumentsFine(a)
        BY <4>1, ActionsVerified
      <4> QED
        BY <3>11, <3>12, <4>2 DEF ArgumentsFine, ToSet
    <3> QED
      BY <3>10, <3>12 DEF ExpressionsOf
  <2> QED
    BY <2>1, <2>2, RulesAssumption
<1>2. \A e \in ExpressionsOf(r) : Deep(e)
  BY <1>0, Soundness
<1> QED
  BY <1>1, <1>2 DEF AllWithin, Deep

(***************************************************************************)
(* The run of a verification                                               *)
(***************************************************************************)
\* The rule and the schema.
GivenToVerify ==
  /\ rule \in Rules
  /\ TypedSchema(variables, actions)

\* Where the execution is: nothing is executed before the analysis, the metric and
\* the case that are evaluated are those of the rule.
Placed ==
  /\ step # "execute" => at = "begin"
  /\ at = "begin" => lastError = "NONE" /\ metric = 0
  /\ metric \in Nat
  /\ at = "case" => /\ rule.kind = "metric"
                    /\ metric \in DOMAIN rule.metrics
                    /\ case \in Nat \ {0}

\* A rule that was found to be valid is settled, if the schema conforms.
Trusted ==
  ConformsFor(AllWithin(rule)) => \A x \in AllWithin(rule) : Settled(x)

Cleared ==
  /\ step \in {"verified", "execute"} /\ found = 0 => Trusted
  /\ step \in {"verified", "execute"} /\ found = 0 /\ ConformsFor(AllWithin(rule))
       => lastError # "TYPE_ERROR"

\* The schema holds types at first,
LEMMA GivenFirst == VerifyInit => GivenToVerify
  BY DEF VerifyInit, TreeInit, GivenToVerify, TypedSchema, NoNames

\* and whatever is declared in it.
LEMMA GivenNext == GivenToVerify /\ [VerifyNext]_verifyVars => GivenToVerify'
<1> SUFFICES ASSUME GivenToVerify, [VerifyNext]_verifyVars PROVE GivenToVerify'
  OBVIOUS
<1> USE DEF GivenToVerify
<1>1. CASE Declare
  <2>1. rule' = rule
    BY <1>1 DEF Declare, RegisterVar, RegisterAction, Declaring
  <2>2. ASSUME NEW d \in Declarations, RegisterVar(d[1], d[2])
        PROVE  TypedSchema(variables', actions')
    <3>1. actions' = actions /\ (variables' = variables \/ variables' = With(variables, d[1], d[2]))
      BY <2>2 DEF RegisterVar
    <3>2. d[2] \in Types
      BY DeclarationsAssumption
    <3>3. \A x \in DOMAIN With(variables, d[1], d[2]) : With(variables, d[1], d[2])[x] \in Types
      BY <3>2 DEF TypedSchema, With
    <3> QED
      BY <3>1, <3>3 DEF TypedSchema
  <2>3. ASSUME NEW d \in Signatures, RegisterAction(d[1], d[2])
        PROVE  TypedSchema(variables', actions')
    <3>1. variables' = variables /\ (actions' = actions \/ actions' = With(actions, d[1], d[2]))
      BY <2>3 DEF RegisterAction
    <3>2. d[2].returns \in Types
      BY DeclarationsAssumption
    <3>3. \A x \in DOMAIN With(actions, d[1], d[2]) : With(actions, d[1], d[2])[x].returns \in Types
      BY <3>2 DEF TypedSchema, With
    <3> QED
      BY <3>1, <3>3 DEF TypedSchema
  <2>4. TypedSchema(variables', actions')
    BY <1>1, <2>2, <2>3 DEF Declare
  <2> QED
    BY <2>1, <2>4
<1>2. CASE Create \/ Verify \/ Analyze \/ ExecuteRule \/ Finished \/ UNCHANGED verifyVars
  <2>1. rule' = rule /\ variables' = variables /\ actions' = actions
    <3>1. CASE Create
      BY <3>1 DEF Create, schemaVars
    <3>2. CASE Verify
      BY <3>2 DEF Verify, schemaVars
    <3>3. CASE Analyze
      BY <3>3 DEF Analyze, schemaVars
    <3>4. CASE ExecuteRule
      BY <3>4 DEF ExecuteRule, schemaVars, TreeNext, ExecuteSimple, NextMetric, CaseFails,
           CaseMisses, CaseMatches, Default, Finish
    <3>5. CASE Finished \/ UNCHANGED verifyVars
      BY <3>5 DEF Finished, verifyVars, schemaVars
    <3> QED
      BY <1>2, <3>1, <3>2, <3>3, <3>4, <3>5
  <2> QED
    BY <2>1
<1> QED
  BY <1>1, <1>2 DEF VerifyNext

\* What a step that executes the rule leaves alone.
LEMMA ExecutionOnly ==
  ASSUME ExecuteRule
  PROVE  /\ rule' = rule /\ variables' = variables /\ actions' = actions /\ step' = step
         /\ found' = found /\ valid' = valid /\ warnings' = warnings
<1>1. rule' = rule
  BY DEF ExecuteRule, TreeNext, ExecuteSimple, NextMetric, CaseFails, CaseMisses, CaseMatches,
     Default, Finish
<1>2. step' = step /\ schemaVars' = schemaVars /\ checkVars' = checkVars
  BY DEF ExecuteRule
<1>3. variables' = variables /\ actions' = actions
  BY <1>2 DEF schemaVars
<1>4. found' = found /\ valid' = valid /\ warnings' = warnings
  BY <1>2 DEF checkVars
<1>5. step' = step
  BY <1>2
<1> QED
  BY <1>1, <1>3, <1>4, <1>5

\* and what the other steps leave alone.
LEMMA PreparationOnly ==
  ASSUME Create \/ Declare \/ Verify \/ Analyze \/ Finished \/ UNCHANGED verifyVars
  PROVE  rule' = rule /\ UNCHANGED treeVars
  BY DEF Create, Declare, RegisterVar, RegisterAction, Declaring, Verify, Analyze, Finished,
     verifyVars, treeVars

\* The execution is where it is at first,
LEMMA PlacedFirst == VerifyInit => Placed
  BY DEF VerifyInit, TreeInit, Placed

\* and each step of it leads where the rule has something to evaluate.
LEMMA PlacedNext == GivenToVerify /\ Placed /\ [VerifyNext]_verifyVars => Placed'
<1> SUFFICES ASSUME GivenToVerify, Placed, [VerifyNext]_verifyVars PROVE Placed'
  OBVIOUS
<1>1. CASE Create \/ Declare \/ Verify \/ Analyze \/ Finished \/ UNCHANGED verifyVars
  <2>1. /\ rule' = rule /\ at' = at /\ metric' = metric /\ case' = case /\ lastError' = lastError
        /\ (step = "execute" => step' = "execute")
    <3>1. step = "execute" => step' = "execute"
      BY <1>1 DEF Create, Declare, RegisterVar, RegisterAction, Declaring, Verify, Analyze,
         Finished, verifyVars
    <3> QED
      BY <1>1, <3>1, PreparationOnly DEF treeVars
  <2> QED
    BY <2>1 DEF Placed
<1>2. CASE ExecuteRule
  <2>0. rule' = rule /\ step' = step /\ step = "execute"
    <3>1. step = "execute"
      BY <1>2 DEF ExecuteRule
    <3> QED
      BY <1>2, <3>1, ExecutionOnly
  <2>1. CASE ExecuteSimple
    BY <2>0, <2>1 DEF Placed, ExecuteSimple
  <2>2. CASE NextMetric
    <3>1. rule.metrics \in Seq(Range(rule.metrics))
      BY <2>2, MetricsBelong DEF NextMetric, GivenToVerify
    <3>2. CASE metric < Len(rule.metrics) /\ lastError = "NONE"
      <4>1. /\ metric' = metric + 1 /\ case' = 1 /\ at' = "case" /\ lastError' = lastError
            /\ rule.kind = "metric"
        BY <2>2, <3>2 DEF NextMetric
      <4>2. metric + 1 \in DOMAIN rule.metrics
        BY <3>1, <3>2, LenProperties DEF Placed
      <4> QED
        BY <2>0, <4>1, <4>2 DEF Placed
    <3>3. CASE ~(metric < Len(rule.metrics) /\ lastError = "NONE")
      BY <2>0, <2>2, <3>3 DEF Placed, NextMetric
    <3> QED
      BY <3>2, <3>3
  <2>3. CASE CaseFails
    BY <2>0, <2>3 DEF Placed, CaseFails
  <2>4. CASE CaseMisses
    BY <2>0, <2>4 DEF Placed, CaseMisses, Matching
  <2>5. CASE CaseMatches
    BY <2>0, <2>5 DEF Placed, CaseMatches
  <2>6. CASE Default
    BY <2>0, <2>6 DEF Placed, Default
  <2>7. CASE Finish
    BY <2>0, <2>7 DEF Placed, Finish
  <2>8. TreeNext
    BY <1>2 DEF ExecuteRule
  <2> QED
    BY <2>1, <2>2, <2>3, <2>4, <2>5, <2>6, <2>7, <2>8 DEF TreeNext
<1> QED
  BY <1>1, <1>2 DEF VerifyNext

\* What Trusted says rests on the rule and the schema.
LEMMA SchemaKept ==
  ASSUME rule' = rule, variables' = variables, actions' = actions
  PROVE  /\ ConformsFor(AllWithin(rule))' <=> ConformsFor(AllWithin(rule))
         /\ Trusted' <=> Trusted
<1>1. AllWithin(rule)' = AllWithin(rule)
  OBVIOUS
<1>2. \A e : Resolve(e)' = Resolve(e)
  BY DEF Resolve
<1>3. \A e : Settled(e)' <=> Settled(e)
  BY <1>2 DEF Settled
<1>4. \A e : KeepsPromise(e)' <=> KeepsPromise(e)
  BY DEF KeepsPromise
<1>5. \A e : ComparesArrays(e)' <=> ComparesArrays(e)
  BY <1>2 DEF ComparesArrays
<1>6. \A W : ConformsFor(W)' <=> ConformsFor(W)
  BY <1>4, <1>5 DEF ConformsFor
<1> QED
  BY <1>1, <1>3, <1>6 DEF Trusted

\* No walk of a settled expression ends in a type error.
LEMMA WalksTyped ==
  ASSUME NEW e, Settled(e), NEW n
  PROVE  WalkFrom(e, n).error # "TYPE_ERROR"
<1>1. TypedWalk(Resolve(e).type, Evaluated[e][0])
  BY DepthAssumption DEF Settled
<1>2. Evaluate(e, 0).error # "TYPE_ERROR"
  BY <1>1 DEF TypedWalk, Evaluate
<1>3. WalkFrom(e, n).error \in {"QUOTA", Evaluate(e, 0).error}
  BY DEF WalkFrom, Limited, Walked
<1> QED
  BY <1>2, <1>3

\* Nor does what an action needs to be evaluated.
LEMMA ActionsTyped ==
  ASSUME NEW a, IsAction(a), \A e \in ToSet(a.args) : Settled(e), NEW x, NEW n
  PROVE  Giving(a, x, n).walked.error # "TYPE_ERROR"
<1>1. a.args \in Seq(Exprs)
  BY DEF IsAction
<1>2. CASE a.name = "score" /\ a.args # <<>>
  <2>1. a.args[1] \in ToSet(a.args)
    BY <1>1, <1>2 DEF ToSet
  <2>2. Giving(a, x, n).walked = WalkFrom(a.args[1], n)
    BY <1>2 DEF Giving, Given
  <2> QED
    BY <2>1, <2>2, WalksTyped
<1>3. CASE a.name = "fail_metric" /\ Len(a.args) > 1
  <2>1. a.args[2] \in ToSet(a.args)
    BY <1>1, <1>3 DEF ToSet
  <2>2. Giving(a, x, n).walked = WalkFrom(a.args[2], n)
    BY <1>3 DEF Giving, Given
  <2> QED
    BY <2>1, <2>2, WalksTyped
<1>4. CASE ~(a.name = "score" /\ a.args # <<>>) /\ ~(a.name = "fail_metric" /\ Len(a.args) > 1)
  <2>1. Giving(a, x, n).walked = Walked(Void, n, "NONE")
    BY <1>4 DEF Giving, Given
  <2> QED
    BY <2>1 DEF Walked
<1> QED
  BY <1>2, <1>3, <1>4

\* The conditions and actions of the metric that is evaluated are the rule's.
LEMMA CurrentWithin ==
  ASSUME GivenToVerify, Placed, at = "case"
  PROVE  /\ IsMetric(Current)
         /\ MetricWithin(Current, AllWithin(rule))
         /\ Current.cases \in Seq(Range(Current.cases))
         /\ case <= Len(Current.cases) => Current.cases[case] \in ToSet(Current.cases)
<1>1. Current \in ToSet(rule.metrics)
  BY DEF Placed, Current, ToSet
<1>2. IsMetric(Current) /\ MetricWithin(Current, ExpressionsOf(rule))
  BY <1>1, MetricsWithin DEF GivenToVerify, Placed
<1>3. MetricWithin(Current, AllWithin(rule))
  BY <1>2, AllWithinClosed DEF MetricWithin, GivenToVerify
<1>4. Current.cases \in Seq(Range(Current.cases))
  BY <1>2 DEF IsMetric
<1>5. case <= Len(Current.cases) => Current.cases[case] \in ToSet(Current.cases)
  BY <1>4, LenProperties DEF Placed, ToSet
<1> QED
  BY <1>2, <1>3, <1>4, <1>5

\* Steps of a rule all of whose expressions are settled.
LEMMA StaysTyped ==
  ASSUME GivenToVerify, Placed, TreeNext, lastError # "TYPE_ERROR",
         \A x \in AllWithin(rule) : Settled(x)
  PROVE  lastError' # "TYPE_ERROR"
<1>1. CASE ExecuteSimple
  <2>1. lastError' = WalkFrom(rule.when, 0).error /\ rule.kind = "simple"
    BY <1>1 DEF ExecuteSimple
  <2>2. rule.when \in ExpressionsOf(rule)
    BY <2>1 DEF ExpressionsOf, ConditionsOf
  <2>3. Settled(rule.when)
    BY <2>2, AllWithinClosed DEF GivenToVerify
  <2> QED
    BY <2>1, <2>3, WalksTyped
<1>2. CASE NextMetric
  BY <1>2 DEF NextMetric
<1>3. CASE CaseFails
  <2>1. at = "case" /\ case <= Len(Current.cases) /\ lastError' = Condition.error
    BY <1>3 DEF CaseFails, Matching
  <2>2. Settled(Current.cases[case].condition)
    BY <2>1, CurrentWithin DEF MetricWithin
  <2> QED
    BY <2>1, <2>2, WalksTyped DEF Condition
<1>4. CASE CaseMisses
  BY <1>4 DEF CaseMisses
<1>5. CASE CaseMatches
  <2> DEFINE c == Current.cases[case]
  <2>1. at = "case" /\ case <= Len(Current.cases)
    BY <1>5 DEF CaseMatches, Matching
  <2>2. lastError' = Giving(c.action, Current.weight, Condition.nodes).walked.error
    BY <1>5 DEF CaseMatches
  <2>3. c \in ToSet(Current.cases)
    BY <2>1, CurrentWithin
  <2>4. IsAction(c.action) /\ \A e \in ToSet(c.action.args) : Settled(e)
    <3>1. IsCase(c)
      BY <2>1, <2>3, CurrentWithin DEF IsMetric, Range, ToSet
    <3>2. ToSet(c.action.args) \subseteq AllWithin(rule)
      BY <2>1, <2>3, CurrentWithin DEF MetricWithin
    <3> QED
      BY <3>1, <3>2 DEF IsCase
  <2> HIDE DEF c
  <2> QED
    BY <2>2, <2>4, ActionsTyped
<1>6. CASE Default
  <2>1. lastError' = Giving(Current.default, 0, count).walked.error /\ at = "case"
    BY <1>6 DEF Default
  <2>2. IsAction(Current.default) /\ \A e \in ToSet(Current.default.args) : Settled(e)
    BY <2>1, CurrentWithin DEF IsMetric, MetricWithin
  <2> QED
    BY <2>1, <2>2, ActionsTyped
<1>7. CASE Finish
  BY <1>7 DEF Finish
<1> QED
  BY <1>1, <1>2, <1>3, <1>4, <1>5, <1>6, <1>7 DEF TreeNext

\* Nothing was found at first.
LEMMA ClearedFirst == VerifyInit => Cleared
  BY DEF VerifyInit, Cleared

\* What was found valid stays free of type errors, step by step.
LEMMA ClearedNext ==
  GivenToVerify /\ Placed /\ Cleared /\ [VerifyNext]_verifyVars => Cleared'
<1> SUFFICES ASSUME GivenToVerify, Placed, Cleared, [VerifyNext]_verifyVars PROVE Cleared'
  OBVIOUS
<1>1. CASE Create
  BY <1>1 DEF Create, Cleared, checkVars
<1>2. CASE Declare
  <2>1. step' = "declare"
    BY <1>2 DEF Declare, RegisterVar, RegisterAction, Declaring
  <2> QED
    BY <2>1 DEF Cleared
<1>3. CASE Verify
  <2>1. /\ rule' = rule /\ variables' = variables /\ actions' = actions /\ lastError' = lastError
        /\ found' = VerifyRule(rule)
    BY <1>3 DEF Verify, schemaVars, treeVars
  <2>2. lastError # "TYPE_ERROR"
    BY <1>3 DEF Verify, Placed
  <2>3. found' = 0 => Trusted
    BY <2>1, VerifiedRules DEF GivenToVerify, Trusted
  <2> QED
    BY <2>1, <2>2, <2>3, SchemaKept DEF Cleared
<1>4. CASE Analyze \/ Finished \/ UNCHANGED verifyVars
  <2>1. /\ rule' = rule /\ variables' = variables /\ actions' = actions /\ lastError' = lastError
        /\ found' = found
        /\ step' \in {"verified", "execute"} => step \in {"verified", "execute"}
    BY <1>4 DEF Analyze, Finished, verifyVars, schemaVars, treeVars, checkVars
  <2> QED
    BY <2>1, SchemaKept DEF Cleared
<1>5. CASE ExecuteRule
  <2>1. step = "execute" /\ TreeNext
    BY <1>5 DEF ExecuteRule
  <2>2. /\ rule' = rule /\ variables' = variables /\ actions' = actions
        /\ found' = found /\ step' = step
    BY <1>5, ExecutionOnly
  <2>3. ASSUME found = 0, ConformsFor(AllWithin(rule)) PROVE lastError' # "TYPE_ERROR"
    BY <2>1, <2>3, StaysTyped DEF Cleared, Trusted
  <2> QED
    BY <2>1, <2>2, <2>3, SchemaKept DEF Cleared
<1> QED
  BY <1>1, <1>2, <1>3, <1>4, <1>5 DEF VerifyNext

\* What a verification goes through.
THEOREM Verifying == VerifySpec => [](GivenToVerify /\ Placed /\ Cleared)
<1>1. VerifyInit => GivenToVerify /\ Placed /\ Cleared
  BY GivenFirst, PlacedFirst, ClearedFirst
<1>2. GivenToVerify /\ Placed /\ Cleared /\ [VerifyNext]_verifyVars
        => (GivenToVerify /\ Placed /\ Cleared)'
  BY GivenNext, PlacedNext, ClearedNext
<1> QED
  BY <1>1, <1>2, PTL DEF VerifySpec

\* A rule that cdsl_verify_rule found valid, against a schema that conforms to the
\* context, is executed without type errors, and each part of it has the type that
\* resolve_expr_type gave it, or no value: for any rule, schema, context and limits.
THEOREM VerifiedIsTyped == VerifySpec => []VerifiedRulesAreTyped
<1>1. ASSUME GivenToVerify, Placed, Cleared PROVE VerifiedRulesAreTyped
  <2> SUFFICES ASSUME valid, found = 0, at = "done", Conforming,
                      ~ \E e \in AllWithin(rule) : ComparesArrays(e)
               PROVE  /\ lastError # "TYPE_ERROR"
                      /\ \A e \in AllWithin(rule) : OfType(Resolve(e).type, Evaluate(e, 0).value)
    BY DEF VerifiedRulesAreTyped
  <2>1. step = "execute"
    BY <1>1 DEF Placed
  <2>2. ConformsFor(AllWithin(rule))
    BY <1>1, AllWithinClosed DEF GivenToVerify, ConformsFor, Conforming
  <2>3. lastError # "TYPE_ERROR" /\ \A x \in AllWithin(rule) : Settled(x)
    BY <1>1, <2>1, <2>2 DEF Cleared, Trusted
  <2>4. \A x \in AllWithin(rule) : TypedWalk(Resolve(x).type, Evaluated[x][0])
    BY <2>3, DepthAssumption DEF Settled
  <2> QED
    BY <2>3, <2>4 DEF TypedWalk, Evaluate
<1> QED
  BY <1>1, Verifying, PTL

(***************************************************************************)
(* The static analysis: what it knows of a condition is what the tree walk *)
(* makes of it.                                                            *)
(***************************************************************************)
\* Counting in parts keeps the order of numbers,
LEMMA ScaledUp ==
  ASSUME NEW a \in Int, NEW b \in Int, NEW p \in Nat \ {0}, a < b
  PROVE  a * p < b * p
<1> DEFINE S == {n \in Nat : n > 0 => a * n < b * n}
<1>1. 0 \in S
  OBVIOUS
<1>2. ASSUME NEW n \in Nat, n \in S PROVE n + 1 \in S
  <2>1. a * (n + 1) = a * n + a /\ b * (n + 1) = b * n + b
    OBVIOUS
  <2>2. a * n \in Int /\ b * n \in Int
    OBVIOUS
  <2>3. CASE n = 0
    BY <2>3
  <2>4. CASE n > 0
    BY <1>2, <2>1, <2>2, <2>4
  <2> QED
    BY <2>3, <2>4
<1>3. \A n \in Nat : n \in S => n + 1 \in S
  BY <1>2
<1>4. Nat \subseteq S
  <2> HIDE DEF S
  <2> QED
    BY <1>1, <1>3, Counting
<1> QED
  BY <1>4

\* A comparison does not depend on the unit in which both sides are counted.
LEMMA UnitsDoNotMatter ==
  ASSUME NEW op \in Relational, NEW a \in Int, NEW b \in Int, NEW p \in Nat \ {0}
  PROVE  Holds(op, a * p, b * p) <=> Holds(op, a, b)
<1>1. a * p \in Int /\ b * p \in Int
  OBVIOUS
<1>2. (a < b => a * p < b * p) /\ (b < a => b * p < a * p) /\ (a = b => a * p = b * p)
  BY ScaledUp
<1> DEFINE x == a * p
           y == b * p
<1>3. x \in Int /\ y \in Int /\ (a < b => x < y) /\ (b < a => y < x) /\ (a = b => x = y)
  BY <1>1, <1>2
<1> HIDE DEF x, y
<1>4. (x = y <=> a = b) /\ (x < y <=> a < b) /\ (y < x <=> b < a)
  BY <1>3
<1>5. (x <= y <=> a <= b) /\ (x >= y <=> a >= b) /\ (x > y <=> a > b)
  BY <1>3, <1>4
<1>6. Holds(op, x, y) <=> Holds(op, a, b)
  BY <1>4, <1>5 DEF Holds, Relational
<1> QED
  BY <1>6 DEF x, y

\* What the tree walk makes of a condition the analysis knows.
LEMMA LiteralWalk ==
  ASSUME NEW e \in Exprs, e.kind = "literal"
  PROVE  Evaluate(e, 0) = Walked(e.value, 1, "NONE")
<1>1. 0 \in 0 .. MaxExprDepth /\ 0 # MaxExprDepth
  BY DepthAssumption
<1>2. Evaluated[e][0] = Walked(e.value, 1, "NONE")
  BY <1>1, Walking
<1> QED
  BY <1>2 DEF Evaluate

\* A comparison of two INT literals holds in the walk as it does in the analysis,
\* where the walk may go down to its operands;
LEMMA ComparisonWalk ==
  ASSUME MaxExprDepth > 1, NEW e \in Exprs, ComparesInts(e), e.op \in Relational
  PROVE  /\ ~Failed(Evaluate(e, 0))
         /\ Fires(Evaluate(e, 0).value) <=> Holds(e.op, e.left.value.data, e.right.value.data)
<1> DEFINE a == e.left.value
           b == e.right.value
           l == Evaluated[e.left][1]
           r == Evaluated[e.right][1]
<1>1. /\ e.left \in Exprs /\ e.right \in Exprs /\ e.kind = "binary"
      /\ e.left.kind = "literal" /\ e.right.kind = "literal" /\ a.type = "INT" /\ b.type = "INT"
  BY ExprsAssumption DEF IsExpr, ComparesInts, IsInt
<1>2. a.data \in Int /\ b.data \in Int
  BY <1>1, ExprsAssumption DEF IsExpr
<1>3. 0 \in 0 .. MaxExprDepth /\ 0 # MaxExprDepth /\ 1 \in 0 .. MaxExprDepth /\ 1 # MaxExprDepth
  BY DepthAssumption
<1>4. l = Walked(a, 1, "NONE") /\ r = Walked(b, 1, "NONE")
  BY <1>1, <1>3, Walking
<1>5. Evaluated[e][0] = BinaryWalk(e.op, Evaluated[e.left][0 + 1], Evaluated[e.right][0 + 1])
  BY <1>1, <1>3, Walking
<1>6. Evaluated[e][0] = BinaryWalk(e.op, l, r)
  BY <1>5
<1>7. ~Failed(l) /\ ~Failed(r) /\ l.value = a /\ r.value = b /\ l.nodes = 1 /\ r.nodes = 1
  BY <1>4 DEF Failed, Walked
<1>8. e.op \notin Logical /\ e.op # "DIV"
  BY Operators
<1> HIDE DEF a, b, l, r
<1>9. BinaryWalk(e.op, l, r) = AsWalked(Binop(e.op, a, b), 3)
  BY <1>7, <1>8 DEF BinaryWalk
<1>10. Binop(e.op, a, b) = Numbers(e.op, a, b)
  BY <1>1, <1>8 DEF Binop, Numeric, a, b
<1>11. Numbers(e.op, a, b) = Outcome("OK", Bool(Holds(e.op, a.data * Parts, b.data * Parts)))
  BY <1>1 DEF Numbers, AsParts, a, b
<1>12. AsWalked(Outcome("OK", Bool(Holds(e.op, a.data * Parts, b.data * Parts))), 3)
         = Walked(Bool(Holds(e.op, a.data * Parts, b.data * Parts)), 3, "NONE")
  BY DEF AsWalked, Usable, Outcome
<1>13. Evaluate(e, 0) = Walked(Bool(Holds(e.op, a.data * Parts, b.data * Parts)), 3, "NONE")
  BY <1>6, <1>9, <1>10, <1>11, <1>12 DEF Evaluate
<1>14. Holds(e.op, a.data * Parts, b.data * Parts) <=> Holds(e.op, a.data, b.data)
  BY <1>2, UnitsAssumption, UnitsDoNotMatter
<1>15. \A c : Fires(Bool(c)) <=> c
  BY DEF Fires, Bool, Value, IsTrue, BoolVal
<1> QED
  BY <1>13, <1>14, <1>15 DEF Failed, Walked, a, b

\* so conditions that are constant for the analysis are so for the walk. An INT
\* literal is true for the analysis only.
LEMMA ConstantConditions ==
  ASSUME MaxExprDepth > 1, NEW e \in Exprs
  PROVE  /\ ConstFalse(e) => ~Fires(Evaluate(e, 0).value)
         /\ ConstTrue(e) /\ ~IsInt(e) => ~Failed(Evaluate(e, 0)) /\ Fires(Evaluate(e, 0).value)
<1>1. CASE e.kind = "literal"
  <2>1. Evaluate(e, 0).value = e.value /\ ~Failed(Evaluate(e, 0))
    BY <1>1, LiteralWalk DEF Walked, Failed
  <2>2. ~ComparesInts(e)
    BY <1>1 DEF ComparesInts
  <2> QED
    BY <1>1, <2>1, <2>2 DEF ConstFalse, ConstTrue, IsInt, Fires, IsTrue, BoolVal
<1>2. CASE e.kind # "literal"
  BY <1>2, ComparisonWalk DEF ConstFalse, ConstTrue
<1> QED
  BY <1>1, <1>2

\* Shadows says that two conditions are the same.
LEMMA ShadowsSame ==
  ASSUME NEW d \in Exprs, NEW c \in Exprs, Shadows(d, c)
  PROVE  c = d
<1>1. d = Binary(d.op, d.left, d.right) /\ c = Binary(c.op, c.left, c.right)
  BY ExprsAssumption DEF IsExpr, Shadows
<1>2. d.op = c.op /\ d.left = c.left /\ d.right = c.right
  BY DEF Shadows
<1> QED
  BY <1>1, <1>2

\* What a walk under the instruction limit says of the walk.
LEMMA WalkUnlimited ==
  ASSUME NEW e, NEW n, ~Failed(WalkFrom(e, n))
  PROVE  ~Failed(Evaluate(e, 0)) /\ WalkFrom(e, n).value = Evaluate(e, 0).value
<1> DEFINE w == Evaluate(e, 0)
           exceeded == limit > 0 /\ n + w.nodes > limit
<1>1. WalkFrom(e, n) = Walked(IF exceeded THEN Void ELSE w.value, n + w.nodes,
                              IF exceeded THEN "QUOTA" ELSE w.error)
  BY DEF WalkFrom, Limited
<1> HIDE DEF w, exceeded
<1>2. ~exceeded
  BY <1>1 DEF Failed, Walked
<1> QED
  BY <1>1, <1>2 DEF Failed, Walked, w

(***************************************************************************)
(* The warnings                                                            *)
(***************************************************************************)
ConditionAt(r, m, k) == r.metrics[m].cases[k].condition

\* What a warning about a case says of the conditions of its metric.
Means(what, r, m, k) ==
  \/ what = "always true" /\ ConstTrue(ConditionAt(r, m, k))
  \/ what = "always false" /\ ConstFalse(ConditionAt(r, m, k))
  \/ what = "shadowed" /\ \E d \in 1 .. k - 1 : Shadows(ConditionAt(r, m, d), ConditionAt(r, m, k))
  \/ what = "unreachable" /\ \E d \in 1 .. k - 1 : ConstTrue(ConditionAt(r, m, d))

MeansOfRule(w, r) ==
  \/ r.kind = "simple" /\ w.what = "always true" /\ ConstTrue(r.when)
  \/ r.kind = "simple" /\ w.what = "always false" /\ ConstFalse(r.when)
  \/ /\ r.kind = "metric" /\ w.metric \in DOMAIN r.metrics
     /\ w.case \in DOMAIN r.metrics[w.metric].cases
     /\ Means(w.what, r, w.metric, w.case)

Warnings == \A w \in warnings : MeansOfRule(w, rule)

\* What cdsl_analyze_rule warns of in a metric is so.
LEMMA CaseWarningsMean ==
  ASSUME rule \in Rules, rule.kind = "metric", NEW m \in DOMAIN rule.metrics, NEW w \in CaseWarnings(m)
  PROVE  MeansOfRule(w, rule)
<1> DEFINE condition(k) == rule.metrics[m].cases[k].condition
           cases == DOMAIN rule.metrics[m].cases
           n == Len(rule.metrics[m].cases)
           always == {k \in cases : ConstTrue(condition(k))}
           seen == IF always = {} THEN cases ELSE 1 .. Min(always)
           dead == {k \in seen : ConstFalse(condition(k))}
           shadowed == {k \in seen \ always :
                          \E d \in 1 .. k - 1 : Shadows(condition(d), condition(k))}
<1>1. \/ \E k \in seen \cap always : w = Warning("always true", m, k)
      \/ \E k \in dead : w = Warning("always false", m, k)
      \/ \E k \in shadowed : w = Warning("shadowed", m, k)
      \/ \E k \in {Max(seen) + 1 : x \in always} \cap cases : w = Warning("unreachable", m, k)
  BY DEF CaseWarnings
<1>2. cases = 1 .. n /\ n \in Nat
  <2>1. Belongs(rule.metrics[m])
    BY MetricsBelong
  <2> QED
    BY <2>1, LenProperties DEF Belongs, IsMetric
<1>3. always # {} => Min(always) \in always
  <2>1. always \subseteq Nat
    BY <1>2
  <2> HIDE DEF always
  <2> QED
    BY <2>1, Least
<1>4. \A k \in always : k \in cases /\ ConstTrue(condition(k))
  OBVIOUS
<1>5. \A k \in dead : k \in seen /\ ConstFalse(condition(k))
  OBVIOUS
<1>6. \A k \in shadowed : k \in seen /\ \E d \in 1 .. k - 1 : Shadows(condition(d), condition(k))
  OBVIOUS
<1> HIDE DEF always, dead, shadowed
<1>7. seen \subseteq cases
  BY <1>2, <1>3, <1>4
<1>8. ASSUME NEW k \in {Max(seen) + 1 : x \in always}
      PROVE  \E d \in 1 .. k - 1 : ConstTrue(condition(d))
  <2> DEFINE d == Min(always)
  <2>1. always # {} /\ k = Max(seen) + 1
    BY <1>8
  <2>2. seen = 1 .. d /\ d \in 1 .. n
    BY <1>2, <1>3, <1>4, <2>1
  <2>3. Max(seen) = d
    <3> HIDE DEF d, seen
    <3>1. /\ seen \subseteq Nat /\ seen # {} /\ n \in Nat /\ \A s \in seen : s <= n
          /\ d \in seen /\ \A s \in seen : s <= d
      BY <1>2, <2>2
    <3>2. Max(seen) \in seen /\ \A s \in seen : s <= Max(seen)
      BY <3>1, Greatest
    <3> DEFINE x == Max(seen)
    <3> HIDE DEF x
    <3>3. x \in Nat /\ d \in Nat /\ x <= d /\ d <= x
      BY <3>1, <3>2 DEF x
    <3>4. x = d
      BY <3>3
    <3> QED
      BY <3>4 DEF x
  <2> QED
    BY <1>2, <1>3, <1>4, <2>1, <2>2, <2>3
<1> HIDE DEF seen
<1>9. \A what, k : k \in cases /\ Means(what, rule, m, k) => MeansOfRule(Warning(what, m, k), rule)
  BY DEF MeansOfRule, Warning
<1>10. \A d : condition(d) = ConditionAt(rule, m, d)
  BY DEF ConditionAt
<1> HIDE DEF condition, cases
<1>11. CASE \E k \in seen \cap always : w = Warning("always true", m, k)
  BY <1>4, <1>9, <1>10, <1>11 DEF Means
<1>12. CASE \E k \in dead : w = Warning("always false", m, k)
  BY <1>5, <1>7, <1>9, <1>10, <1>12 DEF Means
<1>13. CASE \E k \in shadowed : w = Warning("shadowed", m, k)
  BY <1>6, <1>7, <1>9, <1>10, <1>13 DEF Means
<1>14. CASE \E k \in {Max(seen) + 1 : x \in always} \cap cases : w = Warning("unreachable", m, k)
  <2>1. PICK k \in {Max(seen) + 1 : x \in always} \cap cases : w = Warning("unreachable", m, k)
    BY <1>14
  <2>2. Means("unreachable", rule, m, k)
    BY <1>8, <1>10 DEF Means
  <2> QED
    BY <1>9, <2>1, <2>2
<1> QED
  BY <1>1, <1>11, <1>12, <1>13, <1>14

\* What is said of the condition of a simple rule is so.
LEMMA WhenWarningsMean ==
  ASSUME rule.kind = "simple", NEW w \in WhenWarnings
  PROVE  MeansOfRule(w, rule)
<1>1. \/ w = Warning("always true", 0, 0) /\ ConstTrue(rule.when)
      \/ w = Warning("always false", 0, 0) /\ ConstFalse(rule.when)
  BY DEF WhenWarnings
<1>2. \A what, m, k : Warning(what, m, k).what = what
  BY DEF Warning
<1>3. \/ w.what = "always true" /\ ConstTrue(rule.when)
      \/ w.what = "always false" /\ ConstFalse(rule.when)
  BY <1>1, <1>2
<1> QED
  BY <1>3 DEF MeansOfRule

\* There are no warnings at first,
LEMMA WarningsFirst == VerifyInit => Warnings
  BY DEF VerifyInit, Warnings

\* and later those of the analysis.
LEMMA WarningsNext == GivenToVerify /\ Warnings /\ [VerifyNext]_verifyVars => Warnings'
<1> SUFFICES ASSUME GivenToVerify, Warnings, [VerifyNext]_verifyVars PROVE Warnings'
  OBVIOUS
<1>1. CASE Analyze
  <2>1. rule' = rule
    BY <1>1 DEF Analyze
  <2>2. \/ warnings' = warnings
        \/ rule.kind = "simple" /\ warnings' = WhenWarnings
        \/ rule.kind # "simple" /\ warnings' = UNION {CaseWarnings(m) : m \in DOMAIN rule.metrics}
    BY <1>1 DEF Analyze
  <2>3. rule \in Rules /\ (rule.kind # "simple" => rule.kind = "metric")
    BY RulesAssumption DEF GivenToVerify
  <2>4. \A w \in warnings' : MeansOfRule(w, rule)
    BY <2>2, <2>3, WhenWarningsMean, CaseWarningsMean DEF Warnings
  <2> QED
    BY <2>1, <2>4 DEF Warnings
<1>2. CASE Create \/ Declare \/ Verify \/ Finished \/ UNCHANGED verifyVars
  <2>1. rule' = rule /\ warnings' = warnings
    BY <1>2 DEF Create, Declare, RegisterVar, RegisterAction, Declaring, Verify, Finished,
       verifyVars, checkVars
  <2> QED
    BY <2>1 DEF Warnings
<1>3. CASE ExecuteRule
  <2>1. rule' = rule /\ warnings' = warnings
    BY <1>3, ExecutionOnly
  <2> QED
    BY <2>1 DEF Warnings
<1> QED
  BY <1>1, <1>2, <1>3 DEF VerifyNext

\* The conditions before the case that is evaluated did not hold.
MissedBefore(r, m, n) ==
  \A d \in 1 .. n - 1 : /\ ~Failed(Evaluate(ConditionAt(r, m, d), 0))
                        /\ ~Fires(Evaluate(ConditionAt(r, m, d), 0).value)

Missed == at = "case" => MissedBefore(rule, metric, case)

\* No case is evaluated at first;
LEMMA MissedFirst == VerifyInit => Missed
  BY DEF VerifyInit, TreeInit, Missed

\* the next one is evaluated when the one before did not hold.
LEMMA MissedNext == GivenToVerify /\ Placed /\ Missed /\ [VerifyNext]_verifyVars => Missed'
<1> SUFFICES ASSUME GivenToVerify, Placed, Missed, [VerifyNext]_verifyVars PROVE Missed'
  OBVIOUS
<1>1. CASE Create \/ Declare \/ Verify \/ Analyze \/ Finished \/ UNCHANGED verifyVars
  <2>1. rule' = rule /\ at' = at /\ metric' = metric /\ case' = case
    BY <1>1, PreparationOnly DEF treeVars
  <2> QED
    BY <2>1 DEF Missed
<1>2. CASE ExecuteRule
  <2>0. rule' = rule /\ TreeNext
    <3>1. TreeNext
      BY <1>2 DEF ExecuteRule
    <3> QED
      BY <1>2, <3>1, ExecutionOnly
  <2>1. CASE ExecuteSimple \/ CaseFails \/ CaseMatches \/ Default \/ Finish
    <3>1. at' # "case"
      BY <2>1 DEF ExecuteSimple, CaseFails, CaseMatches, Default, Finish
    <3> QED
      BY <3>1 DEF Missed
  <2>2. CASE NextMetric
    <3>1. at' = "case" => case' = 1
      BY <2>2 DEF NextMetric
    <3> QED
      BY <3>1 DEF Missed, MissedBefore
  <2>3. CASE CaseMisses
    <3>1. /\ at = "case" /\ case' = case + 1 /\ at' = at /\ metric' = metric
          /\ ~Failed(Condition) /\ ~Fires(Condition.value)
      BY <2>3 DEF CaseMisses, Matching
    <3>2. Condition = WalkFrom(ConditionAt(rule, metric, case), count)
      BY DEF Condition, ConditionAt, Current
    <3>3. /\ ~Failed(Evaluate(ConditionAt(rule, metric, case), 0))
          /\ ~Fires(Evaluate(ConditionAt(rule, metric, case), 0).value)
      BY <3>1, <3>2, WalkUnlimited
    <3>4. case \in Nat \ {0} /\ MissedBefore(rule, metric, case)
      BY <3>1 DEF Placed, Missed
    <3>5. \A d \in 1 .. (case + 1) - 1 : d = case \/ d \in 1 .. case - 1
      BY <3>4
    <3>6. MissedBefore(rule, metric, case + 1)
      BY <3>3, <3>4, <3>5 DEF MissedBefore
    <3> QED
      BY <2>0, <3>1, <3>6 DEF Missed
  <2> QED
    BY <2>0, <2>1, <2>2, <2>3 DEF TreeNext
<1> QED
  BY <1>1, <1>2 DEF VerifyNext

\* What an analysis and an execution go through: warnings mean what they say, and a
\* case is reached only past those that did not hold.
THEOREM Analyzing == VerifySpec => [](GivenToVerify /\ Placed /\ Warnings /\ Missed)
<1>1. VerifyInit => GivenToVerify /\ Placed /\ Warnings /\ Missed
  BY GivenFirst, PlacedFirst, WarningsFirst, MissedFirst
<1>2. GivenToVerify /\ Placed /\ Warnings /\ Missed /\ [VerifyNext]_verifyVars
        => (GivenToVerify /\ Placed /\ Warnings /\ Missed)'
  BY GivenNext, PlacedNext, WarningsNext, MissedNext
<1> QED
  BY <1>1, <1>2, PTL DEF VerifySpec

\* A case of the metric that is evaluated, and its condition.
LEMMA AtCase ==
  ASSUME GivenToVerify, Placed, Matching
  PROVE  /\ rule \in Rules /\ rule.kind = "metric" /\ metric \in DOMAIN rule.metrics
         /\ case \in DOMAIN rule.metrics[metric].cases
         /\ \A d \in 1 .. case : /\ ConditionAt(rule, metric, d) \in Exprs
                                 /\ ConditionAt(rule, metric, d) \in ConditionsOf(rule)
         /\ Condition = WalkFrom(ConditionAt(rule, metric, case), count)
<1>1. at = "case" /\ case <= Len(Current.cases)
  BY DEF Matching
<1>2. /\ rule \in Rules /\ rule.kind = "metric" /\ metric \in DOMAIN rule.metrics
      /\ case \in Nat \ {0}
  BY <1>1 DEF GivenToVerify, Placed
<1>3. Current.cases \in Seq(Range(Current.cases))
  BY <1>1, CurrentWithin
<1>4. \A d \in 1 .. case : d \in DOMAIN Current.cases
  BY <1>1, <1>2, <1>3, LenProperties
<1>5. Current = rule.metrics[metric]
  BY DEF Current
<1>6. Condition = WalkFrom(ConditionAt(rule, metric, case), count)
  BY DEF Condition, ConditionAt, Current
<1>7. ConditionsOf(rule) = UNION {{c.condition : c \in ToSet(m.cases)} : m \in ToSet(rule.metrics)}
  BY <1>2 DEF ConditionsOf
<1>8. ASSUME NEW d \in 1 .. case PROVE ConditionAt(rule, metric, d) \in ConditionsOf(rule)
  <2>1. Current.cases[d] \in ToSet(Current.cases) /\ Current \in ToSet(rule.metrics)
    BY <1>2, <1>4, <1>5 DEF ToSet
  <2> QED
    BY <1>5, <1>7, <2>1 DEF ConditionAt
<1>9. ConditionsOf(rule) \subseteq Exprs
  BY <1>2, RulesAreMadeOf
<1> QED
  BY <1>2, <1>4, <1>5, <1>6, <1>8, <1>9

\* What a warning about the case that is evaluated says of it.
LEMMA WarnedMeans ==
  ASSUME Warnings, rule.kind = "metric", NEW what, Warned(what, case)
  PROVE  Means(what, rule, metric, case)
<1>1. Warning(what, metric, case) \in warnings
  BY DEF Warned
<1>2. MeansOfRule(Warning(what, metric, case), rule)
  BY <1>1 DEF Warnings
<1> QED
  BY <1>2 DEF MeansOfRule, Warning

NoIntConditions == ~ \E e \in ConditionsOf(rule) : IsInt(e)

\* A case that holds was not called dead,
LEMMA MatchesAreTrue ==
  ASSUME MaxExprDepth > 1, GivenToVerify, Placed, Warnings, Missed, CaseMatches
  PROVE  /\ ~Warned("always false", case) /\ ~Warned("shadowed", case)
         /\ NoIntConditions => ~Warned("unreachable", case)
<1> DEFINE e == ConditionAt(rule, metric, case)
<1>1. Matching /\ ~Failed(Condition) /\ Fires(Condition.value)
  BY DEF CaseMatches
<1>2. at = "case" /\ rule.kind = "metric" /\ case \in Nat \ {0}
  BY <1>1 DEF Matching, Placed
<1>3. Fires(Evaluate(e, 0).value)
  BY <1>1, AtCase, WalkUnlimited
<1>4. \A d \in 1 .. case : /\ ConditionAt(rule, metric, d) \in Exprs
                           /\ ConditionAt(rule, metric, d) \in ConditionsOf(rule)
  BY <1>1, AtCase
<1>5. case \in 1 .. case /\ \A d \in 1 .. case - 1 : d \in 1 .. case
  BY <1>2
<1>6. \A d \in 1 .. case - 1 : /\ ~Failed(Evaluate(ConditionAt(rule, metric, d), 0))
                               /\ ~Fires(Evaluate(ConditionAt(rule, metric, d), 0).value)
  BY <1>2 DEF Missed, MissedBefore
<1>7. ASSUME Warned("always false", case) PROVE FALSE
  <2>1. ConstFalse(e)
    <3>1. Means("always false", rule, metric, case)
      BY <1>2, <1>7, WarnedMeans
    <3> QED
      BY <3>1 DEF Means
  <2> QED
    BY <1>3, <1>4, <1>5, <2>1, ConstantConditions
<1>8. ASSUME Warned("shadowed", case) PROVE FALSE
  <2>1. PICK d \in 1 .. case - 1 : Shadows(ConditionAt(rule, metric, d), e)
    <3>1. Means("shadowed", rule, metric, case)
      BY <1>2, <1>8, WarnedMeans
    <3> QED
      BY <3>1 DEF Means
  <2>2. e = ConditionAt(rule, metric, d)
    BY <1>4, <1>5, <2>1, ShadowsSame
  <2> QED
    BY <1>3, <1>6, <2>1, <2>2
<1>9. ASSUME Warned("unreachable", case), NoIntConditions PROVE FALSE
  <2>1. PICK d \in 1 .. case - 1 : ConstTrue(ConditionAt(rule, metric, d))
    <3>1. Means("unreachable", rule, metric, case)
      BY <1>2, <1>9, WarnedMeans
    <3> QED
      BY <3>1 DEF Means
  <2>2. ConditionAt(rule, metric, d) \in Exprs /\ ~IsInt(ConditionAt(rule, metric, d))
    BY <1>4, <1>5, <1>9, <2>1 DEF NoIntConditions
  <2>3. Fires(Evaluate(ConditionAt(rule, metric, d), 0).value)
    BY <2>1, <2>2, ConstantConditions
  <2> QED
    BY <1>6, <2>1, <2>3
<1> QED
  BY <1>7, <1>8, <1>9

\* one that does not hold was not said always to hold,
LEMMA MissesAreTrue ==
  ASSUME MaxExprDepth > 1, GivenToVerify, Placed, Warnings, CaseMisses, NoIntConditions
  PROVE  ~Warned("always true", case)
<1> DEFINE e == ConditionAt(rule, metric, case)
<1>1. Matching /\ ~Failed(Condition) /\ ~Fires(Condition.value)
  BY DEF CaseMisses
<1>2. at = "case" /\ rule.kind = "metric" /\ case \in Nat \ {0}
  BY <1>1 DEF Matching, Placed
<1>3. ~Fires(Evaluate(e, 0).value)
  BY <1>1, AtCase, WalkUnlimited
<1>4. e \in Exprs /\ ~IsInt(e)
  <2>1. case \in 1 .. case
    BY <1>2
  <2>2. e \in Exprs /\ e \in ConditionsOf(rule)
    BY <1>1, <2>1, AtCase
  <2> QED
    BY <2>2 DEF NoIntConditions
<1>5. ASSUME Warned("always true", case) PROVE FALSE
  <2>1. Means("always true", rule, metric, case)
    BY <1>2, <1>5, WarnedMeans
  <2>2. ConstTrue(e)
    BY <2>1 DEF Means
  <2> QED
    BY <1>3, <1>4, <2>2, ConstantConditions
<1> QED
  BY <1>5

\* and neither was the condition of a simple rule.
LEMMA VerdictsAreTrue ==
  ASSUME MaxExprDepth > 1, GivenToVerify, Warnings, ExecuteSimple
  PROVE  /\ verdict' = "FAILED" => ~Warned("always false", 0)
         /\ verdict' = "PASSED" /\ NoIntConditions => ~Warned("always true", 0)
<1> DEFINE w == WalkFrom(rule.when, 0)
<1>1. rule.kind = "simple" /\ rule.when \in Exprs /\ rule.when \in ConditionsOf(rule)
  BY SimpleRules DEF ExecuteSimple, GivenToVerify, ConditionsOf
<1>2. /\ verdict' = "FAILED" => ~Failed(w) /\ Fires(w.value)
      /\ verdict' = "PASSED" => ~Failed(w) /\ ~Fires(w.value)
  BY DEF ExecuteSimple
<1>3. ~Failed(w) => w.value = Evaluate(rule.when, 0).value
  BY WalkUnlimited
<1>4. /\ Warned("always false", 0) => ConstFalse(rule.when)
      /\ Warned("always true", 0) => ConstTrue(rule.when)
  <2>1. \A what : Warned(what, 0) => MeansOfRule(Warning(what, metric, 0), rule)
    BY DEF Warned, Warnings
  <2> QED
    BY <1>1, <2>1 DEF MeansOfRule, Warning
<1> QED
  BY <1>1, <1>2, <1>3, <1>4, ConstantConditions DEF NoIntConditions

\* What cdsl_analyze_rule warns of is what the execution does: for any rule, as long
\* as the depth limit lets comparisons reach their operands (vm->max_expr_depth of 1
\* makes every comparison false).
THEOREM WarningsHold == ASSUME MaxExprDepth > 1 PROVE VerifySpec => WarningsAreTrue
<1> DEFINE A ==
      LET literal == \E e \in ConditionsOf(rule) : IsInt(e) IN
      step = "execute" =>
      /\ CaseMatches => \A w \in {"always false", "shadowed"} : ~Warned(w, case)
      /\ CaseMatches /\ ~literal => ~Warned("unreachable", case)
      /\ CaseMisses /\ ~literal => ~Warned("always true", case)
      /\ ExecuteSimple /\ verdict' = "FAILED" => ~Warned("always false", 0)
      /\ ExecuteSimple /\ verdict' = "PASSED" /\ ~literal => ~Warned("always true", 0)
<1>1. ASSUME GivenToVerify, Placed, Warnings, Missed PROVE A
  BY <1>1, MatchesAreTrue, MissesAreTrue, VerdictsAreTrue DEF NoIntConditions
<1>2. GivenToVerify /\ Placed /\ Warnings /\ Missed => [A]_verifyVars
  BY <1>1
<1>3. VerifySpec => [][A]_verifyVars
  <2> HIDE DEF A
  <2> QED
    BY <1>2, Analyzing, PTL
<1> QED
  BY <1>3 DEF WarningsAreTrue
==============================================================================
