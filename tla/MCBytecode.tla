------------------------------ MODULE MCBytecode ------------------------------
(***************************************************************************)
(* Simple rules over expressions with up to three levels, and metric rules *)
(* with up to two metrics or two cases.  The variables hold a number, a    *)
(* truth value, a string and a LONG whose lower half is zero; one variable *)
(* is missing.  The functions are those of Builtins.                       *)
(***************************************************************************)
EXTENDS Bytecode, Builtins, Literals

CONSTANTS num, flag, odd, name, long, missing

MCIntMin == -4
MCLongMin == -16

\* Whole numbers have zeros in the lower halves of their doubles.
MCLowerHalf(n) == n % Parts

MCSpelling == <<<<"a">>, <<"A">>, <<>>>>
MCCase == ("a" :> "A") @@ ("A" :> "A")
MCInstant == <<NoDate, NoDate, NoDate>>
MCTypeName == [t \in Types |-> IF t = "VOID" THEN 2 ELSE 1]

Word == Text(1)
Half == Literal(Value("FLOAT", 1))
Today == Literal(Date(6))

One == Literal(Number(1))
Zero == Literal(Number(0))
True == Literal(Bool(TRUE))

MCContext ==
  (num :> Number(3)) @@ (flag :> Bool(FALSE)) @@ (name :> Word)
    @@ (long :> Value("LONG", 8)) @@ (odd :> Value("BOOL", 2))

Leaves ==
  {One, Zero, True, Half, Today, Literal(Word), Id(num), Id(flag), Id(name), Id(long), Id(missing)}

Trees(ops, L, R) == {Binary(op, l, r) : op \in ops, l \in L, r \in R}

Flat ==
  Trees(Arithmetic \cup Relational \cup Logical, Leaves, Leaves)
    \cup {Unary(op, e) : op \in {"NOT", "NEG"}, e \in Leaves}
    \cup {Call(f, <<e>>) : f \in {"abs", "typeof", "unknown"}, e \in Leaves}

Small == {One, Id(num), Id(flag), Id(missing)}
SmallOps == {"ADD", "DIV", "LT", "AND", "OR"}
SmallFlat ==
  Trees(SmallOps, Small, Small) \cup {Unary("NOT", e) : e \in Small}
    \cup {Call("abs", <<e>>) : e \in Small}

Nested ==
  Trees(SmallOps, SmallFlat, Small) \cup Trees(SmallOps, Small, SmallFlat)
    \cup {Unary("NOT", e) : e \in SmallFlat}
    \cup {Call("abs", <<e>>) : e \in SmallFlat}
    \cup {Call("max", <<d, e>>) : d \in Small, e \in SmallFlat}

Deep ==
  {Unary("NOT", Unary("NOT", Unary("NOT", e))) : e \in SmallFlat}
    \cup {Unary("NOT", Unary("NOT", e)) : e \in SmallFlat}
    \cup Trees({"EQ", "NE"}, {Call("typeof", <<e>>) : e \in Leaves}, {Literal(Word)})
    \cup Trees({"ADD"}, {Id(num)}, Trees({"ADD"}, Small, Small))
    \cup Trees({"LT", "AND"}, {Id(num)}, Trees({"ADD"}, {Id(num)}, Trees({"ADD"}, Small, Small)))

\* num * ... * 0 with as many operators.
Product[levels \in 0 .. 4] ==
  IF levels = 0 THEN Zero ELSE Binary("MUL", Id(num), Product[levels - 1])

\* Arguments that need more of the stack than the compiler takes them to need,
\* code that needs more than there is, and an argument only one execution
\* evaluates.
Greedy ==
  Trees({"LE"}, {Call("max", <<Id(num), Product[k]>>) : k \in 1 .. 3}, {Id(num)})
    \cup Trees({"LT"}, {Id(num)}, {Product[k] : k \in 2 .. 4})
    \cup Trees({"EQ"}, {Call(f, <<Binary("DIV", One, Zero)>>) : f \in {"abs", "unknown"}}, {One})

\* Arrays: how many items, which sum, and one that needs too much of the stack.
Items == {<<>>, <<One, Id(num)>>, <<Id(num), Binary("ADD", One, Id(num))>>,
          <<Id(missing), One>>, <<One, One, One>>, <<ArrayLiteral(<<One>>)>>}
Arrays ==
  Trees({"LT"}, {One}, {Call(f, <<ArrayLiteral(x)>>) : f \in {"count", "sum"}, x \in Items})
    \cup Trees({"EQ"}, {ArrayLiteral(<<One>>)}, {ArrayLiteral(<<One>>), One, Id(missing)})

\* A truth value other than 0 and 1 and a string that is NULL, as arguments.
Unlike ==
  Trees({"EQ"}, {Call("max", <<Binary("OR", e, Id(flag)), One>>) : e \in {Id(odd), Id(flag), True}},
        {One})
    \cup {Unary("NOT", Call("contains", <<Id(name), Call("uppercase", <<e>>)>>)) :
            e \in {One, Id(name), Call("typeof", <<One>>), Id(odd)}}
    \cup {Binary("AND", e, Id(odd)) : e \in {Id(odd), True, Id(flag)}}

ConditionTrees ==
  Leaves \cup Flat \cup Nested \cup Deep \cup Greedy \cup Arrays \cup Unlike

Block(e) == Action("block", <<e>>)
Simple == {SimpleRule(e, Block(Literal(Word))) : e \in ConditionTrees}
       \cup {SimpleRule(True, Block(e)) : e \in SmallFlat}
       \cup {SimpleRule(True, Action("score", <<e>>)) : e \in SmallFlat}

Overflow == Binary("ADD", Id(num), Id(num))
Less == Binary("LT", One, Id(num))
Both == Binary("AND", Less, Unary("NOT", Id(flag)))
Fail(args) == Action("fail_metric", args)

Cases ==
  {Case(e, a) :
     e \in {True, Id(num), Id(missing), Both, Binary("DIV", One, Zero)},
     a \in {Action("score", <<Id(num)>>), Action("score", <<Overflow>>),
            Action("score", <<Id(name)>>), Action("score", <<>>),
            Fail(<<Literal(Word)>>), Fail(<<Literal(Word), Literal(Word)>>),
            Fail(<<Literal(Word), Id(name)>>), Block(Literal(Word))}}
FewCases ==
  {Case(e, a) : e \in {Less, Id(flag), Both},
                a \in {Action("score", <<One>>), Fail(<<Literal(Word)>>),
                       Block(Literal(Word))}}

Metrics ==
  {Metric(3, c, <<x>>, a) :
     c \in BOOLEAN, x \in Cases,
     a \in {Action("score", <<One>>), Action("score", <<Overflow>>),
            Fail(<<Literal(Word), Literal(Word)>>), Block(Literal(Word))}}
FewMetrics ==
  {Metric(2, c, <<x>>, a) :
     c \in BOOLEAN, x \in FewCases,
     a \in {Action("score", <<One>>), Fail(<<Literal(Word)>>)}}
TwoCases ==
  {Metric(3, FALSE, <<x, y>>, Fail(<<Literal(Word)>>)) : x \in FewCases, y \in FewCases}

MCRules ==
  Simple
    \cup {MetricRule(<<m>>, pass, 1) : m \in Metrics \cup TwoCases, pass \in {0, 3}}
    \cup {MetricRule(<<x, y>>, 4, 2) : x \in FewMetrics, y \in FewMetrics}

\* Rules over truth values alone: flag = (TRUE AND flag) and its like.
MCLogicalRules ==
  {SimpleRule(e, Block(Literal(Word))) :
     e \in Trees({"EQ", "NE"}, {Id(flag), True}, Trees(Logical, {Id(flag), True}, {Id(flag), True}))}
\* No tree of these is higher.
AllTrees ==
  WithParts(WithParts(WithParts(WithParts(WithParts(UNION {TreesOf(r) : r \in Rules})))))
Heights[e \in AllTrees] == Max({0} \cup {1 + Heights[d] : d \in PartsOf(e)})
MCExprs == AllTrees
MCHeight == Heights
=============================================================================
