---------------------------- MODULE MCVerification ----------------------------
(***************************************************************************)
(* Rules over every pair of types: one variable of each, one that is never *)
(* set, the built-in functions as they promise to be called, and a         *)
(* function that only the schema knows.  A variable may be declared with   *)
(* the type of its value or as a BOOL.                                     *)
(***************************************************************************)
EXTENDS Verification, Builtins, Literals

CONSTANTS num, flag, name, big, amt, due, list, missing

MCIntMin == -4
MCLongMin == -16

\* Whole numbers have zeros in the lower halves of their doubles.
MCLowerHalf(n) == n % Parts

\* 4 is a date.
MCSpelling == <<<<"a">>, <<"A">>, <<>>, <<"1">>, <<" ", "A">>, <<" ", "a">>>>
MCUpper == [c \in {"a", "A", "1", " "} |-> IF c = "a" THEN "A" ELSE c]
MCLower == [c \in {"a", "A", "1", " "} |-> IF c = "A" THEN "a" ELSE c]
MCInstant == [s \in 1 .. 6 |-> IF s = 4 THEN 7 ELSE NoDate]
MCTypeName == [t \in Types |-> 1]

MCContext ==
  (num :> Number(3)) @@ (flag :> Bool(FALSE)) @@ (name :> Text(6))
    @@ (big :> Value("LONG", 8)) @@ (amt :> Value("FLOAT", 3)) @@ (due :> Date(9))
    @@ (list :> ArrayOf(<<Number(1), Number(3), Text(1)>>))

MCDeclarations ==
  {<<x, MCContext[x].type>> : x \in DOMAIN MCContext}
    \cup {<<x, "BOOL">> : x \in {num, name, list}} \cup {<<missing, "INT">>}

One == Literal(Number(1))
Zero == Literal(Number(0))
True == Literal(Bool(TRUE))
False == Literal(Bool(FALSE))
Half == Literal(Value("FLOAT", 1))
Word == Literal(Text(1))
Today == Literal(Date(4))
Written4 == Literal(Text(4))

S(args, returns) == Signature(args, returns)
MCPromised ==
  [f \in BuiltinNames |->
     CASE f = "strlen" -> {S(<<"STRING">>, "INT")}
       [] f \in {"uppercase", "lowercase", "trim"} -> {S(<<"STRING">>, "STRING")}
       [] f \in {"contains", "startswith", "endswith"} ->
            {S(<<"STRING", "STRING">>, "BOOL")}
       [] f = "now" -> {S(<<>>, "DATE")}
       [] f \in {"is_before", "is_after"} ->
            {S(<<t, u>>, "BOOL") : t \in {"DATE", "STRING"}, u \in {"DATE", "STRING"}}
       [] f = "days_between" ->
            {S(<<t, u>>, "INT") : t \in {"DATE", "STRING"}, u \in {"DATE", "STRING"}}
       [] f = "date_add" -> {S(<<t, "INT">>, "DATE") : t \in {"DATE", "STRING"}}
       [] f = "abs" -> {S(<<t>>, t) : t \in {"INT", "FLOAT"}}
       [] f \in {"min", "max"} -> {S(<<t, t>>, t) : t \in {"INT", "FLOAT"}}
       [] f = "round" -> {S(<<"FLOAT">>, "INT")}
       [] f = "approx_eq" -> {S(<<"FLOAT", "FLOAT">>, "BOOL")}
       [] f = "typeof" -> {S(<<t>>, "STRING") : t \in {"INT", "DATE"}}
       [] f \in {"count", "sum"} -> {S(<<"ARRAY">>, "INT")}]

\* The built-in functions keep to these signatures, whatever FLOAT is made of.
Samples ==
  Range(MCContext) \cup {Void, Number(-4), Number(0), Value("FLOAT", -3), Text(0), Text(1), Date(-1)}

ASSUME PromisesAssumption ==
  \A f \in BuiltinNames : \A s \in MCPromised[f] :
    \A values \in [1 .. Len(s.args) -> Samples] :
      (\A i \in DOMAIN values : OfType(s.args[i], values[i]))
        => OfType(s.returns, Builtin(f, values))

MCSignatures ==
  {<<"block", S(<<"STRING">>, "VOID")>>, <<"score", S(<<"INT">>, "VOID")>>,
   <<"lost", S(<<"INT">>, "INT")>>, <<"nothing", S(<<>>, "VOID")>>,
   <<"strlen", S(<<"INT">>, "BOOL")>>}
    \cup UNION {{<<f, s>> : s \in MCPromised[f]} : f \in BuiltinNames}

Leaves ==
  {One, True, Half, Word, Today, Id(num), Id(flag), Id(name), Id(big), Id(amt), Id(due),
   Id(list), Id(missing)}
Few == {One, Id(num), Id(flag), Id(name), Id(due)}

Trees(ops, L, R) == {Binary(op, l, r) : op \in ops, l \in L, r \in R}

Calls ==
  {Call(f, <<e>>) : f \in {"strlen", "uppercase", "trim", "abs", "round", "count", "sum", "lost"},
                    e \in {Id(num), Id(name), Id(amt), Id(list)}}
    \cup {Call(f, <<d, e>>) : f \in {"contains", "max", "approx_eq", "is_before", "date_add"},
                              d \in {Id(num), Id(name), Id(due)},
                              e \in {One, Half, Word, Today, Written4}}
    \cup {Call("now", <<>>), Call("nothing", <<>>), Call("strlen", <<>>)}

\* Two dates, written or not, and what the calendar makes of them.
Days == {Literal(Date(n)) : n \in {0, 4, 6, 7}} \cup {Written4, Word}
Befores == {Call("is_before", <<d, e>>) : d \in Days, e \in Days}

ConditionTrees ==
  Leaves \cup Calls \cup Befores
    \cup Trees({"ADD", "SUB", "DIV", "LT", "EQ", "AND"}, Leaves, Leaves)
    \cup {Unary(op, e) : op \in {"NOT", "NEG"}, e \in Leaves}
    \cup Trees({"EQ", "ADD"}, Calls, {One})
    \cup Trees({"ADD", "LT"}, {Call("abs", <<One>>), Call("round", <<One>>)}, {Id(big), Half})
    \cup {Unary("NOT", e) : e \in Trees({"LT", "EQ", "OR"}, Few, Few)}
    \cup Trees({"EQ"}, {Call("count", <<ArrayLiteral(<<d, e>>)>>) : d \in Few, e \in Few}, {One})

Block(e) == Action("block", <<e>>)
Simple ==
  {SimpleRule(e, Block(Word)) : e \in ConditionTrees}
    \cup {SimpleRule(e, Block(Word)) : e \in Trees({"LT", "EQ", "ADD"}, {One, Zero}, {One, Zero})
                                              \cup {Zero, False}}
    \cup {SimpleRule(True, Block(e)) : e \in Few \cup Calls}

Conditions ==
  {True, False, Zero, One, Id(flag), Id(num)} \cup Trees({"LT", "GE"}, {Id(num)}, {One})
    \cup Trees({"LT"}, {Zero, One}, {One})
MCCases == {Case(e, Action("score", <<One>>)) : e \in Conditions}

MCRules ==
  Simple
    \cup {MetricRule(<<Metric(3, FALSE, <<c, d>>, Action("score", <<Id(num)>>))>>, 2, 1) :
            c \in MCCases, d \in MCCases}
    \cup {MetricRule(<<Metric(3, FALSE, <<Case(False, Block(Word)), c, d>>, Block(Word))>>, 2, 1) :
            c \in MCCases, d \in MCCases}

\* No tree of these is higher.
AllTrees ==
  WithParts(WithParts(WithParts(WithParts(WithParts(UNION {TreesOf(r) : r \in Rules})))))
Heights[e \in AllTrees] == Max({0} \cup {1 + Heights[d] : d \in PartsOf(e)})
MCExprs == AllTrees
MCHeight == Heights

ArgValue(i) == Evaluate(rule.when.args[i], 0).value


\* "Absolute days between `a` and `b`" (docs/user-guide.md:430).
DaysBetweenIsAbsolute ==
  step = "execute" /\ rule.kind = "simple" /\ rule.when \in Befores =>
    Builtin("days_between", <<ArgValue(1), ArgValue(2)>>).data >= 0
=============================================================================
