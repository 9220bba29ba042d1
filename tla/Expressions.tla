----------------------------- MODULE Expressions -----------------------------
(***************************************************************************)
(* Values, operators and expressions of the rule language, and what the    *)
(* tree walk makes of an expression (src/src/vm/value_ops.c,               *)
(* cdsl_eval_expr_internal in src/src/vm/eval.c).                          *)
(*                                                                         *)
(* A value is a type and the contents of the union.  A string is a number  *)
(* that stands for its text, zero for NULL, because a string is a pointer  *)
(* where a condition reads it as a truth value.  INT and LONG have the     *)
(* ranges the constants give them: the code checks every result against    *)
(* its own.  A FLOAT is counted in parts of one and rounds towards zero; a *)
(* DATE is a number of seconds.  The items of an array are beside it.      *)
(***************************************************************************)
EXTENDS Integers, SequencesExt, FiniteSetsExt

CONSTANTS
  IntMin, IntMax,    \* the range of INT
  LongMin, LongMax,  \* the range of LONG
  Parts,             \* a FLOAT counts parts of one, so many make one
  LowerHalf(_),      \* the lower half of the double that so many parts are, as an int
  Day,               \* the seconds of a day
  EmptyText,         \* the string ""
  Context,           \* Context[x]: the value of variable x
  Functions,         \* the registered functions
  Apply(_, _),       \* what a function returns for its arguments' values
  MaxExprDepth,      \* vm->max_expr_depth
  Exprs,             \* the expressions that occur
  Height             \* Height[e]: how high the tree of an expression is

ASSUME RangesAssumption ==
  /\ {IntMin, IntMax, LongMin, LongMax} \subseteq Int
  /\ LongMin <= IntMin /\ IntMin < 0 /\ 0 < IntMax /\ IntMax <= LongMax

ASSUME UnitsAssumption == {Parts, Day} \subseteq Nat \ {0} /\ EmptyText \in Nat \ {0}

ASSUME DepthAssumption == MaxExprDepth \in Nat \ {0}

(***************************************************************************)
(* Values                                                                  *)
(***************************************************************************)
Value(t, n) == [type |-> t, data |-> n]
Types == {"VOID", "BOOL", "INT", "LONG", "FLOAT", "STRING", "DATE", "ARRAY"}
Void == Value("VOID", 0)
Bool(b) == Value("BOOL", IF b THEN 1 ELSE 0)
Number(n) == Value("INT", n)
ArrayOf(items) == [type |-> "ARRAY", data |-> 1, items |-> items]

\* data.bool_val: the union read as an int, which is the lower half of a LONG, of
\* a DATE and of the double a FLOAT is.
BoolVal(v) ==
  CASE v.type \in {"LONG", "DATE"} -> v.data % (IntMax - IntMin + 1)
    [] v.type = "FLOAT" -> LowerHalf(v.data)
    [] OTHER -> v.data

IsTrue(v) == BoolVal(v) # 0

(***************************************************************************)
(* Operators                                                               *)
(***************************************************************************)
Arithmetic == {"ADD", "SUB", "MUL", "DIV"}
Relational == {"EQ", "NE", "LT", "GT", "LE", "GE"}
Logical == {"AND", "OR"}

\* cdsl_valop_status_t with the value in *out.
Outcome(s, v) == [status |-> s, value |-> v]
Fails(s) == Outcome(s, Void)

\* Whether the caller goes on with the value.
Usable(outcome) == outcome.status \in {"OK", "VOID_OPERAND"}

Magnitude(n) == IF n < 0 THEN -n ELSE n

\* Division of C: towards zero.
Quotient(a, b) ==
  LET q == Magnitude(a) \div Magnitude(b) IN
  IF (a < 0) = (b < 0) THEN q ELSE -q

Exact(op, a, b) ==
  CASE op = "ADD" -> a + b
    [] op = "SUB" -> a - b
    [] op = "MUL" -> a * b
    [] op = "DIV" -> Quotient(a, b)

Holds(op, a, b) ==
  CASE op = "EQ" -> a = b
    [] op = "NE" -> a # b
    [] op = "LT" -> a < b
    [] op = "GT" -> a > b
    [] op = "LE" -> a <= b
    [] op = "GE" -> a >= b

Width(t) == IF t = "INT" THEN IntMin .. IntMax ELSE LongMin .. LongMax

\* A result in the range of its type, or an overflow.
Checked(t, n) ==
  IF n \in Width(t) THEN Outcome("OK", Value(t, n)) ELSE Fails("OVERFLOW")

Numeric == {"INT", "LONG", "FLOAT"}

IsZeroDivisor(v) == v.type \in Numeric /\ v.data = 0

\* A number as parts of one.
AsParts(v) == IF v.type = "FLOAT" THEN v.data ELSE v.data * Parts

\* FLOAT neither overflows nor is checked.
ExactParts(op, a, b) ==
  CASE op = "MUL" -> Quotient(a * b, Parts)
    [] op = "DIV" -> Quotient(a * Parts, b)
    [] OTHER -> Exact(op, a, b)

Numbers(op, a, b) ==
  LET types == {a.type, b.type} IN
  IF op \in Relational
    THEN Outcome("OK", Bool(Holds(op, AsParts(a), AsParts(b))))
  ELSE IF "FLOAT" \in types
    THEN Outcome("OK", Value("FLOAT", ExactParts(op, AsParts(a), AsParts(b))))
  ELSE Checked(IF "LONG" \in types THEN "LONG" ELSE "INT", Exact(op, a.data, b.data))

\* Strings are equal or not; they are not ordered.  NULL compares as "".
TextOf(v) == IF v.data = 0 THEN EmptyText ELSE v.data

Strings(op, a, b) ==
  IF a.type = b.type /\ op \in {"EQ", "NE"}
    THEN Outcome("OK", Bool(Holds(op, TextOf(a), TextOf(b))))
    ELSE Fails("TYPE_ERROR")

Booleans(op, a, b) ==
  IF a.type = b.type /\ op \in Relational
    THEN Outcome("OK", Bool(Holds(op, Bool(IsTrue(a)).data, Bool(IsTrue(b)).data)))
    ELSE Fails("TYPE_ERROR")

\* A date and a number of days; two dates.  The seconds stay far from the
\* ends of their range.
Moved(op, date, days) ==
  IF days.type \in Numeric
    THEN Outcome("OK",
           Value("DATE", Exact(op, date.data, Quotient(AsParts(days) * Day, Parts))))
    ELSE Fails("TYPE_ERROR")

Dates(op, a, b) ==
  CASE a.type = b.type /\ op = "SUB" -> Checked("INT", Quotient(a.data - b.data, Day))
    [] a.type = b.type /\ op \in Relational ->
         Outcome("OK", Bool(Holds(op, a.data, b.data)))
    [] a.type # b.type /\ a.type = "DATE" /\ op \in {"ADD", "SUB"} -> Moved(op, a, b)
    [] a.type # b.type /\ b.type = "DATE" /\ op = "ADD" -> Moved(op, b, a)
    [] OTHER -> Fails("TYPE_ERROR")

Binop(op, a, b) ==
  LET types == {a.type, b.type} IN
  IF op = "DIV" /\ IsZeroDivisor(b) THEN Fails("DIV_ZERO")
  ELSE IF "VOID" \in types
    THEN Outcome("VOID_OPERAND", IF op \in Relational THEN Bool(FALSE) ELSE Void)
  ELSE IF "STRING" \in types THEN Strings(op, a, b)
  ELSE IF "DATE" \in types THEN Dates(op, a, b)
  ELSE IF "BOOL" \in types THEN Booleans(op, a, b)
  ELSE IF types \subseteq Numeric THEN Numbers(op, a, b)
  ELSE Fails("TYPE_ERROR")

Unop(op, v) ==
  CASE v.type = "VOID" ->
         Outcome("VOID_OPERAND", IF op = "NOT" THEN Bool(TRUE) ELSE Void)
    [] op = "NOT" /\ v.type \in {"BOOL", "INT"} -> Outcome("OK", Bool(v.data = 0))
    [] op = "NEG" /\ v.type \in {"INT", "LONG"} -> Checked(v.type, -v.data)
    [] op = "NEG" /\ v.type = "FLOAT" -> Outcome("OK", Value("FLOAT", -v.data))
    [] OTHER -> Fails("TYPE_ERROR")

(***************************************************************************)
(* Expressions                                                             *)
(***************************************************************************)
Literal(v) == [kind |-> "literal", value |-> v]
ArrayLiteral(items) == [kind |-> "array", items |-> items]
Id(x) == [kind |-> "id", name |-> x]
Unary(op, e) == [kind |-> "unary", op |-> op, arg |-> e]
Binary(op, l, r) == [kind |-> "binary", op |-> op, left |-> l, right |-> r]
Call(f, args) == [kind |-> "call", name |-> f, args |-> args]

\* The expressions a node points to.
PartsOf(e) ==
  CASE e.kind = "unary" -> {e.arg}
    [] e.kind = "binary" -> {e.left, e.right}
    [] e.kind = "call" -> ToSet(e.args)
    [] e.kind = "array" -> ToSet(e.items)
    [] OTHER -> {}

IsExpr(e) ==
  \/ /\ e.kind = "literal" /\ e = Literal(e.value)
     /\ e.value.type \in Types \ {"VOID", "ARRAY"} /\ e.value.data \in Int
  \/ e.kind = "id" /\ e = Id(e.name)
  \/ e.kind = "array" /\ e = ArrayLiteral(e.items) /\ e.items \in Seq(Exprs)
  \/ e.kind = "call" /\ e = Call(e.name, e.args) /\ e.args \in Seq(Exprs)
  \/ e.kind = "unary" /\ e = Unary(e.op, e.arg) /\ e.op \in {"NOT", "NEG"} /\ e.arg \in Exprs
  \/ /\ e.kind = "binary" /\ e = Binary(e.op, e.left, e.right)
     /\ e.op \in Arithmetic \cup Relational \cup Logical
     /\ {e.left, e.right} \subseteq Exprs

\* A node is made after the nodes it points to (the constructors of ast.c), so no
\* tree contains itself.
ASSUME ExprsAssumption ==
  \A e \in Exprs :
    /\ IsExpr(e)
    /\ Height[e] \in Nat
    /\ \A d \in PartsOf(e) : Height[d] < Height[e]

Lookup(x) == IF x \in DOMAIN Context THEN Context[x] ELSE Void

(***************************************************************************)
(* The tree walk: the value of an expression, the nodes that were visited  *)
(* for it, and the error it ended in.  error_state is set together with    *)
(* last_error, and a later error replaces an earlier one.                  *)
(***************************************************************************)
Walked(v, n, e) == [value |-> v, nodes |-> n, error |-> e]
Failed(w) == w.error # "NONE"

AsWalked(outcome, n) ==
  IF Usable(outcome) THEN Walked(outcome.value, n, "NONE")
  ELSE Walked(Void, n, outcome.status)

Total(numbers) ==
  LET sum[i \in 0 .. Len(numbers)] == IF i = 0 THEN 0 ELSE sum[i - 1] + numbers[i]
  IN sum[Len(numbers)]

SumOfNodes(results) == Total([i \in DOMAIN results |-> results[i].nodes])

ValuesOf(results) == [i \in DOMAIN results |-> results[i].value]

LastError(results) ==
  LET failed == {i \in DOMAIN results : Failed(results[i])} IN
  IF failed = {} THEN "NONE" ELSE results[Max(failed)].error

\* AND and OR skip the right operand when the left one settles the result.
Settles(op, v) == IF op = "AND" THEN ~IsTrue(v) ELSE IsTrue(v)

UnaryWalk(op, w) ==
  IF Failed(w) THEN Walked(Void, w.nodes + 1, w.error)
  ELSE AsWalked(Unop(op, w.value), w.nodes + 1)

BinaryWalk(op, l, r) ==
  LET both == l.nodes + r.nodes + 1 IN
  IF Failed(l) THEN Walked(Void, l.nodes + 1, l.error)
  ELSE IF op \in Logical /\ Settles(op, l.value)
    THEN Walked(Bool(op = "OR"), l.nodes + 1, "NONE")
  ELSE IF Failed(r) THEN Walked(Void, both, r.error)
  ELSE IF op \in Logical
    THEN Walked(Value("BOOL", BoolVal(r.value)), both, "NONE")
  ELSE AsWalked(Binop(op, l.value, r.value), both)

CallWalk(f, args) ==
  IF f \notin Functions THEN Walked(Void, 1, "NONE")
  ELSE Walked(Apply(f, ValuesOf(args)), 1 + SumOfNodes(args), LastError(args))

\* Evaluated[e][depth]: the walk of an expression that lies so deep in its tree.
\* The items of an array are all evaluated.  Function callbacks evaluate their
\* arguments themselves, from depth 0.
Evaluated[e \in Exprs] ==
  [depth \in 0 .. MaxExprDepth |->
     IF depth = MaxExprDepth THEN Walked(Void, 0, "NONE")
     ELSE CASE e.kind = "literal" -> Walked(e.value, 1, "NONE")
       [] e.kind = "id" -> Walked(Lookup(e.name), 1, "NONE")
       [] e.kind = "array" ->
            LET items == [i \in DOMAIN e.items |-> Evaluated[e.items[i]][depth + 1]] IN
            Walked(ArrayOf(ValuesOf(items)), 1 + SumOfNodes(items), LastError(items))
       [] e.kind = "unary" -> UnaryWalk(e.op, Evaluated[e.arg][depth + 1])
       [] e.kind = "binary" ->
            BinaryWalk(e.op, Evaluated[e.left][depth + 1], Evaluated[e.right][depth + 1])
       [] e.kind = "call" ->
            CallWalk(e.name, [i \in DOMAIN e.args |-> Evaluated[e.args[i]][0]])]

Evaluate(e, depth) == Evaluated[e][depth]
=============================================================================
