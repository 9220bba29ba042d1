----------------------------- MODULE Verification -----------------------------
(***************************************************************************)
(* A schema, the verification of a rule against it, the static analysis of *)
(* the rule and its execution (src/src/schema/schema.c, and TreeWalk).     *)
(*                                                                         *)
(* The caller makes a schema, declares variables and actions in it,        *)
(* verifies one rule, has it analysed and executes it whatever was found.  *)
(* Functions are declared as actions are.  The texts of the errors and     *)
(* their places are left out: a resolution counts its errors.              *)
(***************************************************************************)
EXTENDS TreeWalk

CONSTANTS
  Declarations,      \* the types a variable may be declared with: pairs
  Signatures,        \* the signatures an action may be declared with: pairs
  MaxDeclarations,   \* bound: declarations made
  MaxFaults          \* bound: allocations that fail

\* Types are those of the enumeration.
ASSUME DeclarationsAssumption ==
  /\ \A d \in Declarations : d[2] \in Types
  /\ \A d \in Signatures : d[2].returns \in Types

VARIABLES
  step,          \* "create", "declare", "verified", "execute"
  variables,     \* schema->var_map: types by name
  actions,       \* schema->action_map: signatures by name
  found,         \* the errors the verification came upon
  valid,         \* what cdsl_verify_rule returned
  warnings,      \* what cdsl_analyze_rule returned
  declared,      \* declarations made
  faults         \* allocations that failed

schemaVars == <<variables, actions, declared>>
checkVars == <<found, valid, warnings>>
verifyVars == <<rule, limit, treeVars, step, schemaVars, checkVars, faults>>

\* A map with one more entry, or a new value for one it has.
With(map, x, v) == [y \in DOMAIN map \cup {x} |-> IF y = x THEN v ELSE map[y]]

Signature(args, returns) == [args |-> args, returns |-> returns]
NoNames == [x \in {} |-> "VOID"]

VerifyInit ==
  /\ TreeInit
  /\ step = "create"
  /\ variables = NoNames /\ actions = NoNames /\ declared = 0
  /\ found = 0 /\ valid = FALSE /\ warnings = {}
  /\ faults = 0

Fault == faults < MaxFaults /\ faults' = faults + 1

(***************************************************************************)
(* The schema.  A declaration that finds no memory is dropped silently.    *)
(***************************************************************************)
Create ==
  /\ step = "create"
  /\ \/ step' = "declare" /\ UNCHANGED <<checkVars, faults>>
     \/ \* There is no schema: the verification lists one error.
        /\ Fault
        /\ step' = "verified"
        /\ found' = 1 /\ UNCHANGED <<valid, warnings>>
  /\ UNCHANGED <<rule, limit, treeVars, schemaVars>>

Declaring ==
  /\ step = "declare" /\ declared < MaxDeclarations
  /\ declared' = declared + 1
  /\ UNCHANGED <<rule, limit, treeVars, step, checkVars>>

\* The type of a variable that is declared again is replaced in place.
RegisterVar(x, t) ==
  /\ Declaring
  /\ \/ variables' = With(variables, x, t) /\ UNCHANGED faults
     \/ Fault /\ x \notin DOMAIN variables /\ UNCHANGED variables
  /\ UNCHANGED actions

RegisterAction(a, s) ==
  /\ Declaring
  /\ \/ actions' = With(actions, a, s) /\ UNCHANGED faults
     \/ Fault /\ UNCHANGED actions
  /\ UNCHANGED variables

(***************************************************************************)
(* The type of an expression                                               *)
(***************************************************************************)
Resolved(t, n) == [type |-> t, errors |-> n]

\* VOID is an error that has already been counted, or a call that returns nothing.
AfterCheck(t, n) == Resolved(t, IF t = "VOID" THEN n + 1 ELSE n)

UnaryType(op, t) ==
  CASE op = "NOT" -> IF t = "BOOL" THEN "BOOL" ELSE "VOID"
    [] op = "NEG" -> IF t \in Numeric THEN t ELSE "VOID"

Widest(types) ==
  CHOOSE t \in types : \/ t = "FLOAT"
                       \/ t = "LONG" /\ "FLOAT" \notin types
                       \/ types = {"INT"}

LogicalType(l, r) == IF {l, r} = {"BOOL"} THEN "BOOL" ELSE "VOID"

ArithmeticType(op, l, r) ==
  CASE {l, r} = {"DATE"} /\ op = "SUB" -> "INT"
    [] l = "DATE" /\ r \in Numeric /\ op \in {"ADD", "SUB"} -> "DATE"
    [] r = "DATE" /\ l \in Numeric /\ op = "ADD" -> "DATE"
    [] {l, r} \subseteq Numeric -> Widest({l, r})
    [] OTHER -> "VOID"

\* Mutant: strings may be ordered.
ComparisonTypeOrdered(op, l, r) ==
  IF l = r \/ {l, r} \subseteq Numeric THEN "BOOL" ELSE "VOID"

ComparisonType(op, l, r) ==
  IF (l = r \/ {l, r} \subseteq Numeric) /\ (l = "STRING" => op \in {"EQ", "NE"})
    THEN "BOOL" ELSE "VOID"

BinaryType(op, l, r) ==
  CASE op \in Logical -> LogicalType(l, r)
    [] op \in Arithmetic -> ArithmeticType(op, l, r)
    [] op \in Relational -> ComparisonType(op, l, r)

Accepts(t, given) ==
  given # "VOID" /\ (t = given \/ (t = "FLOAT" /\ given = "INT"))

\* The errors of the first n resolutions.
ErrorsOf(resolved, n) == Total([i \in 1 .. n |-> resolved[i].errors])

\* Arguments are resolved up to the first that is not accepted; one that is VOID
\* has been reported where it was resolved.
CheckedArgs(given, types) ==
  LET bad == {i \in DOMAIN given : ~Accepts(types[i], given[i].type)}
      last == IF bad = {} THEN Len(given) ELSE Min(bad)
  IN [fine |-> bad = {},
      errors |-> ErrorsOf(given, last)
                   + (IF bad # {} /\ given[last].type # "VOID" THEN 1 ELSE 0)]

\* What resolve_expr_type makes of e, given what resolve makes of its parts.
ResolveFrom(resolve, e, vs, as) ==
  CASE e.kind = "literal" -> Resolved(e.value.type, 0)
    [] e.kind = "id" ->
         IF e.name \in DOMAIN vs THEN Resolved(vs[e.name], 0) ELSE Resolved("VOID", 1)
    [] e.kind = "array" ->
         LET items == [i \in DOMAIN e.items |-> resolve[e.items[i]]]
             bad == {i \in DOMAIN items : items[i].type = "VOID"}
         IN IF bad = {} THEN Resolved("ARRAY", ErrorsOf(items, Len(items)))
            ELSE Resolved("VOID", ErrorsOf(items, Min(bad)))
    [] e.kind = "unary" ->
         LET t == resolve[e.arg] IN
         IF t.type = "VOID" THEN t ELSE AfterCheck(UnaryType(e.op, t.type), t.errors)
    [] e.kind = "binary" ->
         LET l == resolve[e.left]
             r == resolve[e.right]
             n == l.errors + r.errors
         IN IF "VOID" \in {l.type, r.type} THEN Resolved("VOID", n)
            ELSE AfterCheck(BinaryType(e.op, l.type, r.type), n)
    [] e.kind = "call" ->
         IF e.name \notin DOMAIN as THEN Resolved("VOID", 1)
         ELSE IF Len(e.args) # Len(as[e.name].args) THEN Resolved("VOID", 1)
         ELSE LET args == CheckedArgs([i \in DOMAIN e.args |-> resolve[e.args[i]]],
                                      as[e.name].args)
              IN Resolved(IF args.fine THEN as[e.name].returns ELSE "VOID", args.errors)

ResolveIn(e, vs, as) ==
  LET resolve[d \in Exprs] == ResolveFrom(resolve, d, vs, as) IN resolve[e]

Resolve(e) == ResolveIn(e, variables, actions)

(***************************************************************************)
(* Verification                                                            *)
(***************************************************************************)
VerifyAction(a) ==
  IF a.name \notin DOMAIN actions THEN 1
  ELSE IF Len(a.args) # Len(actions[a.name].args) THEN 1
  ELSE CheckedArgs([i \in DOMAIN a.args |-> Resolve(a.args[i])],
                   actions[a.name].args).errors

VerifyCase(c) ==
  LET t == Resolve(c.condition) IN
  t.errors + (IF t.type = "ARRAY" THEN 1 ELSE 0) + VerifyAction(c.action)

VerifyMetric(m) ==
  VerifyAction(m.default) + Total([k \in DOMAIN m.cases |-> VerifyCase(m.cases[k])])

\* The type of a WHEN condition is not looked at.
VerifyRule(r) ==
  IF r.kind = "simple" THEN Resolve(r.when).errors + VerifyAction(r.then)
  ELSE Total([i \in DOMAIN r.metrics |-> VerifyMetric(r.metrics[i])])

\* A rule is valid when no error is listed.  Without memory an error is not
\* listed, or there is no list at all.
Verify ==
  /\ step = "declare"
  /\ step' = "verified"
  /\ found' = VerifyRule(rule)
  /\ \/ valid' = (found' = 0) /\ UNCHANGED faults
     \/ Fault /\ found' = 1 /\ valid' = TRUE
     \/ Fault /\ valid' = FALSE
  /\ UNCHANGED <<rule, limit, treeVars, schemaVars, warnings>>

(***************************************************************************)
(* Static analysis.  It knows conditions that are literals, and comparisons*)
(* of two INT literals.                                                    *)
(***************************************************************************)
IsInt(e) == e.kind = "literal" /\ e.value.type = "INT"

ComparesInts(e) == e.kind = "binary" /\ IsInt(e.left) /\ IsInt(e.right)

ConstTrue(e) ==
  \/ e.kind = "literal" /\ e.value.type \in {"BOOL", "INT"} /\ e.value.data # 0
  \/ /\ ComparesInts(e) /\ e.op \in Relational
     /\ Holds(e.op, e.left.value.data, e.right.value.data)

ConstFalse(e) ==
  \/ e.kind = "literal" /\ e.value.type \in {"BOOL", "INT"} /\ e.value.data = 0
  \/ /\ ComparesInts(e) /\ e.op \in Relational
     /\ ~Holds(e.op, e.left.value.data, e.right.value.data)

\* Mutant: the operators are not compared.
ShadowsAnyOperator(d, c) ==
  /\ d.kind = "binary" /\ c.kind = "binary"
  /\ d.left.kind = "id" /\ c.left = d.left
  /\ d.right.kind = "literal" /\ d.right.value.type \in {"INT", "FLOAT"}
  /\ c.right = d.right

\* The same variable is compared in the same way with the same number.
Shadows(d, c) ==
  /\ d.kind = "binary" /\ c.kind = "binary"
  /\ d.op = c.op
  /\ d.left.kind = "id" /\ c.left = d.left
  /\ d.right.kind = "literal" /\ d.right.value.type \in {"INT", "FLOAT"}
  /\ c.right = d.right

Warning(what, m, c) == [what |-> what, metric |-> m, case |-> c]

\* The cases are gone through up to the one after the first that is always true.
CaseWarnings(m) ==
  LET condition(k) == rule.metrics[m].cases[k].condition
      cases == DOMAIN rule.metrics[m].cases
      always == {k \in cases : ConstTrue(condition(k))}
      seen == IF always = {} THEN cases ELSE 1 .. Min(always)
      dead == {k \in seen : ConstFalse(condition(k))}
      shadowed == {k \in seen \ always :
                     \E d \in 1 .. k - 1 : Shadows(condition(d), condition(k))}
  IN {Warning("always true", m, k) : k \in seen \cap always}
       \cup {Warning("always false", m, k) : k \in dead}
       \cup {Warning("shadowed", m, k) : k \in shadowed}
       \cup {Warning("unreachable", m, k) : k \in {Max(seen) + 1 : x \in always} \cap cases}

\* A simple rule has one condition.
WhenWarnings ==
  (IF ConstTrue(rule.when) THEN {Warning("always true", 0, 0)} ELSE {})
    \cup (IF ConstFalse(rule.when) THEN {Warning("always false", 0, 0)} ELSE {})

Analyze ==
  /\ step = "verified"
  /\ step' = "execute"
  /\ \/ /\ warnings' = IF rule.kind = "simple" THEN WhenWarnings
                       ELSE UNION {CaseWarnings(m) : m \in DOMAIN rule.metrics}
        /\ UNCHANGED faults
     \/ Fault /\ UNCHANGED warnings
  /\ UNCHANGED <<rule, limit, treeVars, schemaVars, found, valid>>

ExecuteRule ==
  /\ step = "execute"
  /\ TreeNext
  /\ UNCHANGED <<step, schemaVars, checkVars, faults>>

Finished == at = "done" /\ UNCHANGED verifyVars

(***************************************************************************)
(* What a rule consists of.  Declarations of other names make no           *)
(* difference to it.                                                       *)
(***************************************************************************)
Within[e \in Exprs] == {e} \cup UNION {Within[d] : d \in PartsOf(e)}

ExpressionsOf(r) == ConditionsOf(r) \cup UNION {ToSet(a.args) : a \in ActionsOf(r)}

AllWithin(r) == UNION {Within[e] : e \in ExpressionsOf(r)}

NamesOf(kinds, r) == {e.name : e \in {d \in AllWithin(r) : d.kind \in kinds}}

Declare ==
  \/ \E d \in Declarations : d[1] \in NamesOf({"id"}, rule) /\ RegisterVar(d[1], d[2])
  \/ \E d \in Signatures :
       /\ d[1] \in NamesOf({"call"}, rule) \cup {a.name : a \in ActionsOf(rule)}
       /\ RegisterAction(d[1], d[2])

VerifyNext == Create \/ Declare \/ Verify \/ Analyze \/ ExecuteRule \/ Finished

VerifySpec == VerifyInit /\ [][VerifyNext]_verifyVars

(***************************************************************************)
(* Properties                                                              *)
(***************************************************************************)
\* A value that may occur where type t was resolved: one of that type, none, or any
\* number for a FLOAT, since an INT is accepted for one.
OfType(t, v) == v.type \in {"VOID", t} \/ (t = "FLOAT" /\ v.type \in Numeric)

\* The function that is called keeps to its signature: given values of the types
\* it is declared to take, it returns one of the type it is declared to return.
KeepsPromise(e) ==
  LET values == [i \in DOMAIN e.args |-> Evaluate(e.args[i], 0).value]
      takes == actions[e.name].args
  IN /\ e.name \in Functions
     /\ Len(e.args) = Len(takes) /\ \A i \in DOMAIN e.args : OfType(takes[i], values[i])
     => OfType(actions[e.name].returns, Apply(e.name, values))

\* The schema says what the context and the VM hold: variables that are set have
\* the types they are declared with, and what is called inside an expression
\* returns something and keeps to its signature.
Conforming ==
  /\ \A x \in DOMAIN variables :
       variables[x] # "VOID" /\ Lookup(x).type \in {"VOID", variables[x]}
  /\ \A e \in AllWithin(rule) :
       e.kind = "call" /\ e.name \in DOMAIN actions =>
         actions[e.name].returns # "VOID" /\ KeepsPromise(e)

\* The verification lets arrays be compared, which no execution does.
ComparesArrays(e) ==
  /\ e.kind = "binary" /\ e.op \in Relational
  /\ {Resolve(e.left).type, Resolve(e.right).type} = {"ARRAY"}

\* A rule found to be valid against a schema that conforms to the context never
\* fails with a type error, and every part of it has the type that was resolved
\* for it, or none: resolve_expr_type and cdsl_value_binop, which know nothing of
\* each other, accept the same operands (as far as no error was lost).
VerifiedRulesAreTyped ==
  /\ valid /\ found = 0 /\ at = "done" /\ Conforming
  /\ ~ \E e \in AllWithin(rule) : ComparesArrays(e)
  => /\ lastError # "TYPE_ERROR"
     /\ \A e \in AllWithin(rule) : OfType(Resolve(e).type, Evaluate(e, 0).value)

Warned(what, c) == Warning(what, metric, c) \in warnings

\* Conditions that are warned about as dead never fire, and those that are said
\* to hold always do: cdsl_analyze_rule agrees with what execute_metric_rule and
\* execute_simple_rule make of the rule.  A literal INT is left out: the analysis
\* takes it as a truth value, the execution does not.
WarningsAreTrue ==
  [][LET literal == \E e \in ConditionsOf(rule) : IsInt(e) IN
     step = "execute" =>
     /\ CaseMatches => \A w \in {"always false", "shadowed"} : ~Warned(w, case)
     /\ CaseMatches /\ ~literal => ~Warned("unreachable", case)
     /\ CaseMisses /\ ~literal => ~Warned("always true", case)
     /\ ExecuteSimple /\ verdict' = "FAILED" => ~Warned("always false", 0)
     /\ ExecuteSimple /\ verdict' = "PASSED" /\ ~literal => ~Warned("always true", 0)]_verifyVars
=============================================================================
