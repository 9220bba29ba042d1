------------------------------- MODULE Bytecode -------------------------------
(***************************************************************************)
(* The other way to execute a rule: cdsl_bytecode_compile turns it into    *)
(* instructions, and cdsl_bytecode_execute_rule runs them on a stack       *)
(* (src/src/vm/bytecode.c).  A rule is first executed by its tree, as in   *)
(* TreeWalk, then compiled and executed again on a VM of its own with the  *)
(* same context and limit, which is how tests/test_differential.c compares *)
(* the two.  A rule that does not compile has no code, and                 *)
(* cdsl_vm_execute_compiled walks its tree instead.                        *)
(*                                                                         *)
(* Jump offsets are relative to the jump, so code is put together by       *)
(* concatenation.  The constant pool is left out: an instruction holds the *)
(* name or the string itself.                                              *)
(***************************************************************************)
EXTENDS TreeWalk

CONSTANTS
  MaxStack,          \* CDSL_BYTECODE_MAX_STACK
  Converted(_),      \* the literal a value is handed on as to a callback
  NodesOf(_)         \* its nodes

ASSUME MaxStackAssumption == MaxStack \in Nat \ {0}

(***************************************************************************)
(* Instructions                                                            *)
(***************************************************************************)
Inst(op) == [op |-> op]
Push(v) == [op |-> "PUSH", value |-> v]
PushVar(x) == [op |-> "PUSH_VAR", name |-> x]
PopTop == Inst("POP")
Operate(op) == [op |-> "OPERATE", operator |-> op]
PushArray(n) == [op |-> "PUSH_ARRAY", count |-> n]
CallOp(f) == [op |-> "CALL", name |-> f]
ActionOp(a) == [op |-> "ACTION", name |-> a]
Jump(offset) == [op |-> "JMP", offset |-> offset]
JumpIf(b, offset) ==
  [op |-> IF b THEN "JMP_IF_TRUE" ELSE "JMP_IF_FALSE", offset |-> offset]
MetricStart(i) == [op |-> "METRIC_START", metric |-> i]
FailMetric(reason) == [op |-> "FAIL_METRIC", reason |-> reason]

(***************************************************************************)
(* Expressions.  An expression whose value is known when it is compiled is *)
(* folded into one instruction; one that would fail is left to fail when   *)
(* it runs.                                                                *)
(***************************************************************************)
NotConstant == Fails("NOT_CONSTANT")

Fold[e \in Exprs] ==
  CASE e.kind = "literal" -> Outcome("OK", e.value)
    [] e.kind = "unary" ->
         IF Fold[e.arg].status = "OK" THEN Unop(e.op, Fold[e.arg].value)
         ELSE NotConstant
    [] e.kind = "binary" ->
         IF e.op \notin Logical /\ Fold[e.left].status = "OK"
                                /\ Fold[e.right].status = "OK"
           THEN Binop(e.op, Fold[e.left].value, Fold[e.right].value)
           ELSE NotConstant
    [] OTHER -> NotConstant

\* Mutant: the two kinds of jump are exchanged.
ShortCircuitExchanged(op, left, right) ==
  left \o <<JumpIf(op = "AND", Len(right) + 2), PopTop>> \o right

\* AND leaves a false left operand on the stack, OR a true one.
ShortCircuit(op, left, right) ==
  left \o <<JumpIf(op = "OR", Len(right) + 2), PopTop>> \o right

Code[e \in Exprs] ==
  IF Fold[e].status = "OK" THEN <<Push(Fold[e].value)>>
  ELSE CASE e.kind = "literal" -> <<Push(e.value)>>
    [] e.kind = "id" -> <<PushVar(e.name)>>
    [] e.kind = "array" ->
         Append(FlattenSeq([i \in DOMAIN e.items |-> Code[e.items[i]]]),
                PushArray(Len(e.items)))
    [] e.kind = "unary" -> Append(Code[e.arg], Operate(e.op))
    [] e.kind = "binary" /\ e.op \in Logical ->
         ShortCircuit(e.op, Code[e.left], Code[e.right])
    [] e.kind = "binary" /\ e.op \notin Logical ->
         Code[e.left] \o Code[e.right] \o <<Operate(e.op)>>
    [] e.kind = "call" ->
         FlattenSeq([i \in DOMAIN e.args |-> Code[e.args[i]]])
           \o <<Push(Number(Len(e.args))), CallOp(e.name)>>

\* stack_used: how deep the code of an expression is taken to make the stack.
StackUsed[e \in Exprs] ==
  IF Fold[e].status = "OK" THEN 1
  ELSE CASE e.kind \in {"literal", "id"} -> 1
    [] e.kind = "array" ->
         1 + Max({StackUsed[e.items[i]] : i \in DOMAIN e.items} \cup {0})
    [] e.kind = "unary" -> StackUsed[e.arg]
    [] e.kind = "binary" ->
         Max({StackUsed[e.left], StackUsed[e.right] + 1})
    [] e.kind = "call" ->
         Max({StackUsed[e.args[i]] : i \in DOMAIN e.args} \cup {Len(e.args) + 1})

(***************************************************************************)
(* Rules                                                                   *)
(***************************************************************************)
ActionCode(a) ==
  FlattenSeq([i \in DOMAIN a.args |-> Code[a.args[i]]])
    \o <<Push(Number(Len(a.args))), ActionOp(a.name)>>

\* Mutant: the number of arguments, which is pushed after them, is not counted.
ActionStackFlat(a) ==
  Max({StackUsed[a.args[i]] + i - 1 : i \in DOMAIN a.args} \cup {Len(a.args)})

ActionStack(a) ==
  Max({StackUsed[a.args[i]] + i - 1 : i \in DOMAIN a.args} \cup {Len(a.args) + 1})

\* A reason reaches the report when it is written as a string.
ReasonCode(a) ==
  IF Len(a.args) > 1 /\ a.args[2].kind = "literal" /\ a.args[2].value.type = "STRING"
    THEN <<FailMetric(a.args[2].value.data)>> ELSE <<>>

ScoreCode(a, otherwise) ==
  IF a.name = "score" /\ a.args # <<>> THEN Append(Code[a.args[1]], Inst("SET_SCORE"))
  ELSE IF a.name = "fail_metric"
    THEN <<Push(Number(0)), Inst("SET_SCORE")>> \o ReasonCode(a)
  ELSE <<Push(Number(otherwise)), Inst("SET_SCORE")>>

\* Mutant: the jump to the end of the metric keeps its placeholder.
CaseCodeUnpatched(c, weight, rest) ==
  LET body == ActionCode(c.action) \o ScoreCode(c.action, weight) IN
  Code[c.condition]
    \o <<JumpIf(FALSE, Len(body) + 3), PopTop>> \o body
    \o <<Jump(-1), PopTop>> \o rest

\* The code of a case, before the code of the cases after it and the default.
CaseCode(c, weight, rest) ==
  LET body == ActionCode(c.action) \o ScoreCode(c.action, weight) IN
  Code[c.condition]
    \o <<JumpIf(FALSE, Len(body) + 3), PopTop>> \o body
    \o <<Jump(Len(rest) + 2), PopTop>> \o rest

MetricCode(i, m) ==
  LET from[k \in 1 .. Len(m.cases) + 1] ==
        IF k > Len(m.cases) THEN ActionCode(m.default) \o ScoreCode(m.default, 0)
        ELSE CaseCode(m.cases[k], m.weight, from[k + 1])
  IN <<MetricStart(i)>> \o from[1]

CodeOf(r) ==
  IF r.kind = "simple"
    THEN LET act == ActionCode(r.then) IN
         Code[r.when] \o <<JumpIf(FALSE, Len(act) + 2)>> \o act
           \o <<Push(Bool(TRUE)), Inst("RET")>>
    ELSE FlattenSeq([i \in DOMAIN r.metrics |-> MetricCode(i, r.metrics[i])])
           \o <<Inst("RULE_END")>>

ScoresOf(r) ==
  {a.args[1] : a \in {b \in ActionsOf(r) : b.name = "score" /\ b.args # <<>>}}

\* bc->max_stack
StackOf(r) ==
  Max({StackUsed[e] : e \in ConditionsOf(r) \cup ScoresOf(r)}
        \cup {ActionStack(a) : a \in ActionsOf(r)})

Compiles(r) == StackOf(r) <= MaxStack

(***************************************************************************)
(* The stack machine                                                       *)
(***************************************************************************)
VARIABLES
  mode,       \* "idle", "run", "stopped" or "reported"
  code,       \* bc->code
  ip,         \* the instruction to execute
  stack,
  executed,   \* vm->instruction_count of the VM that runs the code
  error,      \* its error_state
  result,     \* *out_result
  results,    \* report->metrics
  triggered,  \* the actions whose callbacks were called, in order
  report      \* the status and the totals that are handed back

machine == <<mode, code, ip, stack, executed, error, result, results, triggered,
             report>>
vars == <<rule, limit, treeVars, machine>>

Summary(status, t, m) == [status |-> status, total |-> t, max |-> m]

Init ==
  /\ TreeInit
  /\ mode = "idle"
  /\ code = <<>>
  /\ ip = 1
  /\ stack = <<>>
  /\ executed = 0
  /\ error = FALSE
  /\ result = Void
  /\ results = <<>>
  /\ triggered = <<>>
  /\ report = Summary("NONE", 0, 0)

Compile ==
  /\ at = "done" /\ mode = "idle"
  /\ Compiles(rule)
  /\ mode' = "run"
  /\ code' = CodeOf(rule)
  /\ UNCHANGED <<ip, stack, executed, error, result, results, triggered, report>>

\* There is no code: cdsl_vm_execute_compiled walks the tree.
FallBack ==
  /\ at = "done" /\ mode = "idle"
  /\ ~Compiles(rule)
  /\ mode' = "reported"
  /\ results' = scores
  /\ triggered' = fired
  /\ report' = Summary(verdict, total, max)
  /\ error' = (lastError # "NONE")
  /\ UNCHANGED <<code, ip, stack, executed, result>>

\* POP and PEEK of an empty stack set error_state and give VOID.
Top(s) == IF s = <<>> THEN Void ELSE Last(s)
Below(s, n) == SubSeq(s, 1, Len(s) - n)

Executing(ops) ==
  /\ mode = "run" /\ ip <= Len(code) /\ code[ip].op \in ops
  /\ limit = 0 \/ executed < limit

Counted(n) == executed' = executed + n

\* goto done after an error: the stack is emptied and the result is VOID.
Abort ==
  /\ error' = TRUE
  /\ result' = Void
  /\ stack' = <<>>
  /\ mode' = "stopped"
  /\ UNCHANGED ip

\* PUSH(v) on what is left of the stack, and on to the next instruction.
PushOn(s, v, failing) ==
  IF Len(s) >= MaxStack THEN Abort
  ELSE /\ stack' = Append(s, v)
       /\ ip' = ip + 1
       /\ error' = failing
       /\ UNCHANGED <<mode, result>>

OverQuota ==
  /\ mode = "run" /\ ip <= Len(code)
  /\ limit > 0 /\ executed >= limit
  /\ Counted(1)
  /\ Abort
  /\ UNCHANGED <<code, results, triggered, report>>

ExecPush ==
  /\ Executing({"PUSH", "PUSH_VAR"})
  /\ Counted(1)
  /\ PushOn(stack, IF code[ip].op = "PUSH" THEN code[ip].value ELSE Lookup(code[ip].name),
            error)
  /\ UNCHANGED <<code, results, triggered, report>>

\* The items are taken from the stack, the last one first.
ExecArray ==
  /\ Executing({"PUSH_ARRAY"})
  /\ Counted(1)
  /\ LET n == code[ip].count
         items == [i \in 1 .. n |-> Top(Below(stack, n - i))]
     IN PushOn(Below(stack, n), ArrayOf(items), error \/ Len(stack) < n)
  /\ UNCHANGED <<code, results, triggered, report>>

ExecPop ==
  /\ Executing({"POP"})
  /\ Counted(1)
  /\ stack' = Below(stack, 1)
  /\ ip' = ip + 1
  /\ UNCHANGED <<mode, code, error, result, results, triggered, report>>

Operands(op) == IF op \in {"NOT", "NEG"} THEN 1 ELSE 2

Operated(op) ==
  IF Operands(op) = 1 THEN Unop(op, Top(stack))
  ELSE Binop(op, Top(Below(stack, 1)), Top(stack))

ExecOperate ==
  /\ Executing({"OPERATE"})
  /\ Counted(1)
  /\ LET op == code[ip].operator
         enough == Len(stack) >= Operands(op)
     IN IF ~error /\ enough /\ Usable(Operated(op))
          THEN PushOn(Below(stack, Operands(op)), Operated(op).value, FALSE)
          ELSE Abort
  /\ UNCHANGED <<code, results, triggered, report>>

\* The number of arguments is on top.
Arguments == Top(stack).data
Enough == Len(stack) > Arguments
Argument(i) == Converted(Top(Below(stack, 1 + Arguments - i)))

\* A callback evaluates each argument, whose nodes count as instructions.  Without a
\* callback the type is VOID and the data are those of the last instruction, which
\* pushed the number of arguments.
ExecCall ==
  /\ Executing({"CALL"})
  /\ LET f == code[ip].name
         nodes == MapThenSumSet(LAMBDA i : NodesOf(Argument(i)), 1 .. Arguments)
         n == IF f \in Functions THEN 1 + nodes ELSE 1
         v == IF f \in Functions
                THEN Apply(f, [i \in 1 .. Arguments |-> Argument(i)])
                ELSE Value("VOID", Arguments)
     IN /\ Counted(n)
        /\ PushOn(Below(stack, 1 + Arguments), v,
                  error \/ ~Enough \/ (limit > 0 /\ executed + n > limit))
  /\ UNCHANGED <<code, results, triggered, report>>

ExecAction ==
  /\ Executing({"ACTION"})
  /\ Counted(1)
  /\ stack' = Below(stack, 1 + Arguments)
  /\ error' = (error \/ ~Enough)
  /\ triggered' = IF code[ip].name \in Registered
                    THEN Append(triggered, code[ip].name) ELSE triggered
  /\ ip' = ip + 1
  /\ UNCHANGED <<mode, code, result, results, report>>

\* A conditional jump that is taken leaves the value, one that is not pops it.
ExecJump ==
  /\ Executing({"JMP", "JMP_IF_TRUE", "JMP_IF_FALSE"})
  /\ Counted(1)
  /\ LET op == code[ip].op
         taken == op = "JMP" \/ (IsTrue(Top(stack)) <=> op = "JMP_IF_TRUE")
     IN /\ error' = (error \/ (op # "JMP" /\ stack = <<>>))
        /\ IF taken THEN ip' = ip + code[ip].offset /\ stack' = stack
                    ELSE ip' = ip + 1 /\ stack' = Below(stack, 1)
  /\ UNCHANGED <<mode, code, result, results, triggered, report>>

ExecMetricStart ==
  /\ Executing({"METRIC_START"})
  /\ Counted(1)
  /\ results' = Append(results, Scored(0, NoReason))
  /\ ip' = ip + 1
  /\ UNCHANGED <<mode, code, stack, error, result, triggered, report>>

ExecSetScore ==
  /\ Executing({"SET_SCORE"})
  /\ Counted(1)
  /\ LET v == Top(stack)
         n == IF v.type = "INT" THEN v.data ELSE 0
     IN results' = [results EXCEPT ![Len(results)] = Scored(n, @.reason)]
  /\ stack' = Below(stack, 1)
  /\ error' = (error \/ stack = <<>>)
  /\ ip' = ip + 1
  /\ UNCHANGED <<mode, code, result, triggered, report>>

ExecFailMetric ==
  /\ Executing({"FAIL_METRIC"})
  /\ Counted(1)
  /\ results' = [results EXCEPT ![Len(results)] = Scored(0, code[ip].reason)]
  /\ ip' = ip + 1
  /\ UNCHANGED <<mode, code, stack, error, result, triggered, report>>

ExecRuleEnd ==
  /\ Executing({"RULE_END"})
  /\ Counted(1)
  /\ stack' = <<>>
  /\ mode' = "stopped"
  /\ UNCHANGED <<code, ip, error, result, results, triggered, report>>

ExecRet ==
  /\ Executing({"RET"})
  /\ Counted(1)
  /\ result' = Top(stack)
  /\ error' = (error \/ stack = <<>>)
  /\ stack' = <<>>
  /\ mode' = "stopped"
  /\ UNCHANGED <<code, ip, results, triggered, report>>

(***************************************************************************)
(* The report                                                              *)
(***************************************************************************)
\* Thresholds that are not positive are replaced.
Threshold(n, default) == IF n > 0 THEN n ELSE default

Explained(r) ==
  IF ~r.passed /\ r.reason = NoReason THEN [r EXCEPT !.reason = DefaultReason] ELSE r

ReportFailure ==
  /\ mode = "stopped"
  /\ error \/ (results = <<>> /\ result.type # "BOOL")
  /\ report' = Summary("ERROR", 0, 0)
  /\ results' = IF error /\ rule.kind = "simple" THEN <<Scored(0, NoReason)>> ELSE results
  /\ mode' = "reported"
  /\ UNCHANGED <<code, ip, stack, executed, error, result, triggered>>

ReportSimple ==
  /\ mode = "stopped" /\ ~error
  /\ results = <<>> /\ result.type = "BOOL"
  /\ LET n == IF IsTrue(result) THEN 0 ELSE 100 IN
     /\ results' = <<Scored(n, NoReason)>>
     /\ report' = Summary(IF IsTrue(result) THEN "FAILED" ELSE "PASSED", n, 100)
  /\ mode' = "reported"
  /\ UNCHANGED <<code, ip, stack, executed, error, result, triggered>>

ReportMetrics ==
  /\ mode = "stopped" /\ ~error
  /\ results # <<>>
  /\ results' = [i \in DOMAIN results |-> Explained(results[i])]
  /\ LET t == Total([i \in DOMAIN results |-> results[i].score])
         m == Total([i \in DOMAIN results |-> rule.metrics[i].weight])
         veto == \E i \in DOMAIN results :
                   rule.metrics[i].critical /\ ~results[i].passed
     IN report' = Summary(Status(t, veto, Threshold(rule.pass, 80),
                                 Threshold(rule.partial, 60)), t, m)
  /\ mode' = "reported"
  /\ UNCHANGED <<code, ip, stack, executed, error, result, triggered>>

Walk == TreeNext /\ UNCHANGED machine

Execute ==
  \/ Compile \/ FallBack \/ OverQuota
  \/ ExecPush \/ ExecArray \/ ExecPop \/ ExecOperate \/ ExecCall \/ ExecAction \/ ExecJump
  \/ ExecMetricStart \/ ExecSetScore \/ ExecFailMetric \/ ExecRuleEnd \/ ExecRet
  \/ ReportFailure \/ ReportSimple \/ ReportMetrics

Ended == mode = "reported" /\ UNCHANGED vars

Next == Walk \/ (Execute /\ UNCHANGED <<rule, limit, treeVars>>) \/ Ended

Spec == Init /\ [][Next]_vars

(***************************************************************************)
(* Rules both executions understand the same way                           *)
(***************************************************************************)
\* A logical operator in the second operand or argument would pop the first.
Clean[e \in Exprs] ==
  [bare \in BOOLEAN |->
     CASE e.kind = "unary" -> Clean[e.arg][bare]
       [] e.kind = "binary" /\ e.op \in Logical ->
            bare /\ Clean[e.left][TRUE] /\ Clean[e.right][TRUE]
       [] e.kind = "binary" /\ e.op \notin Logical ->
            Clean[e.left][bare] /\ Clean[e.right][FALSE]
       [] e.kind = "call" ->
            \A i \in DOMAIN e.args : Clean[e.args[i]][bare /\ i = 1]
       [] e.kind = "array" ->
            \A i \in DOMAIN e.items : Clean[e.items[i]][bare /\ i = 1]
       [] OTHER -> TRUE]

Truths == {Bool(TRUE), Bool(FALSE)}

\* Whatever an expression gives without an error, it is a BOOL, and 0 or 1 at that.
GivesBool[e \in Exprs] ==
  CASE e.kind = "literal" -> e.value \in Truths
    [] e.kind = "id" -> Lookup(e.name) \in Truths
    [] e.kind = "unary" -> e.op = "NOT"
    [] e.kind = "binary" ->
         e.op \in Relational
           \/ (e.op \in Logical /\ GivesBool[e.left] /\ GivesBool[e.right])
    [] OTHER -> FALSE

\* An argument reaches the callback with the value it has: it is not VOID or NULL,
\* nor an array with such items.
Survives(e) ==
  LET w == Evaluate(e, 0) IN ~Failed(w) => Converted(w.value) = w.value

\* Operands of AND and OR are BOOL, and what is called is a registered function that
\* gets its arguments as they are.
Typed[e \in Exprs] ==
  CASE e.kind = "unary" -> Typed[e.arg]
    [] e.kind = "binary" ->
         /\ Typed[e.left] /\ Typed[e.right]
         /\ e.op \in Logical => GivesBool[e.left] /\ GivesBool[e.right]
    [] e.kind = "call" ->
         /\ e.name \in Functions
         /\ \A i \in DOMAIN e.args : Typed[e.args[i]] /\ Survives(e.args[i])
    [] e.kind = "array" -> \A i \in DOMAIN e.items : Typed[e.items[i]]
    [] OTHER -> TRUE

\* No part of it lies deeper than the tree walk goes.
Shallow[e \in Exprs] ==
  [depth \in 0 .. MaxExprDepth |->
     /\ depth < MaxExprDepth
     /\ CASE e.kind = "unary" -> Shallow[e.arg][depth + 1]
          [] e.kind = "binary" ->
               Shallow[e.left][depth + 1] /\ Shallow[e.right][depth + 1]
          [] e.kind = "call" -> \A i \in DOMAIN e.args : Shallow[e.args[i]][0]
          [] e.kind = "array" ->
               \A i \in DOMAIN e.items : Shallow[e.items[i]][depth + 1]
          [] OTHER -> TRUE]

\* The arguments of a call and the items of an array, but for the first, take one
\* place on the stack, and an array has no third item: the compiler does not count
\* what is already there.
Plain[e \in Exprs] ==
  CASE e.kind = "unary" -> Plain[e.arg]
    [] e.kind = "binary" -> Plain[e.left] /\ Plain[e.right]
    [] e.kind = "call" ->
         \A i \in DOMAIN e.args : Plain[e.args[i]] /\ (i = 1 \/ StackUsed[e.args[i]] = 1)
    [] e.kind = "array" ->
         /\ Len(e.items) <= 2
         /\ \A i \in DOMAIN e.items :
              Plain[e.items[i]] /\ (i = 1 \/ StackUsed[e.items[i]] = 1)
    [] OTHER -> TRUE

PortableExpr(e) == Clean[e][TRUE] /\ Typed[e] /\ Shallow[e][0] /\ Plain[e]

\* Arguments the bytecode evaluates and the tree walk does not cannot fail: the tree
\* walk evaluates none but the score an action of a metric gives.
PortableArgument(r, a, i) ==
  \/ a.args[i].kind \in {"literal", "id"}
  \/ r.kind = "metric" /\ a.name = "score" /\ i = 1 /\ PortableExpr(a.args[i])

Portable(r) ==
  /\ \A e \in ConditionsOf(r) : PortableExpr(e) /\ GivesBool[e]
  /\ \A a \in ActionsOf(r) : \A i \in DOMAIN a.args : PortableArgument(r, a, i)
  /\ r.kind = "metric" => r.pass > 0 /\ r.partial > 0

(***************************************************************************)
(* Properties                                                              *)
(***************************************************************************)
\* The machine stays in its code, its stack holds values, and its report has
\* a status.
TypeOK ==
  /\ mode \in {"idle", "run", "stopped", "reported"}
  /\ mode = "run" => ip \in DOMAIN code
  /\ Len(stack) <= MaxStack
  /\ \A i \in DOMAIN stack :
        stack[i].type \in Types
  /\ executed \in Nat
  /\ error \in BOOLEAN
  /\ \A i \in DOMAIN results : results[i].passed = (results[i].score > 0)
  /\ report.status \in {"NONE", "PASSED", "PARTIALLY_PASSED", "FAILED", "ERROR"}

SameScores ==
  /\ Len(results) = Len(scores)
  /\ \A i \in DOMAIN scores : /\ results[i].score = scores[i].score
                               /\ results[i].passed = scores[i].passed

Agreement ==
  /\ report.status = verdict
  /\ verdict # "ERROR" => /\ report.total = total /\ report.max = max
                          /\ SameScores
                          /\ triggered = fired

\* A rule of the kind both executions understand, executed without a limit,
\* gets the same status, scores and callbacks from the tree walk and from the
\* bytecode: folding, short circuits, jumps between cases and the two ways to
\* add up scores make no difference (compile_expr, bc_run_instructions,
\* execute_metric_rule).
PortableRulesAgree ==
  mode = "reported" /\ limit = 0 /\ Portable(rule) => Agreement

\* src/docs/modules.md promises it of every rule.
AllRulesAgree ==
  mode = "reported" /\ limit = 0 => Agreement

ArgumentsOf(r) == UNION {ToSet(a.args) : a \in ActionsOf(r)}

\* The stack stays within what the compiler took the code to need, which is
\* what it compares with the size of the stack before it accepts a rule
\* (cdsl_bytecode_compile): accepted code never overflows.
CodeKeepsToItsStack ==
  mode = "run" /\ (\A e \in ConditionsOf(rule) \cup ArgumentsOf(rule) : Plain[e])
    => Len(stack) <= StackOf(rule)

\* An instruction is executed at most once: all jumps of the compiled code lead
\* forward, so that an execution ends also without a limit.
CodeRunsForward == [][mode = "run" /\ mode' = "run" => ip' > ip]_vars
=============================================================================
