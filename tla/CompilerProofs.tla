--------------------------- MODULE CompilerProofs ----------------------------
(***************************************************************************)
(* The compiler is correct: on every rule that both executions understand, *)
(* with any values, variables, actions and weights, the stack machine      *)
(* reports what the tree walk decides (PortableRulesAgree).                *)
(*                                                                         *)
(* The machine is described as a function of its configuration, which runs *)
(* on through code that sits at some place of a program (Sits, Goes), so   *)
(* that a piece of code is understood once, wherever it is used.  By       *)
(* induction on the height of an expression, its code leaves the value the *)
(* tree walk gives it, or aborts where the tree walk fails (ExpressionsRun)*)
(* and from that follow actions, scores, cases (CaseRuns) and simple rules *)
(* (SimpleRuns).                                                           *)
(*                                                                         *)
(* A rule of metrics is walked case by case.  The tree walk's counters are *)
(* sums over the metrics it has come to (Booked), and the code of the case *)
(* it has come to is where the machine, started at the beginning, arrives  *)
(* with the same results and calls (Alongside).  At its end both have the  *)
(* same answer (Answered), which the machine's own steps, made one at a    *)
(* time and by the fall-back, then lead to (Answering).                    *)
(***************************************************************************)
EXTENDS ExpressionProofs

(***************************************************************************)
(* What the machine makes of code, without a limit: a function of its      *)
(* configuration, which the steps of the execution are steps of.           *)
(***************************************************************************)
Config(i, s, m, e, v, rs, ts) ==
  [ip |-> i, stack |-> s, mode |-> m, error |-> e, result |-> v, results |-> rs,
   triggered |-> ts]

Here == Config(ip, stack, mode, error, result, results, triggered)

\* On with another stack, or with a value on it if there is room.
Onto(c, s, failing) ==
  Config(c.ip + 1, s, c.mode, failing, c.result, c.results, c.triggered)

Aborting(c) == Config(c.ip, <<>>, "stopped", TRUE, Void, c.results, c.triggered)

Putting(c, s, v, failing) ==
  IF Len(s) >= MaxStack THEN Aborting(c) ELSE Onto(c, Append(s, v), failing)

Operation(op, s) ==
  IF Operands(op) = 1 THEN Unop(op, Top(s)) ELSE Binop(op, Top(Below(s, 1)), Top(s))

Operating(op, c) ==
  IF ~c.error /\ Len(c.stack) >= Operands(op) /\ Usable(Operation(op, c.stack))
    THEN Putting(c, Below(c.stack, Operands(op)), Operation(op, c.stack).value, FALSE)
    ELSE Aborting(c)

Collecting(n, c) ==
  Putting(c, Below(c.stack, n), ArrayOf([i \in 1 .. n |-> Top(Below(c.stack, n - i))]),
          c.error \/ Len(c.stack) < n)

ArgumentOf(s, n, i) == Converted(Top(Below(s, 1 + n - i)))

Calling(f, n, c) ==
  Putting(c, Below(c.stack, 1 + n),
          IF f \in Functions THEN Apply(f, [i \in 1 .. n |-> ArgumentOf(c.stack, n, i)])
          ELSE Value("VOID", n),
          c.error \/ ~(Len(c.stack) > n))

Acting(a, n, c) ==
  Config(c.ip + 1, Below(c.stack, 1 + n), c.mode, c.error \/ ~(Len(c.stack) > n), c.result,
         c.results, IF a \in Registered THEN Append(c.triggered, a) ELSE c.triggered)

Leaping(x, c) ==
  LET taken == x.op = "JMP" \/ (IsTrue(Top(c.stack)) <=> x.op = "JMP_IF_TRUE") IN
  Config(IF taken THEN c.ip + x.offset ELSE c.ip + 1,
         IF taken THEN c.stack ELSE Below(c.stack, 1),
         c.mode, c.error \/ (x.op # "JMP" /\ c.stack = <<>>), c.result, c.results, c.triggered)

\* On with other results.
Noting(c, s, failing, rs) ==
  Config(c.ip + 1, s, c.mode, failing, c.result, rs, c.triggered)

ScoreOn(s) == IF Top(s).type = "INT" THEN Top(s).data ELSE 0

Settling(c) ==
  Noting(c, Below(c.stack, 1), c.error \/ c.stack = <<>>,
         [c.results EXCEPT ![Len(c.results)] = Scored(ScoreOn(c.stack), @.reason)])

After(x, c) ==
  CASE x.op = "PUSH" -> Putting(c, c.stack, x.value, c.error)
    [] x.op = "PUSH_VAR" -> Putting(c, c.stack, Lookup(x.name), c.error)
    [] x.op = "PUSH_ARRAY" -> Collecting(x.count, c)
    [] x.op = "POP" -> Onto(c, Below(c.stack, 1), c.error)
    [] x.op = "OPERATE" -> Operating(x.operator, c)
    [] x.op = "CALL" -> Calling(x.name, Top(c.stack).data, c)
    [] x.op = "ACTION" -> Acting(x.name, Top(c.stack).data, c)
    [] x.op \in JumpOps -> Leaping(x, c)
    [] x.op = "METRIC_START" ->
         Noting(c, c.stack, c.error, Append(c.results, Scored(0, NoReason)))
    [] x.op = "SET_SCORE" -> Settling(c)
    [] x.op = "FAIL_METRIC" ->
         Noting(c, c.stack, c.error,
                [c.results EXCEPT ![Len(c.results)] = Scored(0, x.reason)])
    [] x.op = "RULE_END" ->
         Config(c.ip, <<>>, "stopped", c.error, c.result, c.results, c.triggered)
    [] x.op = "RET" ->
         Config(c.ip, <<>>, "stopped", c.error \/ c.stack = <<>>, Top(c.stack), c.results,
                c.triggered)
    [] OTHER -> c

Stepped(z, c) == IF c.mode = "run" /\ c.ip <= Len(z) THEN After(z[c.ip], c) ELSE c

\* The machine that executes z gets from configuration x to configuration y.
Goes(z, x, y) == \A S : x \in S /\ (\A c \in S : Stepped(z, c) \in S) => y \in S

\* The fields of a configuration.
LEMMA Fields ==
  ASSUME NEW i, NEW s, NEW m, NEW e, NEW v, NEW rs, NEW ts, NEW c, c = Config(i, s, m, e, v, rs, ts)
  PROVE  /\ c.ip = i /\ c.stack = s /\ c.mode = m /\ c.error = e /\ c.result = v
         /\ c.results = rs /\ c.triggered = ts
  BY DEF Config

\* What the instructions with a case of their own are called.
LEMMA Executions ==
  ASSUME limit = 0, mode = "run", Execute, error \in BOOLEAN
  PROVE  Here' = Stepped(code, Here) /\ code' = code
<1> DEFINE x == code[ip]
<1>1. /\ Here.ip = ip /\ Here.stack = stack /\ Here.mode = mode /\ Here.error = error
      /\ Here.result = result /\ Here.results = results /\ Here.triggered = triggered
  BY Fields DEF Here
<1>2. Here' = Config(ip', stack', mode', error', result', results', triggered')
  BY DEF Here
<1>3. ASSUME NEW ops, Executing(ops)
      PROVE  x.op \in ops /\ Stepped(code, Here) = After(x, Here)
  BY <1>1, <1>3 DEF Executing, Stepped
<1>4. ASSUME NEW s, NEW v, NEW failing, PushOn(s, v, failing), UNCHANGED <<results, triggered>>
      PROVE  Here' = Putting(Here, s, v, failing)
  <2>1. CASE Len(s) >= MaxStack
    <3>1. Here' = Config(ip, <<>>, "stopped", TRUE, Void, results, triggered)
      BY <1>2, <1>4, <2>1 DEF PushOn, Abort
    <3> QED
      BY <1>1, <2>1, <3>1 DEF Putting, Aborting
  <2>2. CASE ~(Len(s) >= MaxStack)
    <3>1. Here' = Config(ip + 1, Append(s, v), mode, failing, result, results, triggered)
      BY <1>2, <1>4, <2>2 DEF PushOn
    <3> QED
      BY <1>1, <2>2, <3>1 DEF Putting, Onto
  <2> QED
    BY <2>1, <2>2
<1>5. CASE ExecPush
  <2>1. CASE x.op = "PUSH"
    <3>1. PushOn(stack, x.value, error) /\ UNCHANGED <<code, results, triggered>>
      BY <1>5, <2>1 DEF ExecPush
    <3>2. After(x, Here) = Putting(Here, stack, x.value, error)
      BY <1>1, <2>1 DEF After, JumpOps
    <3> QED
      BY <1>3, <1>4, <1>5, <3>1, <3>2 DEF ExecPush
  <2>2. CASE x.op = "PUSH_VAR"
    <3>1. PushOn(stack, Lookup(x.name), error) /\ UNCHANGED <<code, results, triggered>>
      BY <1>5, <2>2 DEF ExecPush
    <3>2. After(x, Here) = Putting(Here, stack, Lookup(x.name), error)
      BY <1>1, <2>2 DEF After, JumpOps
    <3> QED
      BY <1>3, <1>4, <1>5, <3>1, <3>2 DEF ExecPush
  <2> QED
    BY <1>3, <1>5, <2>1, <2>2 DEF ExecPush
<1>6. CASE ExecArray
  <2>1. x.op = "PUSH_ARRAY" /\ Stepped(code, Here) = After(x, Here)
    BY <1>3, <1>6 DEF ExecArray
  <2>2. /\ PushOn(Below(stack, x.count),
                  ArrayOf([i \in 1 .. x.count |-> Top(Below(stack, x.count - i))]),
                  error \/ Len(stack) < x.count)
        /\ UNCHANGED <<code, results, triggered>>
    BY <1>6 DEF ExecArray
  <2>3. After(x, Here) = Collecting(x.count, Here)
    BY <2>1 DEF After, JumpOps
  <2>4. Here' = Collecting(x.count, Here)
    BY <1>1, <1>4, <2>2 DEF Collecting
  <2> QED
    BY <2>1, <2>2, <2>3, <2>4
<1>7. CASE ExecOperate
  <2> DEFINE op == x.operator
             enough == Len(stack) >= Operands(op)
  <2>1. x.op = "OPERATE" /\ Stepped(code, Here) = After(x, Here)
    BY <1>3, <1>7 DEF ExecOperate
  <2>2. After(x, Here) = Operating(op, Here)
    BY <2>1 DEF After, JumpOps
  <2>3. Operated(op) = Operation(op, stack)
    BY DEF Operated, Operation
  <2>4. CASE ~error /\ enough /\ Usable(Operated(op))
    <3>1. /\ PushOn(Below(stack, Operands(op)), Operated(op).value, FALSE)
          /\ UNCHANGED <<code, results, triggered>>
      BY <1>7, <2>4 DEF ExecOperate
    <3>2. Here' = Putting(Here, Below(stack, Operands(op)), Operated(op).value, FALSE)
      BY <1>4, <3>1
    <3>3. Operating(op, Here) = Putting(Here, Below(stack, Operands(op)), Operated(op).value, FALSE)
      BY <1>1, <2>3, <2>4 DEF Operating
    <3> QED
      BY <2>1, <2>2, <3>1, <3>2, <3>3
  <2>5. CASE ~(~error /\ enough /\ Usable(Operated(op)))
    <3>1. Abort /\ UNCHANGED <<code, results, triggered>>
      BY <1>7, <2>5 DEF ExecOperate
    <3>2. Here' = Aborting(Here)
      BY <1>1, <1>2, <3>1 DEF Abort, Aborting
    <3>3. Operating(op, Here) = Aborting(Here)
      BY <1>1, <2>3, <2>5 DEF Operating
    <3> QED
      BY <2>1, <2>2, <3>1, <3>2, <3>3
  <2> QED
    BY <2>4, <2>5
<1>8. CASE ExecCall
  <2> DEFINE n == Arguments
             f == x.name
             v == IF f \in Functions THEN Apply(f, [i \in 1 .. n |-> ArgumentOf(stack, n, i)])
                  ELSE Value("VOID", n)
  <2>1. x.op = "CALL" /\ Stepped(code, Here) = After(x, Here)
    BY <1>3, <1>8 DEF ExecCall
  <2>2. After(x, Here) = Calling(f, n, Here)
    BY <1>1, <2>1 DEF After, Arguments, JumpOps
  <2>3. [i \in 1 .. n |-> ArgumentOf(stack, n, i)] = [i \in 1 .. n |-> Argument(i)]
    BY DEF ArgumentOf, Argument
  <2>4. PushOn(Below(stack, 1 + n), v, error \/ ~Enough) /\ UNCHANGED <<code, results, triggered>>
    <3> DEFINE nodes == IF f \in Functions
                          THEN 1 + MapThenSumSet(LAMBDA i : NodesOf(Argument(i)), 1 .. Arguments)
                          ELSE 1
               failing == error \/ ~Enough \/ (limit > 0 /\ executed + nodes > limit)
               w == IF f \in Functions THEN Apply(f, [i \in 1 .. n |-> Argument(i)])
                    ELSE Value("VOID", n)
    <3>1. w = v
      BY <2>3
    <3>2. failing = (error \/ ~Enough)
      OBVIOUS
    <3>3. PushOn(Below(stack, 1 + n), w, failing) /\ UNCHANGED <<code, results, triggered>>
      BY <1>8, Zenon DEF ExecCall
    <3> HIDE DEF failing, v, w, n
    <3> QED
      BY <3>1, <3>2, <3>3
  <2>5. Here' = Putting(Here, Below(stack, 1 + n), v, error \/ ~Enough)
    BY <1>4, <2>4
  <2>6. Calling(f, n, Here) = Putting(Here, Below(stack, 1 + n), v, error \/ ~Enough)
    BY <1>1 DEF Calling, Enough
  <2> QED
    BY <2>1, <2>2, <2>4, <2>5, <2>6
<1>9. CASE ExecAction
  <2>1. x.op = "ACTION" /\ Stepped(code, Here) = After(x, Here)
    BY <1>3, <1>9 DEF ExecAction
  <2>2. After(x, Here) = Acting(x.name, Arguments, Here)
    BY <1>1, <2>1 DEF After, Arguments, JumpOps
  <2>3. Here' = Config(ip + 1, Below(stack, 1 + Arguments), mode, error \/ ~Enough, result, results,
                       IF x.name \in Registered THEN Append(triggered, x.name) ELSE triggered)
        /\ code' = code
    BY <1>2, <1>9 DEF ExecAction
  <2> QED
    BY <1>1, <2>1, <2>2, <2>3 DEF Acting, Enough
<1>10. CASE ExecJump
  <2> DEFINE taken == x.op = "JMP" \/ (IsTrue(Top(stack)) <=> x.op = "JMP_IF_TRUE")
  <2>1. x.op \in JumpOps /\ Stepped(code, Here) = After(x, Here)
    BY <1>3, <1>10 DEF ExecJump, JumpOps
  <2>2. After(x, Here) = Leaping(x, Here)
    BY <2>1 DEF After, JumpOps
  <2>3. /\ error' = (error \/ (x.op # "JMP" /\ stack = <<>>))
        /\ ip' = IF taken THEN ip + x.offset ELSE ip + 1
        /\ stack' = IF taken THEN stack ELSE Below(stack, 1)
        /\ UNCHANGED <<mode, code, result, results, triggered>>
    BY <1>10 DEF ExecJump
  <2>4. Here' = Config(IF taken THEN ip + x.offset ELSE ip + 1,
                       IF taken THEN stack ELSE Below(stack, 1),
                       mode, error \/ (x.op # "JMP" /\ stack = <<>>), result, results, triggered)
    BY <1>2, <2>3
  <2> QED
    BY <1>1, <2>1, <2>2, <2>3, <2>4 DEF Leaping
<1>11. CASE ExecPop
  <2>1. x.op = "POP" /\ Stepped(code, Here) = After(x, Here)
    BY <1>3, <1>11 DEF ExecPop
  <2>2. After(x, Here) = Onto(Here, Below(stack, 1), error)
    BY <1>1, <2>1 DEF After, JumpOps
  <2>3. Here' = Config(ip + 1, Below(stack, 1), mode, error, result, results, triggered) /\ code' = code
    BY <1>2, <1>11 DEF ExecPop
  <2> QED
    BY <1>1, <2>1, <2>2, <2>3 DEF Onto
<1>12. CASE ExecMetricStart
  <2>1. x.op = "METRIC_START" /\ Stepped(code, Here) = After(x, Here)
    BY <1>3, <1>12 DEF ExecMetricStart
  <2>2. After(x, Here) = Noting(Here, stack, error, Append(results, Scored(0, NoReason)))
    BY <1>1, <2>1 DEF After, JumpOps
  <2>3. Here' = Config(ip + 1, stack, mode, error, result, Append(results, Scored(0, NoReason)), triggered)
        /\ code' = code
    BY <1>2, <1>12 DEF ExecMetricStart
  <2> QED
    BY <1>1, <2>1, <2>2, <2>3 DEF Noting
<1>13. CASE ExecSetScore
  <2>1. x.op = "SET_SCORE" /\ Stepped(code, Here) = After(x, Here)
    BY <1>3, <1>13 DEF ExecSetScore
  <2>2. After(x, Here) = Settling(Here)
    BY <2>1 DEF After, JumpOps
  <2>3. results' = [results EXCEPT ![Len(results)] = Scored(ScoreOn(stack), @.reason)]
    BY <1>13 DEF ExecSetScore, ScoreOn
  <2>4. Here' = Config(ip + 1, Below(stack, 1), mode, error \/ stack = <<>>, result,
                       [results EXCEPT ![Len(results)] = Scored(ScoreOn(stack), @.reason)], triggered)
        /\ code' = code
    BY <1>2, <1>13, <2>3 DEF ExecSetScore
  <2> QED
    BY <1>1, <2>1, <2>2, <2>4 DEF Settling, Noting
<1>14. CASE ExecFailMetric
  <2>1. x.op = "FAIL_METRIC" /\ Stepped(code, Here) = After(x, Here)
    BY <1>3, <1>14 DEF ExecFailMetric
  <2>2. After(x, Here) = Noting(Here, stack, error, [results EXCEPT ![Len(results)] = Scored(0, x.reason)])
    BY <1>1, <2>1 DEF After, JumpOps
  <2>3. Here' = Config(ip + 1, stack, mode, error, result,
                       [results EXCEPT ![Len(results)] = Scored(0, x.reason)], triggered)
        /\ code' = code
    BY <1>2, <1>14 DEF ExecFailMetric
  <2> QED
    BY <1>1, <2>1, <2>2, <2>3 DEF Noting
<1>15. CASE ExecRuleEnd
  <2>1. x.op = "RULE_END" /\ Stepped(code, Here) = After(x, Here)
    BY <1>3, <1>15 DEF ExecRuleEnd
  <2>2. After(x, Here) = Config(ip, <<>>, "stopped", error, result, results, triggered)
    BY <1>1, <2>1 DEF After, JumpOps
  <2> QED
    BY <1>2, <1>15, <2>1, <2>2 DEF ExecRuleEnd
<1>16. CASE ExecRet
  <2>1. x.op = "RET" /\ Stepped(code, Here) = After(x, Here)
    BY <1>3, <1>16 DEF ExecRet
  <2>2. After(x, Here) = Config(ip, <<>>, "stopped", error \/ stack = <<>>, Top(stack), results, triggered)
    BY <1>1, <2>1 DEF After, JumpOps
  <2> QED
    BY <1>2, <1>16, <2>1, <2>2 DEF ExecRet
<1>17. CASE Compile \/ FallBack \/ OverQuota \/ ReportFailure \/ ReportSimple \/ ReportMetrics
  BY <1>17 DEF Compile, FallBack, OverQuota, ReportFailure, ReportSimple, ReportMetrics
<1> QED
  BY <1>5, <1>6, <1>7, <1>8, <1>9, <1>10, <1>11, <1>12, <1>13, <1>14, <1>15, <1>16, <1>17 DEF Execute

\* An execution goes on from where another one ends,
LEMMA Onwards ==
  ASSUME NEW z, NEW a, NEW b, NEW c, Goes(z, a, b), Goes(z, b, c)
  PROVE  Goes(z, a, c)
  BY DEF Goes

\* begins with a step,
LEMMA Staying == \A z, a : Goes(z, a, a) /\ Goes(z, a, Stepped(z, a))
  BY DEF Goes

\* can do without its first step,
LEMMA Beyond ==
  ASSUME NEW z, NEW a, NEW b, Goes(z, a, b), a # b
  PROVE  Goes(z, Stepped(z, a), b)
<1> SUFFICES ASSUME NEW S, Stepped(z, a) \in S, \A c \in S : Stepped(z, c) \in S
             PROVE  b \in S
  BY DEF Goes
<1> DEFINE T == S \cup {a}
<1>1. a \in T /\ \A c \in T : Stepped(z, c) \in T
  OBVIOUS
<1>2. b \in T
  <2> HIDE DEF T
  <2> QED
    BY <1>1 DEF Goes
<1> QED
  BY <1>2

\* and is over when the machine has stopped.
LEMMA Stopping ==
  ASSUME NEW z, NEW a, NEW b, Goes(z, a, b), a.mode # "run"
  PROVE  b = a
<1>1. Stepped(z, a) = a
  BY DEF Stepped
<1>2. a \in {a} /\ \A c \in {a} : Stepped(z, c) \in {a}
  BY <1>1
<1>3. b \in {a}
  BY <1>2 DEF Goes
<1> QED
  BY <1>3

(***************************************************************************)
(* Pieces of code in their places.                                         *)
(***************************************************************************)
\* c is at place p of z.
Sits(z, p, c) ==
  /\ p \in Nat \ {0} /\ p + Len(c) <= Len(z) + 1
  /\ \A i \in 1 .. Len(c) : z[p + (i - 1)] = c[i]

\* The two parts of a piece have places of their own,
LEMMA SitsBoth ==
  ASSUME NEW z \in Seq(Insts), NEW p, NEW c \in Seq(Insts), NEW d \in Seq(Insts),
         Sits(z, p, c \o d)
  PROVE  /\ Sits(z, p, c) /\ Sits(z, p + Len(c), d)
         /\ p + Len(c \o d) = p + Len(c) + Len(d)
         /\ p \in Nat \ {0} /\ p + Len(c) \in Nat \ {0}
<1>1. /\ Len(c) \in Nat /\ Len(d) \in Nat /\ Len(z) \in Nat /\ Len(c \o d) = Len(c) + Len(d)
      /\ \A i \in 1 .. Len(c) + Len(d) : (c \o d)[i] = IF i <= Len(c) THEN c[i] ELSE d[i - Len(c)]
  BY LenProperties, ConcatProperties
<1>2. /\ p \in Nat \ {0} /\ p + Len(c \o d) <= Len(z) + 1
      /\ \A i \in 1 .. Len(c \o d) : z[p + (i - 1)] = (c \o d)[i]
  BY DEF Sits
<1>3. Sits(z, p, c)
  <2>1. ASSUME NEW i \in 1 .. Len(c) PROVE z[p + (i - 1)] = c[i]
    <3>1. i \in 1 .. Len(c) + Len(d) /\ i <= Len(c)
      BY <1>1
    <3> QED
      BY <1>1, <1>2, <3>1
  <2> QED
    BY <1>1, <1>2, <2>1 DEF Sits
<1>4. Sits(z, p + Len(c), d)
  <2>1. ASSUME NEW i \in 1 .. Len(d) PROVE z[(p + Len(c)) + (i - 1)] = d[i]
    <3> DEFINE j == Len(c) + i
    <3>1. /\ j \in 1 .. Len(c) + Len(d) /\ ~(j <= Len(c)) /\ j - Len(c) = i
          /\ p + (j - 1) = (p + Len(c)) + (i - 1)
      BY <1>1, <1>2
    <3> HIDE DEF j
    <3> QED
      BY <1>1, <1>2, <3>1
  <2> QED
    BY <1>1, <1>2, <2>1 DEF Sits
<1> QED
  BY <1>1, <1>2, <1>3, <1>4

\* and so has an instruction.
LEMMA SitsOne ==
  ASSUME NEW z \in Seq(Insts), NEW p, NEW x, Sits(z, p, <<x>>)
  PROVE  p \in Nat \ {0} /\ p <= Len(z) /\ z[p] = x /\ p + Len(<<x>>) = p + 1
<1>1. Len(<<x>>) = 1 /\ <<x>>[1] = x /\ 1 \in 1 .. Len(<<x>>) /\ Len(z) \in Nat
  BY LenProperties
<1>2. p \in Nat \ {0} /\ p + 1 <= Len(z) + 1 /\ z[p + (1 - 1)] = x
  BY <1>1 DEF Sits
<1> QED
  BY <1>1, <1>2

\* Any number of pieces, one after the other.
LEMMA SitsAll ==
  ASSUME NEW z \in Seq(Insts), NEW p, NEW q \in Seq(Seq(Insts)), Sits(z, p, FlattenSeq(q))
  PROVE  \E f \in [0 .. Len(q) -> Nat \ {0}] :
           /\ f[0] = p /\ f[Len(q)] = p + Len(FlattenSeq(q))
           /\ \A i \in 1 .. Len(q) : Sits(z, f[i - 1], q[i]) /\ f[i] = f[i - 1] + Len(q[i])
<1> DEFINE n == Len(q)
<1>1. n \in Nat /\ \A i \in 1 .. n : q[i] \in Seq(Insts)
  BY LenProperties
<1>2. PICK F \in [0 .. n -> Seq(Insts)] :
        /\ F[0] = <<>>
        /\ \A i \in 1 .. n : F[i] = F[i - 1] \o q[i]
        /\ FlattenSeq(q) = F[n]
  BY Flattened
<1> DEFINE f == [i \in 0 .. n |-> p + Len(F[i])]
           S == {j \in 0 .. n : LET i == n - j IN
                   /\ Sits(z, p, F[i])
                   /\ \A k \in 1 .. n : k > i => Sits(z, f[k - 1], q[k]) /\ f[k] = f[k - 1] + Len(q[k])}
<1>3. p \in Nat \ {0}
  BY DEF Sits
<1>4. f \in [0 .. n -> Nat \ {0}] /\ f[0] = p /\ f[n] = p + Len(FlattenSeq(q))
  <2>1. \A i \in 0 .. n : Len(F[i]) \in Nat
    BY <1>2, LenProperties
  <2>2. Len(F[0]) = 0 /\ 0 \in 0 .. n /\ n \in 0 .. n
    BY <1>1, <1>2, EmptySeq
  <2>3. \A i \in 0 .. n : p + Len(F[i]) \in Nat \ {0}
    BY <1>3, <2>1
  <2>4. f \in [0 .. n -> Nat \ {0}] /\ f[0] = p + Len(F[0]) /\ f[n] = p + Len(F[n])
    <3> HIDE DEF n
    <3> QED
      BY <2>2, <2>3
  <2> HIDE DEF f, n
  <2> QED
    BY <1>2, <1>3, <2>2, <2>4
<1>5. \A i \in 0 .. n : f[i] = p + Len(F[i])
  OBVIOUS
<1> HIDE DEF n, f
<1>6. 0 \in S
  <2>1. n - 0 = n /\ 0 \in 0 .. n /\ Sits(z, p, F[n])
    BY <1>1, <1>2
  <2> QED
    BY <1>1, <2>1
<1>7. ASSUME NEW j \in 1 .. n, j - 1 \in S PROVE j \in S
  <2> DEFINE i == n - j
             k == i + 1
  <2>1. i \in 0 .. n /\ k \in 1 .. n /\ n - (j - 1) = k /\ k - 1 = i /\ j \in 0 .. n /\ k \in 0 .. n
    BY <1>1
  <2> HIDE DEF i, k
  <2>2. Sits(z, p, F[k])
    BY <1>7, <2>1
  <2>3. F[k] = F[i] \o q[k] /\ F[i] \in Seq(Insts) /\ q[k] \in Seq(Insts)
    BY <1>1, <1>2, <2>1
  <2>4. Sits(z, p, F[i]) /\ Sits(z, p + Len(F[i]), q[k]) /\ p + Len(F[k]) = p + Len(F[i]) + Len(q[k])
    <3>1. Sits(z, p, F[i] \o q[k])
      BY <2>2, <2>3
    <3> DEFINE a == F[i]
               b == q[k]
    <3>2. a \in Seq(Insts) /\ b \in Seq(Insts) /\ Sits(z, p, a \o b) /\ F[k] = a \o b
      BY <2>3, <3>1
    <3> HIDE DEF a, b
    <3>3. Sits(z, p, a) /\ Sits(z, p + Len(a), b) /\ p + Len(a \o b) = p + Len(a) + Len(b)
      BY <3>2, SitsBoth
    <3>4. p + Len(F[k]) = p + Len(a) + Len(b)
      BY <3>2, <3>3
    <3> QED
      BY <3>3, <3>4 DEF a, b
  <2>5. Sits(z, f[k - 1], q[k]) /\ f[k] = f[k - 1] + Len(q[k])
    BY <1>5, <2>1, <2>4
  <2>6. ASSUME NEW l \in 1 .. n, l > i PROVE Sits(z, f[l - 1], q[l]) /\ f[l] = f[l - 1] + Len(q[l])
    <3>1. l = k \/ l > k
      BY <1>1, <2>1, <2>6
    <3> QED
      BY <1>7, <2>1, <2>5, <3>1
  <2> QED
    BY <2>1, <2>4, <2>6 DEF i
<1>8. n \in S
  <2> HIDE DEF S
  <2>1. \A i \in 0 .. n : i \in S
    BY <1>1, <1>6, <1>7, Upwards
  <2> QED
    BY <1>1, <2>1
<1>9. \A i \in 1 .. n : Sits(z, f[i - 1], q[i]) /\ f[i] = f[i - 1] + Len(q[i])
  <2>1. \A i \in 1 .. n : i > n - n
    BY <1>1
  <2> QED
    BY <1>8, <2>1
<1> QED
  BY <1>4, <1>9 DEF n

(***************************************************************************)
(* The stack.                                                              *)
(***************************************************************************)
\* The lowest values of a stack are a stack of them.
LEMMA Lowest ==
  ASSUME NEW s, IsStack(s), NEW n \in Nat, n <= Len(s)
  PROVE  /\ IsStack(Below(s, n)) /\ Len(Below(s, n)) = Len(s) - n /\ Len(s) \in Nat
         /\ \A i \in 1 .. Len(s) - n : Below(s, n)[i] = s[i]
<1>1. PICK V : s \in Seq(V)
  BY DEF IsStack
<1>2. Len(s) \in Nat /\ \A i \in 1 .. Len(s) - n : s[i] \in V
  BY <1>1, LenProperties, ElementOfSeq
<1> DEFINE k == Len(s) - n
<1>3. k \in Nat
  BY <1>2
<1>4. /\ SubSeq(s, 1, k) \in Seq(V)
      /\ Len(SubSeq(s, 1, k)) = IF 1 <= k THEN k - 1 + 1 ELSE 0
      /\ \A i \in 1 .. k - 1 + 1 : SubSeq(s, 1, k)[i] = s[1 + i - 1]
  <2> HIDE DEF k
  <2>1. \A i \in 1 .. k : s[i] \in V
    BY <1>2 DEF k
  <2> QED
    BY <1>3, <2>1, SubSeqProperties
<1>5. Below(s, n) = SubSeq(s, 1, k)
  BY DEF Below
<1> HIDE DEF k
<1>6. Len(Below(s, n)) = k /\ \A i \in 1 .. k : Below(s, n)[i] = s[i]
  BY <1>3, <1>4, <1>5
<1> QED
  BY <1>2, <1>4, <1>5, <1>6 DEF IsStack, k

\* Two stacks with the same values are the same.
LEMMA SameStack ==
  ASSUME NEW s, IsStack(s), NEW t, IsStack(t), Len(s) = Len(t), \A i \in 1 .. Len(s) : s[i] = t[i]
  PROVE  s = t
<1>1. PICK V : s \in Seq(V)
  BY DEF IsStack
<1>2. PICK W : t \in Seq(W)
  BY DEF IsStack
<1> DEFINE U == V \cup W
<1>3. s \in Seq(U) /\ t \in Seq(U)
  BY <1>1, <1>2
<1> HIDE DEF U
<1> QED
  BY <1>3, SeqEqual

\* One stack on top of another.
LEMMA Stacked ==
  ASSUME NEW s, IsStack(s), NEW t, IsStack(t)
  PROVE  /\ IsStack(s \o t) /\ Len(s \o t) = Len(s) + Len(t) /\ Len(s) \in Nat /\ Len(t) \in Nat
         /\ \A i \in 1 .. Len(s) + Len(t) : (s \o t)[i] = IF i <= Len(s) THEN s[i] ELSE t[i - Len(s)]
<1>1. PICK V : s \in Seq(V)
  BY DEF IsStack
<1>2. PICK W : t \in Seq(W)
  BY DEF IsStack
<1> DEFINE U == V \cup W
<1>3. s \in Seq(U) /\ t \in Seq(U)
  BY <1>1, <1>2
<1> HIDE DEF U
<1>4. /\ s \o t \in Seq(U) /\ Len(s \o t) = Len(s) + Len(t)
      /\ \A i \in 1 .. Len(s) + Len(t) : (s \o t)[i] = IF i <= Len(s) THEN s[i] ELSE t[i - Len(s)]
  BY <1>3, ConcatProperties
<1> QED
  BY <1>3, <1>4, LenProperties DEF IsStack

\* What is on top of a stack, and what is below it.
LEMMA OnTop ==
  ASSUME NEW s, IsStack(s), NEW v
  PROVE  /\ Top(Append(s, v)) = v /\ Below(Append(s, v), 1) = s /\ Below(s, 0) = s
         /\ \A k \in Nat : k <= Len(s) => Below(Append(s, v), 1 + k) = Below(s, k)
<1>1. /\ IsStack(Append(s, v)) /\ Len(Append(s, v)) = Len(s) + 1 /\ Len(s) \in Nat
      /\ Append(s, v) # <<>> /\ Last(Append(s, v)) = v
  BY PutOn
<1>2. \A i \in 1 .. Len(s) : Append(s, v)[i] = s[i]
  <2>1. PICK V : s \in Seq(V)
    BY DEF IsStack
  <2> QED
    BY <2>1
<1>3. ASSUME NEW k \in Nat, k <= Len(s) PROVE Below(Append(s, v), 1 + k) = Below(s, k)
  <2> DEFINE a == Below(Append(s, v), 1 + k)
             b == Below(s, k)
             n == Len(s) - k
             m == 1 + k
  <2>1. m \in Nat /\ m <= Len(Append(s, v)) /\ Len(Append(s, v)) - m = n /\ n \in Nat /\ n <= Len(s)
    BY <1>1, <1>3
  <2>2. IsStack(a) /\ Len(a) = n /\ \A i \in 1 .. n : a[i] = Append(s, v)[i]
    <3> HIDE DEF n, m
    <3> QED
      BY <1>1, <2>1, Lowest DEF m
  <2>3. IsStack(b) /\ Len(b) = n /\ \A i \in 1 .. n : b[i] = s[i]
    BY <1>3, Lowest
  <2>4. \A i \in 1 .. n : i \in 1 .. Len(s)
    BY <1>1, <2>1
  <2> HIDE DEF a, b, n
  <2>5. a = b
    BY <1>2, <2>2, <2>3, <2>4, SameStack
  <2> QED
    BY <2>5 DEF a, b
<1>4. Below(s, 0) = s
  <2>1. IsStack(Below(s, 0)) /\ Len(Below(s, 0)) = Len(s) /\ \A i \in 1 .. Len(s) : Below(s, 0)[i] = s[i]
    BY <1>1, Lowest
  <2> QED
    BY <2>1, SameStack
<1>5. Below(Append(s, v), 1) = s
  <2>1. Below(Append(s, v), 1 + 0) = Below(s, 0)
    BY <1>1, <1>3
  <2> QED
    BY <1>4, <2>1
<1> QED
  BY <1>1, <1>3, <1>4, <1>5 DEF Top

\* The values above a stack, one by one.
LEMMA Above ==
  ASSUME NEW s, IsStack(s), NEW t, IsStack(t)
  PROVE  /\ Below(s \o t, Len(t)) = s
         /\ \A i \in 1 .. Len(t) : Top(Below(s \o t, Len(t) - i)) = t[i]
<1> DEFINE u == s \o t
<1>1. /\ IsStack(u) /\ Len(u) = Len(s) + Len(t) /\ Len(s) \in Nat /\ Len(t) \in Nat
      /\ \A i \in 1 .. Len(s) + Len(t) : u[i] = IF i <= Len(s) THEN s[i] ELSE t[i - Len(s)]
  BY Stacked
<1> HIDE DEF u
<1>2. Below(u, Len(t)) = s
  <2>1. /\ IsStack(Below(u, Len(t))) /\ Len(Below(u, Len(t))) = Len(s)
        /\ \A i \in 1 .. Len(s) : Below(u, Len(t))[i] = u[i]
    <3>1. Len(t) <= Len(u) /\ Len(u) - Len(t) = Len(s)
      BY <1>1
    <3> QED
      BY <1>1, <3>1, Lowest
  <2>2. \A i \in 1 .. Len(s) : u[i] = s[i]
    BY <1>1
  <2> QED
    BY <2>1, <2>2, SameStack
<1>3. ASSUME NEW i \in 1 .. Len(t) PROVE Top(Below(u, Len(t) - i)) = t[i]
  <2> DEFINE k == Len(t) - i
             b == Below(u, k)
             n == Len(s) + i
  <2>1. k \in Nat /\ k <= Len(u) /\ Len(u) - k = n /\ n \in 1 .. Len(u) /\ n \in 1 .. n
    BY <1>1
  <2>2. IsStack(b) /\ Len(b) = n /\ \A j \in 1 .. n : b[j] = u[j]
    <3> HIDE DEF k, n
    <3> QED
      BY <1>1, <2>1, Lowest
  <2>3. u[n] = t[i]
    <3>1. ~(n <= Len(s)) /\ n - Len(s) = i /\ n \in 1 .. Len(s) + Len(t)
      BY <1>1
    <3> HIDE DEF n
    <3> QED
      BY <1>1, <3>1
  <2> HIDE DEF b, n
  <2>4. b # <<>>
    <3>1. Len(b) # Len(<<>>)
      BY <2>1, <2>2, NothingOn
    <3> QED
      BY <3>1
  <2>5. Top(b) = t[i]
    BY <2>1, <2>2, <2>3, <2>4 DEF Top, Last
  <2> QED
    BY <2>5 DEF b
<1> QED
  BY <1>2, <1>3 DEF u

(***************************************************************************)
(* What each instruction does.                                             *)
(***************************************************************************)
Ready(p, s, rs, ts) == Config(p, s, "run", FALSE, Void, rs, ts)

\* An error has been found on the way.
Aborts(z, c) == \E p, rs, ts : Goes(z, c, Config(p, <<>>, "stopped", TRUE, Void, rs, ts))

\* The parts of a configuration that is ready to run.
LEMMA ReadyIs ==
  \A p, s, rs, ts :
    /\ Ready(p, s, rs, ts).ip = p /\ Ready(p, s, rs, ts).stack = s
    /\ Ready(p, s, rs, ts).mode = "run" /\ Ready(p, s, rs, ts).error = FALSE
    /\ Ready(p, s, rs, ts).result = Void
    /\ Ready(p, s, rs, ts).results = rs /\ Ready(p, s, rs, ts).triggered = ts
  BY DEF Ready, Config

\* A single instruction that sits at the place is executed in one step.
LEMMA AtOnce ==
  ASSUME NEW z \in Seq(Insts), NEW p, NEW x, Sits(z, p, <<x>>), NEW s, NEW rs, NEW ts
  PROVE  Goes(z, Ready(p, s, rs, ts), After(x, Ready(p, s, rs, ts)))
<1> DEFINE c == Ready(p, s, rs, ts)
<1>1. c.ip = p /\ c.mode = "run"
  BY ReadyIs
<1> HIDE DEF c
<1>2. p <= Len(z) /\ z[p] = x
  BY SitsOne
<1>3. Stepped(z, c) = After(x, c)
  BY <1>1, <1>2 DEF Stepped
<1>4. Goes(z, c, After(x, c))
  BY <1>3, Staying
<1> QED
  BY <1>4 DEF c

\* An execution that fails further on fails.
LEMMA FailsLater ==
  ASSUME NEW z, NEW a, NEW b, Goes(z, a, b), Aborts(z, b)
  PROVE  Aborts(z, a)
<1>1. PICK p, rs, ts : Goes(z, b, Config(p, <<>>, "stopped", TRUE, Void, rs, ts))
  BY DEF Aborts
<1>2. Goes(z, a, Config(p, <<>>, "stopped", TRUE, Void, rs, ts))
  BY <1>1, Onwards
<1> QED
  BY <1>2 DEF Aborts

\* A constant is pushed where there is room.
LEMMA PushRuns ==
  ASSUME NEW z \in Seq(Insts), NEW p, NEW v, Sits(z, p, <<Push(v)>>),
         NEW s, NEW rs, NEW ts, ~(Len(s) >= MaxStack)
  PROVE  Goes(z, Ready(p, s, rs, ts), Ready(p + 1, Append(s, v), rs, ts))
<1> DEFINE c == Ready(p, s, rs, ts)
<1>1. Goes(z, c, After(Push(v), c)) /\ c.stack = s /\ c.error = FALSE
  BY AtOnce, ReadyIs
<1>2. After(Push(v), c) = Putting(c, s, v, FALSE)
  BY <1>1 DEF After, JumpOps, Push
<1>3. Putting(c, s, v, FALSE) = Ready(p + 1, Append(s, v), rs, ts)
  BY DEF Putting, Onto, Ready, Config
<1> QED
  BY <1>1, <1>2, <1>3

\* So is the value of a variable.
LEMMA NameRuns ==
  ASSUME NEW z \in Seq(Insts), NEW p, NEW x, Sits(z, p, <<PushVar(x)>>),
         NEW s, NEW rs, NEW ts, ~(Len(s) >= MaxStack)
  PROVE  Goes(z, Ready(p, s, rs, ts), Ready(p + 1, Append(s, Lookup(x)), rs, ts))
<1> DEFINE c == Ready(p, s, rs, ts)
<1>1. Goes(z, c, After(PushVar(x), c)) /\ c.stack = s /\ c.error = FALSE
  BY AtOnce, ReadyIs
<1>2. After(PushVar(x), c) = Putting(c, s, Lookup(x), FALSE)
  BY <1>1 DEF After, JumpOps, PushVar
<1>3. Putting(c, s, Lookup(x), FALSE) = Ready(p + 1, Append(s, Lookup(x)), rs, ts)
  BY DEF Putting, Onto, Ready, Config
<1> QED
  BY <1>1, <1>2, <1>3

\* The value on top goes.
LEMMA PopRuns ==
  ASSUME NEW z \in Seq(Insts), NEW p, Sits(z, p, <<PopTop>>), NEW s, NEW rs, NEW ts
  PROVE  Goes(z, Ready(p, s, rs, ts), Ready(p + 1, Below(s, 1), rs, ts))
<1> DEFINE c == Ready(p, s, rs, ts)
<1>1. Goes(z, c, After(PopTop, c))
  BY AtOnce, ReadyIs
<1>2. After(PopTop, c) = Ready(p + 1, Below(s, 1), rs, ts)
  BY DEF After, JumpOps, PopTop, Inst, Onto, Ready, Config
<1> QED
  BY <1>1, <1>2

\* An operator finds its operands, and its result is put in their place.
LEMMA OperateRuns ==
  ASSUME NEW z \in Seq(Insts), NEW p, NEW op, Sits(z, p, <<Operate(op)>>),
         NEW s, NEW rs, NEW ts, Len(s) >= Operands(op), ~(Len(Below(s, Operands(op))) >= MaxStack)
  PROVE  IF Usable(Operation(op, s))
           THEN Goes(z, Ready(p, s, rs, ts),
                     Ready(p + 1, Append(Below(s, Operands(op)), Operation(op, s).value), rs, ts))
           ELSE Aborts(z, Ready(p, s, rs, ts))
<1> DEFINE c == Ready(p, s, rs, ts)
<1>1. Goes(z, c, After(Operate(op), c)) /\ c.stack = s /\ c.error = FALSE
  BY AtOnce, ReadyIs
<1>2. After(Operate(op), c) = Operating(op, c)
  BY DEF After, JumpOps, Operate
<1>3. CASE Usable(Operation(op, s))
  <2>1. Operating(op, c) = Putting(c, Below(s, Operands(op)), Operation(op, s).value, FALSE)
    BY <1>1, <1>3 DEF Operating
  <2>2. Putting(c, Below(s, Operands(op)), Operation(op, s).value, FALSE)
          = Ready(p + 1, Append(Below(s, Operands(op)), Operation(op, s).value), rs, ts)
    BY DEF Putting, Onto, Ready, Config
  <2> QED
    BY <1>1, <1>2, <1>3, <2>1, <2>2
<1>4. CASE ~Usable(Operation(op, s))
  <2>1. Operating(op, c) = Aborting(c)
    BY <1>1, <1>4 DEF Operating
  <2>2. Goes(z, c, Config(c.ip, <<>>, "stopped", TRUE, Void, c.results, c.triggered))
    BY <1>1, <1>2, <2>1 DEF Aborting
  <2> HIDE DEF c
  <2>3. Aborts(z, c)
    BY <2>2 DEF Aborts
  <2> QED
    BY <1>4, <2>3 DEF c
<1> QED
  BY <1>3, <1>4

\* Values are made the items of an array.
LEMMA CollectRuns ==
  ASSUME NEW z \in Seq(Insts), NEW p, NEW t, IsStack(t), Sits(z, p, <<PushArray(Len(t))>>),
         NEW s, IsStack(s), NEW rs, NEW ts, ~(Len(s) >= MaxStack)
  PROVE  Goes(z, Ready(p, s \o t, rs, ts), Ready(p + 1, Append(s, ArrayOf(t)), rs, ts))
<1> DEFINE u == s \o t
           n == Len(t)
           c == Ready(p, u, rs, ts)
<1> HIDE DEF u
<1>1. Goes(z, c, After(PushArray(n), c)) /\ c.stack = u /\ c.error = FALSE
  BY AtOnce, ReadyIs
<1>2. After(PushArray(n), c) = Collecting(n, c)
  BY DEF After, JumpOps, PushArray
<1>3. Len(u) = Len(s) + n /\ Len(s) \in Nat /\ n \in Nat
  BY Stacked DEF u
<1>4. Below(u, n) = s /\ \A i \in 1 .. n : Top(Below(u, n - i)) = t[i]
  BY Above DEF u
<1>5. t = [i \in 1 .. n |-> Top(Below(u, n - i))]
  <2>1. PICK V : t \in Seq(V)
    BY DEF IsStack
  <2>2. DOMAIN t = 1 .. n /\ t = [i \in DOMAIN t |-> t[i]]
    BY <2>1
  <2> HIDE DEF u, n
  <2> QED
    BY <1>4, <2>2
<1> HIDE DEF u, n, c
<1>6. (c.error \/ Len(c.stack) < n) = FALSE
  BY <1>1, <1>3
<1>7. Collecting(n, c) = Putting(c, s, ArrayOf(t), FALSE)
  BY <1>1, <1>4, <1>5, <1>6 DEF Collecting
<1>8. Putting(c, s, ArrayOf(t), FALSE) = Ready(p + 1, Append(s, ArrayOf(t)), rs, ts)
  BY DEF c, Putting, Onto, Ready, Config
<1> QED
  BY <1>1, <1>2, <1>7, <1>8 DEF c, n, u

\* A function is given what the code of its arguments left on the stack.
LEMMA CallRuns ==
  ASSUME NEW z \in Seq(Insts), NEW p, NEW f, f \in Functions, Sits(z, p, <<CallOp(f)>>),
         NEW s, IsStack(s), NEW t, IsStack(t), NEW rs, NEW ts, ~(Len(s) >= MaxStack),
         \A i \in 1 .. Len(t) : Converted(t[i]) = t[i]
  PROVE  Goes(z, Ready(p, Append(s \o t, Number(Len(t))), rs, ts),
                 Ready(p + 1, Append(s, Apply(f, t)), rs, ts))
<1> DEFINE w == s \o t
           n == Len(t)
           u == Append(w, Number(n))
           c == Ready(p, u, rs, ts)
<1> HIDE DEF u
<1>1. Goes(z, c, After(CallOp(f), c)) /\ c.stack = u /\ c.error = FALSE
  BY AtOnce, ReadyIs
<1>2. IsStack(w) /\ Len(w) = Len(s) + n /\ Len(s) \in Nat /\ n \in Nat
  BY Stacked DEF u
<1>3. Below(w, n) = s /\ \A i \in 1 .. n : Top(Below(w, n - i)) = t[i]
  BY Above DEF u
<1> HIDE DEF w, n
<1>4. /\ Top(u) = Number(n) /\ Len(u) = Len(w) + 1
      /\ \A k \in Nat : k <= Len(w) => Below(u, 1 + k) = Below(w, k)
  BY <1>2, OnTop, PutOn DEF u
<1> HIDE DEF u
<1>5. Top(u).data = n
  BY <1>4 DEF Number, Value
<1>6. After(CallOp(f), c) = Calling(f, n, c)
  BY <1>1, <1>5 DEF After, JumpOps, CallOp
<1>7. Below(u, 1 + n) = s
  BY <1>2, <1>3, <1>4
<1>8. ASSUME NEW i \in 1 .. n PROVE ArgumentOf(u, n, i) = t[i]
  <2>1. n - i \in Nat /\ n - i <= Len(w) /\ 1 + n - i = 1 + (n - i)
    BY <1>2
  <2>2. Below(u, 1 + n - i) = Below(w, n - i)
    BY <1>4, <2>1
  <2>3. Converted(t[i]) = t[i]
    BY DEF n
  <2> QED
    BY <1>3, <2>2, <2>3 DEF ArgumentOf
<1>9. t = [i \in 1 .. n |-> ArgumentOf(u, n, i)]
  <2>1. PICK V : t \in Seq(V)
    BY DEF IsStack
  <2>2. DOMAIN t = 1 .. n /\ t = [i \in DOMAIN t |-> t[i]]
    BY <2>1 DEF n
  <2> QED
    BY <1>8, <2>2
<1> HIDE DEF c
<1>10. (c.error \/ ~(Len(c.stack) > n)) = FALSE
  <2>1. Len(u) > n
    BY <1>2, <1>4
  <2> QED
    BY <1>1, <2>1
<1>11. Calling(f, n, c) = Putting(c, s, Apply(f, t), FALSE)
  BY <1>1, <1>7, <1>9, <1>10 DEF Calling
<1>12. Putting(c, s, Apply(f, t), FALSE) = Ready(p + 1, Append(s, Apply(f, t)), rs, ts)
  BY DEF c, Putting, Onto, Ready, Config
<1> QED
  BY <1>1, <1>6, <1>11, <1>12 DEF c, n, u, w

\* An action is triggered, and its arguments are taken from the stack.
LEMMA ActRuns ==
  ASSUME NEW z \in Seq(Insts), NEW p, NEW a, Sits(z, p, <<ActionOp(a.name)>>),
         NEW s, IsStack(s), NEW t, IsStack(t), NEW rs, NEW ts
  PROVE  Goes(z, Ready(p, Append(s \o t, Number(Len(t))), rs, ts),
                 Ready(p + 1, s, rs, Triggered(ts, a)))
<1> DEFINE w == s \o t
           n == Len(t)
           u == Append(w, Number(n))
           c == Ready(p, u, rs, ts)
<1> HIDE DEF u
<1>1. Goes(z, c, After(ActionOp(a.name), c)) /\ c.ip = p /\ c.stack = u /\ c.mode = "run"
      /\ c.error = FALSE /\ c.result = Void /\ c.results = rs /\ c.triggered = ts
  BY AtOnce, ReadyIs
<1>2. IsStack(w) /\ Len(w) = Len(s) + n /\ Len(s) \in Nat /\ n \in Nat
  BY Stacked DEF u
<1>3. Below(w, n) = s
  BY Above DEF u
<1> HIDE DEF w, n
<1>4. /\ Top(u) = Number(n) /\ Len(u) = Len(w) + 1
      /\ \A k \in Nat : k <= Len(w) => Below(u, 1 + k) = Below(w, k)
  BY <1>2, OnTop, PutOn DEF u
<1> HIDE DEF u, c
<1>5. Top(u).data = n
  BY <1>4 DEF Number, Value
<1>6. After(ActionOp(a.name), c) = Acting(a.name, n, c)
  BY <1>1, <1>5 DEF After, JumpOps, ActionOp
<1>7. Below(u, 1 + n) = s
  BY <1>2, <1>3, <1>4
<1>8. (c.error \/ ~(Len(c.stack) > n)) = FALSE
  <2>1. Len(u) > n
    BY <1>2, <1>4
  <2> QED
    BY <1>1, <2>1
<1>9. Acting(a.name, n, c) = Ready(p + 1, s, rs, Triggered(ts, a))
  BY <1>1, <1>7, <1>8 DEF Acting, Ready, Triggered
<1> QED
  BY <1>1, <1>6, <1>9 DEF c, n, u, w

\* A jump goes on at its target.
LEMMA JumpRuns ==
  ASSUME NEW z \in Seq(Insts), NEW p, NEW k, Sits(z, p, <<Jump(k)>>), NEW s, NEW rs, NEW ts
  PROVE  Goes(z, Ready(p, s, rs, ts), Ready(p + k, s, rs, ts))
<1> DEFINE c == Ready(p, s, rs, ts)
<1>1. Goes(z, c, After(Jump(k), c))
  BY AtOnce, ReadyIs
<1>2. After(Jump(k), c) = Ready(p + k, s, rs, ts)
  BY DEF After, JumpOps, Jump, Leaping, Ready, Config
<1> QED
  BY <1>1, <1>2

\* A conditional jump leaves the value it is taken for, and takes the other one away.
LEMMA BranchRuns ==
  ASSUME NEW z \in Seq(Insts), NEW p, NEW b \in BOOLEAN, NEW k, Sits(z, p, <<JumpIf(b, k)>>),
         NEW s, IsStack(s), NEW v, NEW rs, NEW ts
  PROVE  Goes(z, Ready(p, Append(s, v), rs, ts),
              IF IsTrue(v) <=> b THEN Ready(p + k, Append(s, v), rs, ts)
              ELSE Ready(p + 1, s, rs, ts))
<1> DEFINE u == Append(s, v)
           c == Ready(p, u, rs, ts)
           x == JumpIf(b, k)
<1> HIDE DEF u, x
<1>1. Sits(z, p, <<x>>)
  BY DEF x
<1>2. Goes(z, c, After(x, c)) /\ c.ip = p /\ c.stack = u /\ c.mode = "run"
      /\ c.error = FALSE /\ c.result = Void /\ c.results = rs /\ c.triggered = ts
  BY <1>1, AtOnce, ReadyIs
<1>3. Top(u) = v /\ Below(u, 1) = s /\ u # <<>>
  BY OnTop, PutOn DEF u
<1>4. /\ x.op \in JumpOps /\ x.op # "JMP" /\ (x.op = "JMP_IF_TRUE" <=> b) /\ x.offset = k
      /\ x.op \in {"JMP_IF_TRUE", "JMP_IF_FALSE"}
  BY DEF JumpIf, JumpOps, x
<1> HIDE DEF u, c, x
<1>5. After(x, c) = Leaping(x, c)
  BY <1>4 DEF After, JumpOps
<1>6. (c.error \/ (x.op # "JMP" /\ c.stack = <<>>)) = FALSE
  BY <1>2, <1>3
<1>7. Leaping(x, c) = IF IsTrue(v) <=> b THEN Ready(p + k, u, rs, ts) ELSE Ready(p + 1, s, rs, ts)
  <2>1. CASE IsTrue(v) <=> b
    <3>1. Leaping(x, c) = Config(p + k, u, "run", FALSE, Void, rs, ts)
      BY <1>2, <1>3, <1>4, <1>6, <2>1 DEF Leaping
    <3> QED
      BY <2>1, <3>1 DEF Ready
  <2>2. CASE ~(IsTrue(v) <=> b)
    <3>1. Leaping(x, c) = Config(p + 1, s, "run", FALSE, Void, rs, ts)
      BY <1>2, <1>3, <1>4, <1>6, <2>2 DEF Leaping
    <3> QED
      BY <2>2, <3>1 DEF Ready
  <2> QED
    BY <2>1, <2>2
<1> QED
  BY <1>2, <1>5, <1>7 DEF c, u, x

(***************************************************************************)
(* What the definitions by recursion say.                                  *)
(***************************************************************************)
FoldFrom(f, e) ==
  CASE e.kind = "literal" -> Outcome("OK", e.value)
    [] e.kind = "unary" ->
         IF f[e.arg].status = "OK" THEN Unop(e.op, f[e.arg].value)
         ELSE NotConstant
    [] e.kind = "binary" ->
         IF e.op \notin Logical /\ f[e.left].status = "OK"
                                /\ f[e.right].status = "OK"
           THEN Binop(e.op, f[e.left].value, f[e.right].value)
           ELSE NotConstant
    [] OTHER -> NotConstant

\* What a constant folds to depends on what its parts fold to, and on nothing else.
LEMMA FoldRestsOnParts ==
  ASSUME NEW f, NEW g, NEW e \in Exprs, \A d \in PartsOf(e) : f[d] = g[d]
  PROVE  FoldFrom(f, e) = FoldFrom(g, e)
<1>1. CASE e.kind = "unary"
  <2>1. f[e.arg] = g[e.arg]
    BY <1>1, PartsOfKinds
  <2> QED
    BY <1>1, <2>1 DEF FoldFrom
<1>2. CASE e.kind = "binary"
  <2>1. f[e.left] = g[e.left] /\ f[e.right] = g[e.right]
    BY <1>2, PartsOfKinds
  <2> QED
    BY <1>2, <2>1 DEF FoldFrom
<1>3. CASE e.kind \notin {"unary", "binary"}
  BY <1>3 DEF FoldFrom
<1> QED
  BY <1>1, <1>2, <1>3

\* Fold is what its definition says: the recursion has a solution.
LEMMA FoldUnfolds == \A e \in Exprs : Fold[e] = FoldFrom(Fold, e)
<1> DEFINE Again(f) == [e \in Exprs |-> FoldFrom(f, e)]
           Lower(n) == {e \in Exprs : Height[e] < n}
           Solves(f, n) == \A e \in Lower(n) : f[e] = FoldFrom(f, e)
           S == {n \in Nat : \E f : Solves(f, n)}
<1>1. 0 \in S
  <2>1. Lower(0) = {}
    BY Heights
  <2> QED
    BY <2>1
<1>2. ASSUME NEW n \in Nat, n \in S PROVE n + 1 \in S
  <2>1. PICK f : Solves(f, n)
    BY <1>2
  <2> DEFINE g == Again(f)
  <2>2. ASSUME NEW e \in Lower(n + 1) PROVE g[e] = FoldFrom(g, e)
    <3>1. e \in Exprs /\ \A d \in PartsOf(e) : d \in Exprs /\ d \in Lower(n)
      BY <2>2, PartsAreExprs, Heights
    <3>2. \A d \in PartsOf(e) : f[d] = g[d]
      BY <2>1, <3>1
    <3>3. g[e] = FoldFrom(f, e)
      BY <3>1
    <3> HIDE DEF g
    <3> QED
      BY <3>1, <3>2, <3>3, FoldRestsOnParts
  <2> HIDE DEF g
  <2> QED
    BY <2>2
<1>3. Nat \subseteq S
  <2> HIDE DEF S
  <2> QED
    BY <1>1, <1>2, Counting
<1> DEFINE F == [n \in Nat |-> CHOOSE f : Solves(f, n)]
<1>4. \A n \in Nat : Solves(F[n], n)
  <2> SUFFICES ASSUME NEW n \in Nat PROVE Solves(F[n], n)
    OBVIOUS
  <2>1. \E f : Solves(f, n)
    BY <1>3
  <2> HIDE DEF Solves
  <2> QED
    BY <2>1
<1> HIDE DEF F
<1> DEFINE Same == {e \in Exprs : \A m, n \in Nat : Height[e] < m /\ Height[e] < n => F[m][e] = F[n][e]}
<1>5. Exprs \subseteq Same
  <2>1. ASSUME NEW e \in Exprs, PartsOf(e) \subseteq Same,
               NEW m \in Nat, NEW n \in Nat, Height[e] < m, Height[e] < n
        PROVE  F[m][e] = F[n][e]
    <3>1. F[m][e] = FoldFrom(F[m], e) /\ F[n][e] = FoldFrom(F[n], e)
      BY <1>4, <2>1
    <3>2. \A d \in PartsOf(e) : F[m][d] = F[n][d]
      <4> SUFFICES ASSUME NEW d \in PartsOf(e) PROVE F[m][d] = F[n][d]
        OBVIOUS
      <4>1. Height[d] < m /\ Height[d] < n
        BY <2>1, PartsAreExprs, Heights
      <4> QED
        BY <2>1, <4>1
    <3> QED
      BY <3>1, <3>2, FoldRestsOnParts
  <2>2. \A e \in Exprs : PartsOf(e) \subseteq Same => e \in Same
    BY <2>1
  <2> HIDE DEF Same
  <2> QED
    BY <2>2, Structural
<1> DEFINE h == [e \in Exprs |-> F[Height[e] + 1][e]]
<1>6. ASSUME NEW e \in Exprs PROVE h[e] = FoldFrom(h, e)
  <2> DEFINE n == Height[e] + 1
  <2>1. n \in Nat /\ Height[e] < n
    BY Heights
  <2>2. h[e] = FoldFrom(F[n], e)
    BY <1>4, <2>1
  <2>3. \A d \in PartsOf(e) : h[d] = F[n][d]
    <3> SUFFICES ASSUME NEW d \in PartsOf(e) PROVE h[d] = F[n][d]
      OBVIOUS
    <3>1. /\ d \in Exprs /\ Height[d] \in Nat /\ Height[d] + 1 \in Nat
          /\ Height[d] < Height[d] + 1 /\ Height[d] < n
      BY <2>1, PartsAreExprs, Heights
    <3>2. F[Height[d] + 1][d] = F[n][d]
      BY <1>5, <2>1, <3>1
    <3> QED
      BY <3>1, <3>2
  <2> HIDE DEF h, n
  <2> QED
    BY <2>2, <2>3, FoldRestsOnParts
<1>7. h = Again(h)
  <2>1. h = [e \in Exprs |-> h[e]]
    OBVIOUS
  <2> HIDE DEF h
  <2> QED
    BY <1>6, <2>1
<1>8. \E f : f = [e \in Exprs |-> FoldFrom(f, e)]
  <2> HIDE DEF h
  <2> QED
    BY <1>7
<1>9. Fold = [e \in Exprs |-> FoldFrom(Fold, e)]
  BY <1>8 DEF Fold, FoldFrom
<1> QED
  BY <1>9

GivesBoolFrom(f, e) ==
  CASE e.kind = "literal" -> e.value \in Truths
    [] e.kind = "id" -> Lookup(e.name) \in Truths
    [] e.kind = "unary" -> e.op = "NOT"
    [] e.kind = "binary" ->
         e.op \in Relational
           \/ (e.op \in Logical /\ f[e.left] /\ f[e.right])
    [] OTHER -> FALSE

TypedFrom(f, e) ==
  CASE e.kind = "unary" -> f[e.arg]
    [] e.kind = "binary" ->
         /\ f[e.left] /\ f[e.right]
         /\ e.op \in Logical => GivesBool[e.left] /\ GivesBool[e.right]
    [] e.kind = "call" ->
         /\ e.name \in Functions
         /\ \A i \in DOMAIN e.args : f[e.args[i]] /\ Survives(e.args[i])
    [] e.kind = "array" -> \A i \in DOMAIN e.items : f[e.items[i]]
    [] OTHER -> TRUE

CleanFrom(f, e) ==
  [bare \in BOOLEAN |->
     CASE e.kind = "unary" -> f[e.arg][bare]
       [] e.kind = "binary" /\ e.op \in Logical ->
            bare /\ f[e.left][TRUE] /\ f[e.right][TRUE]
       [] e.kind = "binary" /\ e.op \notin Logical ->
            f[e.left][bare] /\ f[e.right][FALSE]
       [] e.kind = "call" ->
            \A i \in DOMAIN e.args : f[e.args[i]][bare /\ i = 1]
       [] e.kind = "array" ->
            \A i \in DOMAIN e.items : f[e.items[i]][bare /\ i = 1]
       [] OTHER -> TRUE]

ShallowFrom(f, e) ==
  [depth \in 0 .. MaxExprDepth |->
     /\ depth < MaxExprDepth
     /\ CASE e.kind = "unary" -> f[e.arg][depth + 1]
          [] e.kind = "binary" ->
               f[e.left][depth + 1] /\ f[e.right][depth + 1]
          [] e.kind = "call" -> \A i \in DOMAIN e.args : f[e.args[i]][0]
          [] e.kind = "array" ->
               \A i \in DOMAIN e.items : f[e.items[i]][depth + 1]
          [] OTHER -> TRUE]

\* GivesBool and Typed are what their definitions say,
LEMMA GivesBoolUnfolds == \A e \in Exprs : GivesBool[e] = GivesBoolFrom(GivesBool, e)
<1> DEFINE G == [f \in [Exprs -> BOOLEAN] |-> [e \in Exprs |-> GivesBoolFrom(f, e)]]
<1>1. \A f \in [Exprs -> BOOLEAN] : G[f] \in [Exprs -> BOOLEAN]
  <2> SUFFICES ASSUME NEW f \in [Exprs -> BOOLEAN], NEW e \in Exprs PROVE GivesBoolFrom(f, e) \in BOOLEAN
    OBVIOUS
  <2>1. \A d \in PartsOf(e) : f[d] \in BOOLEAN
    BY PartsAreExprs
  <2>2. CASE e.kind = "binary"
    <3>1. f[e.left] \in BOOLEAN /\ f[e.right] \in BOOLEAN
      BY <2>1, <2>2, PartsOfKinds
    <3>2. GivesBoolFrom(f, e) = (e.op \in Relational \/ (e.op \in Logical /\ f[e.left] /\ f[e.right]))
      BY <2>2 DEF GivesBoolFrom
    <3> QED
      BY <3>1, <3>2
  <2>3. CASE e.kind = "literal"
    BY <2>3 DEF GivesBoolFrom
  <2>4. CASE e.kind = "id"
    BY <2>4 DEF GivesBoolFrom
  <2>5. CASE e.kind \notin {"binary", "literal", "id"}
    BY <2>5 DEF GivesBoolFrom
  <2> QED
    BY <2>2, <2>3, <2>4, <2>5
<1>2. ASSUME NEW f \in [Exprs -> BOOLEAN], NEW g \in [Exprs -> BOOLEAN], NEW e \in Exprs,
             \A d \in PartsOf(e) : f[d] = g[d]
      PROVE  G[f][e] = G[g][e]
  <2>1. GivesBoolFrom(f, e) <=> GivesBoolFrom(g, e)
    BY <1>2, PartsOfKinds DEF GivesBoolFrom
  <2>2. GivesBoolFrom(f, e) \in BOOLEAN /\ GivesBoolFrom(g, e) \in BOOLEAN
    BY <1>1
  <2> QED
    BY <2>1, <2>2
<1>3. \E f \in [Exprs -> BOOLEAN] : f = G[f]
  <2>1. \A f \in [Exprs -> BOOLEAN] : \A g \in [Exprs -> BOOLEAN] : \A e \in Exprs :
          (\A d \in PartsOf(e) : f[d] = g[d]) => G[f][e] = G[g][e]
    BY <1>2
  <2> HIDE DEF G
  <2>2. RestsOnParts(G, BOOLEAN)
    BY <1>1, <2>1 DEF RestsOnParts
  <2> QED
    BY <2>2, Recursion
<1>4. \E f : f = [e \in Exprs |-> GivesBoolFrom(f, e)]
  BY <1>3
<1>5. GivesBool = [e \in Exprs |-> GivesBoolFrom(GivesBool, e)]
  BY <1>4 DEF GivesBool, GivesBoolFrom
<1> QED
  BY <1>5

\* The recursive functions about types and depths unfold on every expression.
LEMMA TypedUnfolds == \A e \in Exprs : Typed[e] = TypedFrom(Typed, e)
<1> DEFINE G == [f \in [Exprs -> BOOLEAN] |-> [e \in Exprs |-> TypedFrom(f, e)]]
<1>1. \A f \in [Exprs -> BOOLEAN] : G[f] \in [Exprs -> BOOLEAN]
  <2> SUFFICES ASSUME NEW f \in [Exprs -> BOOLEAN], NEW e \in Exprs PROVE TypedFrom(f, e) \in BOOLEAN
    OBVIOUS
  <2>1. \A d \in PartsOf(e) : f[d] \in BOOLEAN
    BY PartsAreExprs
  <2> QED
    BY <2>1, PartsOfKinds DEF TypedFrom
<1>2. ASSUME NEW f \in [Exprs -> BOOLEAN], NEW g \in [Exprs -> BOOLEAN], NEW e \in Exprs,
             \A d \in PartsOf(e) : f[d] = g[d]
      PROVE  G[f][e] = G[g][e]
  <2>1. TypedFrom(f, e) <=> TypedFrom(g, e)
    BY <1>2, PartsOfKinds DEF TypedFrom
  <2>2. TypedFrom(f, e) \in BOOLEAN /\ TypedFrom(g, e) \in BOOLEAN
    BY <1>1
  <2> QED
    BY <2>1, <2>2
<1>3. \E f \in [Exprs -> BOOLEAN] : f = G[f]
  <2>1. \A f \in [Exprs -> BOOLEAN] : \A g \in [Exprs -> BOOLEAN] : \A e \in Exprs :
          (\A d \in PartsOf(e) : f[d] = g[d]) => G[f][e] = G[g][e]
    BY <1>2
  <2> HIDE DEF G
  <2>2. RestsOnParts(G, BOOLEAN)
    BY <1>1, <2>1 DEF RestsOnParts
  <2> QED
    BY <2>2, Recursion
<1>4. \E f : f = [e \in Exprs |-> TypedFrom(f, e)]
  BY <1>3
<1>5. Typed = [e \in Exprs |-> TypedFrom(Typed, e)]
  BY <1>4 DEF Typed, TypedFrom
<1> QED
  BY <1>5

\* and so are Clean and Shallow.
LEMMA CleanUnfolds == \A e \in Exprs : Clean[e] = CleanFrom(Clean, e)
<1> DEFINE V == [BOOLEAN -> BOOLEAN]
           G == [f \in [Exprs -> V] |-> [e \in Exprs |-> CleanFrom(f, e)]]
<1>1. V # {}
  <2>1. [b \in BOOLEAN |-> TRUE] \in V
    OBVIOUS
  <2> QED
    BY <2>1
<1>2. \A f \in [Exprs -> V] : G[f] \in [Exprs -> V]
  <2> SUFFICES ASSUME NEW f \in [Exprs -> V], NEW e \in Exprs PROVE CleanFrom(f, e) \in V
    OBVIOUS
  <2>1. \A d \in PartsOf(e) : f[d] \in V
    BY PartsAreExprs
  <2>2. \A d \in PartsOf(e) : \A b \in BOOLEAN : f[d][b] \in BOOLEAN
    BY <2>1
  <2> HIDE DEF V
  <2>3. CleanFrom(f, e) \in [BOOLEAN -> BOOLEAN]
    BY <2>2, PartsOfKinds DEF CleanFrom
  <2> QED
    BY <2>3 DEF V
<1>3. ASSUME NEW f \in [Exprs -> V], NEW g \in [Exprs -> V], NEW e \in Exprs,
             \A d \in PartsOf(e) : f[d] = g[d]
      PROVE  G[f][e] = G[g][e]
  <2>1. CleanFrom(f, e) \in V /\ CleanFrom(g, e) \in V
    BY <1>2
  <2>2. ASSUME NEW b \in BOOLEAN PROVE CleanFrom(f, e)[b] <=> CleanFrom(g, e)[b]
    BY <1>3, PartsOfKinds DEF CleanFrom
  <2>3. CleanFrom(f, e) = CleanFrom(g, e)
    BY <2>1, <2>2
  <2> QED
    BY <2>3
<1>4. \E f \in [Exprs -> V] : f = G[f]
  <2>1. \A f \in [Exprs -> V] : \A g \in [Exprs -> V] : \A e \in Exprs :
          (\A d \in PartsOf(e) : f[d] = g[d]) => G[f][e] = G[g][e]
    BY <1>3
  <2> HIDE DEF G, V
  <2>2. RestsOnParts(G, V)
    BY <1>1, <1>2, <2>1 DEF RestsOnParts
  <2> QED
    BY <2>2, Recursion
<1>5. \E f : f = [e \in Exprs |-> CleanFrom(f, e)]
  BY <1>4
<1>6. Clean = [e \in Exprs |-> CleanFrom(Clean, e)]
  BY <1>5 DEF Clean, CleanFrom
<1> QED
  BY <1>6

LEMMA ShallowUnfolds == \A e \in Exprs : Shallow[e] = ShallowFrom(Shallow, e)
<1> DEFINE V == [0 .. MaxExprDepth -> BOOLEAN]
           G == [f \in [Exprs -> V] |-> [e \in Exprs |-> ShallowFrom(f, e)]]
<1>1. V # {}
  <2>1. [b \in 0 .. MaxExprDepth |-> TRUE] \in V
    OBVIOUS
  <2> QED
    BY <2>1
<1>2. \A f \in [Exprs -> V] : G[f] \in [Exprs -> V]
  <2> SUFFICES ASSUME NEW f \in [Exprs -> V], NEW e \in Exprs PROVE ShallowFrom(f, e) \in V
    OBVIOUS
  <2>1. \A d \in PartsOf(e) : f[d] \in V
    BY PartsAreExprs
  <2>2. \A d \in PartsOf(e) : \A b \in 0 .. MaxExprDepth : f[d][b] \in BOOLEAN
    BY <2>1
  <2> HIDE DEF V
  <2>3. ASSUME NEW b \in 0 .. MaxExprDepth PROVE ShallowFrom(f, e)[b] \in BOOLEAN
    <3>1. CASE b < MaxExprDepth
      <4>1. b + 1 \in 0 .. MaxExprDepth /\ 0 \in 0 .. MaxExprDepth
        BY <3>1, DepthAssumption
      <4> QED
        BY <2>2, <4>1, PartsOfKinds DEF ShallowFrom
    <3>2. CASE ~(b < MaxExprDepth)
      BY <3>2 DEF ShallowFrom
    <3> QED
      BY <3>1, <3>2
  <2>4. ShallowFrom(f, e) \in [0 .. MaxExprDepth -> BOOLEAN]
    BY <2>3 DEF ShallowFrom
  <2> QED
    BY <2>4 DEF V
<1>3. ASSUME NEW f \in [Exprs -> V], NEW g \in [Exprs -> V], NEW e \in Exprs,
             \A d \in PartsOf(e) : f[d] = g[d]
      PROVE  G[f][e] = G[g][e]
  <2>1. ShallowFrom(f, e) \in V /\ ShallowFrom(g, e) \in V
    BY <1>2
  <2>2. ASSUME NEW b \in 0 .. MaxExprDepth PROVE ShallowFrom(f, e)[b] <=> ShallowFrom(g, e)[b]
    BY <1>3, PartsOfKinds DEF ShallowFrom
  <2>3. ShallowFrom(f, e) = ShallowFrom(g, e)
    <3> DEFINE x == ShallowFrom(f, e)
               y == ShallowFrom(g, e)
    <3> HIDE DEF x, y
    <3>1. x \in [0 .. MaxExprDepth -> BOOLEAN] /\ y \in [0 .. MaxExprDepth -> BOOLEAN]
      BY <2>1 DEF x, y
    <3>2. \A b \in 0 .. MaxExprDepth : x[b] = y[b]
      BY <2>2, <3>1 DEF x, y
    <3>3. x = y
      <4>1. x = [b \in 0 .. MaxExprDepth |-> x[b]] /\ y = [b \in 0 .. MaxExprDepth |-> y[b]]
        BY <3>1
      <4>2. [b \in 0 .. MaxExprDepth |-> x[b]] = [b \in 0 .. MaxExprDepth |-> y[b]]
        BY <3>2, Zenon
      <4> QED
        BY <4>1, <4>2
    <3> QED
      BY <3>3 DEF x, y
  <2> QED
    BY <2>3
<1>4. \E f \in [Exprs -> V] : f = G[f]
  <2>1. \A f \in [Exprs -> V] : \A g \in [Exprs -> V] : \A e \in Exprs :
          (\A d \in PartsOf(e) : f[d] = g[d]) => G[f][e] = G[g][e]
    BY <1>3
  <2> HIDE DEF G, V
  <2>2. RestsOnParts(G, V)
    BY <1>1, <1>2, <2>1 DEF RestsOnParts
  <2> QED
    BY <2>2, Recursion
<1>5. \E f : f = [e \in Exprs |-> ShallowFrom(f, e)]
  BY <1>4
<1>6. Shallow = [e \in Exprs |-> ShallowFrom(Shallow, e)]
  BY <1>5 DEF Shallow, ShallowFrom
<1> QED
  BY <1>6

(***************************************************************************)
(* The values of expressions.                                              *)
(***************************************************************************)
\* Only expressions that lie high enough are shallow, and their parts lie high enough.
LEMMA ShallowParts ==
  ASSUME NEW e \in Exprs, NEW d \in 0 .. MaxExprDepth, Shallow[e][d]
  PROVE  /\ d # MaxExprDepth /\ d + 1 \in 0 .. MaxExprDepth /\ 0 \in 0 .. MaxExprDepth
         /\ e.kind = "unary" => Shallow[e.arg][d + 1]
         /\ e.kind = "binary" => Shallow[e.left][d + 1] /\ Shallow[e.right][d + 1]
         /\ e.kind = "call" => \A i \in DOMAIN e.args : Shallow[e.args[i]][0]
         /\ e.kind = "array" => \A i \in DOMAIN e.items : Shallow[e.items[i]][d + 1]
<1>1. ShallowFrom(Shallow, e)[d]
  BY ShallowUnfolds
<1>2. d < MaxExprDepth
  BY <1>1 DEF ShallowFrom
<1>3. d # MaxExprDepth /\ d + 1 \in 0 .. MaxExprDepth /\ 0 \in 0 .. MaxExprDepth
  BY <1>2, DepthAssumption
<1> QED
  BY <1>1, <1>3 DEF ShallowFrom

Statuses == {"OK", "VOID_OPERAND", "DIV_ZERO", "TYPE_ERROR", "OVERFLOW"}

\* What operators tell.
LEMMA OutcomesTell ==
  \A op, a, b : Unop(op, a).status \in Statuses /\ Binop(op, a, b).status \in Statuses
<1> SUFFICES ASSUME NEW op, NEW a, NEW b
             PROVE  Unop(op, a).status \in Statuses /\ Binop(op, a, b).status \in Statuses
  OBVIOUS
<1>1. /\ \A v : Outcome("OK", v).status \in Statuses /\ Outcome("VOID_OPERAND", v).status \in Statuses
      /\ Fails("TYPE_ERROR").status \in Statuses /\ Fails("DIV_ZERO").status \in Statuses
      /\ \A t, n : Checked(t, n).status \in Statuses
  BY DEF Outcome, Fails, Checked, Statuses
<1>2. Unop(op, a).status \in Statuses
  BY <1>1 DEF Unop
<1>3. \A x, y : Strings(op, x, y).status \in Statuses
  BY <1>1 DEF Strings
<1>4. \A x, y : Booleans(op, x, y).status \in Statuses
  BY <1>1 DEF Booleans
<1>5. \A x, y : Numbers(op, x, y).status \in Statuses
  BY <1>1 DEF Numbers
<1>6. \A x, y : Moved(op, x, y).status \in Statuses
  BY <1>1 DEF Moved
<1>7. \A x, y : Dates(op, x, y).status \in Statuses
  BY <1>1, <1>6 DEF Dates
<1>8. Binop(op, a, b).status \in Statuses
  BY <1>1, <1>3, <1>4, <1>5, <1>7 DEF Binop
<1> QED
  BY <1>2, <1>8

\* What becomes of the outcome of an operator.
LEMMA Uses ==
  ASSUME NEW o, o.status \in Statuses, NEW n
  PROVE  /\ Failed(AsWalked(o, n)) <=> ~Usable(o)
         /\ Usable(o) => AsWalked(o, n).value = o.value
<1>1. CASE Usable(o)
  <2>1. AsWalked(o, n) = Walked(o.value, n, "NONE")
    BY <1>1 DEF AsWalked
  <2> QED
    BY <1>1, <2>1 DEF Walked, Failed
<1>2. CASE ~Usable(o)
  <2>1. AsWalked(o, n) = Walked(Void, n, o.status)
    BY <1>2 DEF AsWalked
  <2>2. o.status # "NONE"
    BY DEF Statuses
  <2> QED
    BY <1>2, <2>1, <2>2 DEF Walked, Failed
<1> QED
  BY <1>1, <1>2

\* A unary operator, and a binary one that evaluates both operands.
LEMMA UnaryOf ==
  ASSUME NEW op, NEW w
  PROVE  /\ Failed(w) => Failed(UnaryWalk(op, w))
         /\ ~Failed(w) =>
              /\ Failed(UnaryWalk(op, w)) <=> ~Usable(Unop(op, w.value))
              /\ Usable(Unop(op, w.value)) => UnaryWalk(op, w).value = Unop(op, w.value).value
<1>1. CASE Failed(w)
  <2>1. UnaryWalk(op, w) = Walked(Void, w.nodes + 1, w.error)
    BY <1>1 DEF UnaryWalk
  <2> QED
    BY <1>1, <2>1 DEF Walked, Failed
<1>2. CASE ~Failed(w)
  <2>1. UnaryWalk(op, w) = AsWalked(Unop(op, w.value), w.nodes + 1)
    BY <1>2 DEF UnaryWalk
  <2> QED
    BY <1>2, <2>1, Uses, OutcomesTell
<1> QED
  BY <1>1, <1>2

\* The tree walk and the machine agree on an operator whose operands they agree on.
LEMMA BinaryOf ==
  ASSUME NEW op, op \notin Logical, NEW l, NEW r
  PROVE  /\ Failed(l) \/ Failed(r) => Failed(BinaryWalk(op, l, r))
         /\ ~Failed(l) /\ ~Failed(r) =>
              /\ Failed(BinaryWalk(op, l, r)) <=> ~Usable(Binop(op, l.value, r.value))
              /\ Usable(Binop(op, l.value, r.value)) =>
                   BinaryWalk(op, l, r).value = Binop(op, l.value, r.value).value
<1>1. CASE Failed(l)
  <2>1. BinaryWalk(op, l, r) = Walked(Void, l.nodes + 1, l.error)
    BY <1>1 DEF BinaryWalk
  <2> QED
    BY <1>1, <2>1 DEF Walked, Failed
<1>2. CASE ~Failed(l) /\ Failed(r)
  <2>1. BinaryWalk(op, l, r) = Walked(Void, l.nodes + r.nodes + 1, r.error)
    BY <1>2 DEF BinaryWalk
  <2> QED
    BY <1>2, <2>1 DEF Walked, Failed
<1>3. CASE ~Failed(l) /\ ~Failed(r)
  <2>1. BinaryWalk(op, l, r) = AsWalked(Binop(op, l.value, r.value), l.nodes + r.nodes + 1)
    BY <1>3 DEF BinaryWalk
  <2> QED
    BY <1>3, <2>1, Uses, OutcomesTell
<1> QED
  BY <1>1, <1>2, <1>3

\* AND and OR give an operand if that is a truth value.
LEMMA LogicalOf ==
  ASSUME NEW op \in Logical, NEW l, NEW r
  PROVE  /\ Failed(l) => Failed(BinaryWalk(op, l, r))
         /\ ~Failed(l) /\ l.value \in Truths /\ Settles(op, l.value) =>
              ~Failed(BinaryWalk(op, l, r)) /\ BinaryWalk(op, l, r).value = l.value
         /\ ~Failed(l) /\ ~Settles(op, l.value) =>
              /\ Failed(BinaryWalk(op, l, r)) <=> Failed(r)
              /\ ~Failed(r) /\ r.value \in Truths => BinaryWalk(op, l, r).value = r.value
<1>1. CASE Failed(l)
  <2>1. BinaryWalk(op, l, r) = Walked(Void, l.nodes + 1, l.error)
    BY <1>1 DEF BinaryWalk
  <2> QED
    BY <1>1, <2>1 DEF Walked, Failed
<1>2. CASE ~Failed(l) /\ Settles(op, l.value)
  <2>1. BinaryWalk(op, l, r) = Walked(Bool(op = "OR"), l.nodes + 1, "NONE")
    BY <1>2 DEF BinaryWalk
  <2>2. ASSUME l.value \in Truths PROVE l.value = Bool(op = "OR")
    <3>1. /\ IsTrue(Bool(TRUE)) /\ ~IsTrue(Bool(FALSE))
      BY DEF IsTrue, BoolVal, Bool, Value
    <3>2. l.value = Bool(TRUE) \/ l.value = Bool(FALSE)
      BY <2>2 DEF Truths
    <3>3. op = "AND" \/ op = "OR"
      BY DEF Logical
    <3>4. Bool(TRUE) = Value("BOOL", 1) /\ Bool(FALSE) = Value("BOOL", 0)
          /\ (op = "OR" => Bool(op = "OR") = Value("BOOL", 1))
          /\ (op = "AND" => Bool(op = "OR") = Value("BOOL", 0))
      BY DEF Bool
    <3> QED
      BY <1>2, <3>1, <3>2, <3>3, <3>4 DEF Settles
  <2> QED
    BY <1>2, <2>1, <2>2 DEF Walked, Failed
<1>3. CASE ~Failed(l) /\ ~Settles(op, l.value)
  <2>1. CASE Failed(r)
    <3>1. BinaryWalk(op, l, r) = Walked(Void, l.nodes + r.nodes + 1, r.error)
      BY <1>3, <2>1 DEF BinaryWalk
    <3> QED
      BY <1>3, <2>1, <3>1 DEF Walked, Failed
  <2>2. CASE ~Failed(r)
    <3>1. BinaryWalk(op, l, r) = Walked(Value("BOOL", BoolVal(r.value)), l.nodes + r.nodes + 1, "NONE")
      BY <1>3, <2>2 DEF BinaryWalk
    <3>2. r.value \in Truths => Value("BOOL", BoolVal(r.value)) = r.value
      BY DEF Truths, BoolVal, Bool, Value
    <3> QED
      BY <1>3, <2>2, <3>1, <3>2 DEF Walked, Failed
  <2> QED
    BY <2>1, <2>2
<1> QED
  BY <1>1, <1>2, <1>3

\* A comparison that can be made, and a negation, give truth values.
LEMMA TruthsOf ==
  /\ \A b : Bool(b) \in Truths
  /\ \A op \in Relational : \A a, b : Usable(Binop(op, a, b)) => Binop(op, a, b).value \in Truths
  /\ \A v : Usable(Unop("NOT", v)) => Unop("NOT", v).value \in Truths
<1>1. \A b : Bool(b) \in Truths
  <2>1. ASSUME NEW b PROVE Bool(b) \in Truths
    <3>1. CASE b
      BY <3>1 DEF Truths, Bool
    <3>2. CASE ~b
      BY <3>2 DEF Truths, Bool
    <3> QED
      BY <3>1, <3>2
  <2> QED
    BY <2>1
<1>2. /\ \A s, b : Outcome(s, Bool(b)).value \in Truths
      /\ ~Usable(Fails("TYPE_ERROR")) /\ ~Usable(Fails("DIV_ZERO"))
  BY <1>1 DEF Outcome, Fails, Usable
<1>3. ASSUME NEW op \in Relational, NEW a, NEW b, Usable(Binop(op, a, b))
      PROVE  Binop(op, a, b).value \in Truths
  <2>1. op # "DIV" /\ op # "SUB" /\ op # "ADD"
    BY DEF Relational
  <2>2. \A x, y : Usable(Strings(op, x, y)) => Strings(op, x, y).value \in Truths
    BY <1>2 DEF Strings
  <2>3. \A x, y : Usable(Booleans(op, x, y)) => Booleans(op, x, y).value \in Truths
    BY <1>2 DEF Booleans
  <2>4. \A x, y : Numbers(op, x, y).value \in Truths
    BY <1>2 DEF Numbers
  <2>5. \A x, y : Usable(Dates(op, x, y)) => Dates(op, x, y).value \in Truths
    BY <1>2, <2>1 DEF Dates
  <2> QED
    BY <1>2, <1>3, <2>1, <2>2, <2>3, <2>4, <2>5 DEF Binop
<1>4. ASSUME NEW v, Usable(Unop("NOT", v)) PROVE Unop("NOT", v).value \in Truths
  BY <1>2, <1>4 DEF Unop
<1> QED
  BY <1>1, <1>3, <1>4

\* What is folded is the value the tree walk comes to.
LEMMA FoldTells ==
  \A e \in Exprs : \A d \in 0 .. MaxExprDepth :
    Shallow[e][d] /\ Fold[e].status = "OK" =>
      ~Failed(Evaluated[e][d]) /\ Evaluated[e][d].value = Fold[e].value
<1> DEFINE S == {e \in Exprs : \A d \in 0 .. MaxExprDepth :
                   Shallow[e][d] /\ Fold[e].status = "OK" =>
                     ~Failed(Evaluated[e][d]) /\ Evaluated[e][d].value = Fold[e].value}
<1>1. ASSUME NEW e \in Exprs, PartsOf(e) \subseteq S, NEW d \in 0 .. MaxExprDepth,
             Shallow[e][d], Fold[e].status = "OK"
      PROVE  ~Failed(Evaluated[e][d]) /\ Evaluated[e][d].value = Fold[e].value
  <2>1. d # MaxExprDepth /\ d + 1 \in 0 .. MaxExprDepth
    BY <1>1, ShallowParts
  <2>2. Fold[e] = FoldFrom(Fold, e) /\ NotConstant.status # "OK"
    BY FoldUnfolds DEF NotConstant, Fails, Outcome
  <2>3. CASE e.kind = "literal"
    <3>1. Evaluated[e][d] = Walked(e.value, 1, "NONE")
      BY <2>1, <2>3, Walking
    <3>2. Fold[e] = Outcome("OK", e.value)
      BY <2>2, <2>3 DEF FoldFrom
    <3> QED
      BY <3>1, <3>2 DEF Walked, Failed, Outcome
  <2>4. CASE e.kind = "unary"
    <3> DEFINE w == Evaluated[e.arg][d + 1]
    <3>1. Evaluated[e][d] = UnaryWalk(e.op, w)
      BY <2>1, <2>4, Walking
    <3>2. Fold[e.arg].status = "OK" /\ Fold[e] = Unop(e.op, Fold[e.arg].value)
      BY <1>1, <2>2, <2>4 DEF FoldFrom
    <3>3. ~Failed(w) /\ w.value = Fold[e.arg].value
      BY <1>1, <2>1, <2>4, <3>2, ShallowParts, PartsOfKinds
    <3> HIDE DEF w
    <3>4. Usable(Unop(e.op, w.value))
      BY <1>1, <3>2, <3>3 DEF Usable
    <3> QED
      BY <3>1, <3>2, <3>3, <3>4, UnaryOf
  <2>5. CASE e.kind = "binary"
    <3> DEFINE l == Evaluated[e.left][d + 1]
               r == Evaluated[e.right][d + 1]
    <3>1. Evaluated[e][d] = BinaryWalk(e.op, l, r)
      BY <2>1, <2>5, Walking
    <3>2. /\ e.op \notin Logical /\ Fold[e.left].status = "OK" /\ Fold[e.right].status = "OK"
          /\ Fold[e] = Binop(e.op, Fold[e.left].value, Fold[e.right].value)
      BY <1>1, <2>2, <2>5 DEF FoldFrom
    <3>3. ~Failed(l) /\ l.value = Fold[e.left].value /\ ~Failed(r) /\ r.value = Fold[e.right].value
      BY <1>1, <2>1, <2>5, <3>2, ShallowParts, PartsOfKinds
    <3> HIDE DEF l, r
    <3>4. Usable(Binop(e.op, l.value, r.value))
      BY <1>1, <3>2, <3>3 DEF Usable
    <3> QED
      BY <3>1, <3>2, <3>3, <3>4, BinaryOf
  <2>6. e.kind \in {"literal", "unary", "binary"}
    BY <1>1, <2>2 DEF FoldFrom
  <2> QED
    BY <2>3, <2>4, <2>5, <2>6
<1>2. \A e \in Exprs : PartsOf(e) \subseteq S => e \in S
  BY <1>1
<1>3. Exprs \subseteq S
  <2> HIDE DEF S
  <2> QED
    BY <1>2, Structural
<1> QED
  BY <1>3

\* What gives a truth value does so.
LEMMA GivesTruth ==
  \A e \in Exprs : \A d \in 0 .. MaxExprDepth :
    Shallow[e][d] /\ GivesBool[e] /\ ~Failed(Evaluated[e][d]) => Evaluated[e][d].value \in Truths
<1> DEFINE S == {e \in Exprs : \A d \in 0 .. MaxExprDepth :
                   Shallow[e][d] /\ GivesBool[e] /\ ~Failed(Evaluated[e][d]) =>
                     Evaluated[e][d].value \in Truths}
<1>1. ASSUME NEW e \in Exprs, PartsOf(e) \subseteq S, NEW d \in 0 .. MaxExprDepth,
             Shallow[e][d], GivesBool[e], ~Failed(Evaluated[e][d])
      PROVE  Evaluated[e][d].value \in Truths
  <2>1. d # MaxExprDepth /\ d + 1 \in 0 .. MaxExprDepth
    BY <1>1, ShallowParts
  <2>2. GivesBoolFrom(GivesBool, e)
    BY <1>1, GivesBoolUnfolds
  <2>3. CASE e.kind = "literal"
    <3>1. Evaluated[e][d] = Walked(e.value, 1, "NONE") /\ e.value \in Truths
      BY <2>1, <2>2, <2>3, Walking DEF GivesBoolFrom
    <3> QED
      BY <3>1 DEF Walked
  <2>4. CASE e.kind = "id"
    <3>1. Evaluated[e][d] = Walked(Lookup(e.name), 1, "NONE") /\ Lookup(e.name) \in Truths
      BY <2>1, <2>2, <2>4, Walking DEF GivesBoolFrom
    <3> QED
      BY <3>1 DEF Walked
  <2>5. CASE e.kind = "unary"
    <3> DEFINE w == Evaluated[e.arg][d + 1]
    <3>1. Evaluated[e][d] = UnaryWalk("NOT", w)
      BY <2>1, <2>2, <2>5, Walking DEF GivesBoolFrom
    <3> HIDE DEF w
    <3> QED
      BY <1>1, <3>1, UnaryOf, TruthsOf
  <2>6. CASE e.kind = "binary"
    <3> DEFINE l == Evaluated[e.left][d + 1]
               r == Evaluated[e.right][d + 1]
    <3>1. Evaluated[e][d] = BinaryWalk(e.op, l, r)
      BY <2>1, <2>6, Walking
    <3>2. CASE e.op \in Relational
      <4>1. e.op \notin Logical
        BY <3>2, Operators
      <4> HIDE DEF l, r
      <4> QED
        BY <1>1, <3>1, <3>2, <4>1, BinaryOf, TruthsOf
    <3>3. CASE e.op \notin Relational
      <4>1. e.op \in Logical /\ GivesBool[e.left] /\ GivesBool[e.right]
        BY <2>2, <2>6, <3>3 DEF GivesBoolFrom
      <4>2. (~Failed(l) => l.value \in Truths) /\ (~Failed(r) => r.value \in Truths)
        BY <1>1, <2>1, <2>6, <4>1, ShallowParts, PartsOfKinds
      <4> HIDE DEF l, r
      <4> QED
        BY <1>1, <3>1, <4>1, <4>2, LogicalOf
    <3> QED
      BY <3>2, <3>3
  <2>7. e.kind \in {"literal", "id", "unary", "binary"}
    BY <2>2 DEF GivesBoolFrom
  <2> QED
    BY <2>3, <2>4, <2>5, <2>6, <2>7
<1>2. \A e \in Exprs : PartsOf(e) \subseteq S => e \in S
  BY <1>1
<1>3. Exprs \subseteq S
  <2> HIDE DEF S
  <2> QED
    BY <1>2, Structural
<1> QED
  BY <1>3

\* Several walks have failed if one of them has.
LEMMA FailsOfMany ==
  ASSUME NEW n \in Nat, NEW walks, DOMAIN walks = 1 .. n
  PROVE  LastError(walks) = "NONE" <=> \A i \in 1 .. n : ~Failed(walks[i])
<1> DEFINE failed == {i \in DOMAIN walks : Failed(walks[i])}
<1>1. LastError(walks) = IF failed = {} THEN "NONE" ELSE walks[Max(failed)].error
  BY DEF LastError
<1>2. failed # {} => Max(failed) \in failed
  <2>1. failed \subseteq Nat /\ failed \subseteq 1 .. n /\ \A s \in failed : s <= n
    OBVIOUS
  <2> HIDE DEF failed
  <2> QED
    BY <2>1, Greatest
<1>3. failed # {} => walks[Max(failed)].error # "NONE"
  <2>1. \A i \in failed : walks[i].error # "NONE"
    BY DEF Failed
  <2> HIDE DEF failed
  <2> QED
    BY <1>2, <2>1
<1>4. failed = {} <=> \A i \in 1 .. n : ~Failed(walks[i])
  OBVIOUS
<1> HIDE DEF failed
<1> QED
  BY <1>1, <1>3, <1>4

(***************************************************************************)
(* The code of an expression leaves its value on the stack, or fails when  *)
(* the tree walk fails.                                                    *)
(***************************************************************************)
Yields(z, p, n, s, rs, ts, w) ==
  IF Failed(w) THEN Aborts(z, Ready(p, s, rs, ts))
  ELSE Goes(z, Ready(p, s, rs, ts), Ready(p + n, Append(s, w.value), rs, ts))

\* It can be executed on a stack that is empty if the code may clear it.
Fit(e, s, bare, d) ==
  /\ Clean[e][bare] /\ Typed[e] /\ Shallow[e][d] /\ Plain[e]
  /\ IsStack(s) /\ (bare => s = <<>>) /\ Len(s) + StackUsed[e] <= MaxStack

Compiled(e) ==
  \A z \in Seq(Insts), bare \in BOOLEAN, d \in 0 .. MaxExprDepth : \A p, s, rs, ts :
    Sits(z, p, Code[e]) /\ Fit(e, s, bare, d) =>
      Yields(z, p, Len(Code[e]), s, rs, ts, Evaluated[e][d])

\* There is room for a value where an expression fits.
LEMMA RoomToPush ==
  ASSUME NEW e \in Exprs, NEW s, NEW bare, NEW d, Fit(e, s, bare, d)
  PROVE  IsStack(s) /\ Len(s) \in Nat /\ ~(Len(s) >= MaxStack)
<1>1. IsStack(s) /\ Len(s) + StackUsed[e] <= MaxStack
  BY DEF Fit
<1>2. Len(s) \in Nat /\ StackUsed[e] \in Nat \ {0}
  BY <1>1, PutOn, StackUsedPositive
<1> QED
  BY <1>1, <1>2, MaxStackAssumption

\* A constant expression is compiled to one push of its value.
LEMMA FoldedRuns ==
  ASSUME NEW e \in Exprs, Fold[e].status = "OK"
  PROVE  Compiled(e)
<1> SUFFICES ASSUME NEW z \in Seq(Insts), NEW p, NEW s, NEW bare \in BOOLEAN,
                    NEW d \in 0 .. MaxExprDepth, NEW rs, NEW ts,
                    Sits(z, p, Code[e]), Fit(e, s, bare, d)
             PROVE  Yields(z, p, Len(Code[e]), s, rs, ts, Evaluated[e][d])
  BY DEF Compiled
<1>1. Code[e] = <<Push(Fold[e].value)>>
  BY CodeUnfolds DEF CodeFrom
<1>2. ~Failed(Evaluated[e][d]) /\ Evaluated[e][d].value = Fold[e].value
  BY FoldTells DEF Fit
<1>3. Len(Code[e]) = 1
  BY <1>1
<1>4. Sits(z, p, <<Push(Fold[e].value)>>) /\ ~(Len(s) >= MaxStack)
  BY <1>1, RoomToPush
<1>5. Goes(z, Ready(p, s, rs, ts), Ready(p + 1, Append(s, Fold[e].value), rs, ts))
  BY <1>4, PushRuns
<1> QED
  BY <1>2, <1>3, <1>5 DEF Yields

\* A name is compiled to a push of the variable.
LEMMA NamesRun ==
  ASSUME NEW e \in Exprs, Fold[e].status # "OK", e.kind = "id"
  PROVE  Compiled(e)
<1> SUFFICES ASSUME NEW z \in Seq(Insts), NEW p, NEW s, NEW bare \in BOOLEAN,
                    NEW d \in 0 .. MaxExprDepth, NEW rs, NEW ts,
                    Sits(z, p, Code[e]), Fit(e, s, bare, d)
             PROVE  Yields(z, p, Len(Code[e]), s, rs, ts, Evaluated[e][d])
  BY DEF Compiled
<1>1. Code[e] = <<PushVar(e.name)>>
  BY CodeUnfolds DEF CodeFrom
<1>2. d # MaxExprDepth
  BY ShallowParts DEF Fit
<1>3. Evaluated[e][d] = Walked(Lookup(e.name), 1, "NONE")
  BY <1>2, Walking
<1>4. Sits(z, p, <<PushVar(e.name)>>) /\ ~(Len(s) >= MaxStack)
  BY <1>1, RoomToPush
<1>5. Goes(z, Ready(p, s, rs, ts), Ready(p + 1, Append(s, Lookup(e.name)), rs, ts))
  BY <1>4, NameRuns
<1>6. Len(Code[e]) = 1
  BY <1>1
<1> QED
  BY <1>3, <1>5, <1>6 DEF Yields, Walked, Failed

\* The last instruction of a piece of code.
LEMMA SitsLast ==
  ASSUME NEW z \in Seq(Insts), NEW p, NEW c \in Seq(Insts), NEW x \in Insts, Sits(z, p, Append(c, x))
  PROVE  /\ Sits(z, p, c) /\ Sits(z, p + Len(c), <<x>>)
         /\ p + Len(Append(c, x)) = p + Len(c) + 1
         /\ p \in Nat \ {0} /\ p + Len(c) \in Nat \ {0}
<1>1. Append(c, x) = c \o <<x>> /\ <<x>> \in Seq(Insts) /\ Len(<<x>>) = 1
  BY AppendIsConcat
<1> DEFINE y == <<x>>
<1> HIDE DEF y
<1>2. Append(c, x) = c \o y /\ y \in Seq(Insts) /\ Len(y) = 1
  BY <1>1 DEF y
<1>3. Sits(z, p, c \o y)
  BY <1>2
<1>4. /\ Sits(z, p, c) /\ Sits(z, p + Len(c), y)
      /\ p + Len(c \o y) = p + Len(c) + Len(y)
      /\ p \in Nat \ {0} /\ p + Len(c) \in Nat \ {0}
  BY <1>2, <1>3, SitsBoth
<1> QED
  BY <1>2, <1>4 DEF y

\* A unary operator follows its operand.
LEMMA UnaryRuns ==
  ASSUME NEW e \in Exprs, Fold[e].status # "OK", e.kind = "unary", Compiled(e.arg)
  PROVE  Compiled(e)
<1> SUFFICES ASSUME NEW z \in Seq(Insts), NEW p, NEW s, NEW bare \in BOOLEAN,
                    NEW d \in 0 .. MaxExprDepth, NEW rs, NEW ts,
                    Sits(z, p, Code[e]), Fit(e, s, bare, d)
             PROVE  Yields(z, p, Len(Code[e]), s, rs, ts, Evaluated[e][d])
  BY DEF Compiled
<1> DEFINE c == Code[e.arg]
           w == Evaluated[e.arg][d + 1]
           v == w.value
           q == p + Len(c)
           u == Append(s, v)
<1>1. e.arg \in Exprs /\ e.op \in {"NOT", "NEG"}
  BY ExprsAssumption DEF IsExpr
<1>2. Code[e] = Append(c, Operate(e.op)) /\ c \in Seq(Insts) /\ Operate(e.op) \in Insts
  BY <1>1, CodeUnfolds, InstsAreInsts DEF CodeFrom
<1>3. d # MaxExprDepth /\ d + 1 \in 0 .. MaxExprDepth /\ Shallow[e.arg][d + 1]
  BY ShallowParts DEF Fit
<1>4. Evaluated[e][d] = UnaryWalk(e.op, w)
  BY <1>3, Walking
<1>5. Fit(e.arg, s, bare, d + 1)
  <2>1. Clean[e.arg][bare]
    <3>1. CleanFrom(Clean, e)[bare]
      BY CleanUnfolds DEF Fit
    <3> QED
      BY <3>1 DEF CleanFrom
  <2>2. Typed[e.arg]
    BY TypedUnfolds DEF Fit, TypedFrom
  <2>3. Plain[e.arg]
    BY PlainUnfolds DEF Fit, PlainFrom
  <2>4. StackUsed[e] = StackUsed[e.arg]
    BY StackUsedUnfolds DEF StackUsedFrom
  <2> QED
    BY <1>3, <2>1, <2>2, <2>3, <2>4 DEF Fit
<1>6. IsStack(s) /\ Len(s) \in Nat /\ ~(Len(s) >= MaxStack)
  BY RoomToPush
<1>7. Sits(z, p, c) /\ Sits(z, q, <<Operate(e.op)>>) /\ p + Len(Code[e]) = q + 1
  <2> HIDE DEF c
  <2> QED
    BY <1>2, SitsLast
<1>8. IF Failed(w) THEN Aborts(z, Ready(p, s, rs, ts))
      ELSE Goes(z, Ready(p, s, rs, ts), Ready(q, u, rs, ts))
  <2>1. Yields(z, p, Len(c), s, rs, ts, w)
    <3> DEFINE k == d + 1
               x == e.arg
    <3>1. k \in 0 .. MaxExprDepth /\ Sits(z, p, Code[x]) /\ Fit(x, s, bare, k) /\ Compiled(x)
      BY <1>3, <1>5, <1>7
    <3> HIDE DEF k, x
    <3>2. Yields(z, p, Len(Code[x]), s, rs, ts, Evaluated[x][k])
      BY <3>1 DEF Compiled
    <3> QED
      BY <3>2 DEF k, x
  <2> QED
    BY <2>1 DEF Yields
<1> HIDE DEF c, w, v, q
<1>9. Operation(e.op, u) = Unop(e.op, v) /\ Operands(e.op) = 1
      /\ Len(u) >= Operands(e.op) /\ Below(u, Operands(e.op)) = s
  <2>1. Operands(e.op) = 1 /\ Top(u) = v /\ Below(u, 1) = s /\ Len(u) = Len(s) + 1
    BY <1>1, <1>6, OnTop, PutOn DEF Operands
  <2> HIDE DEF u
  <2> QED
    BY <1>6, <2>1 DEF Operation
<1> HIDE DEF u
<1>10. IF Usable(Unop(e.op, v))
        THEN Goes(z, Ready(q, u, rs, ts), Ready(q + 1, Append(s, Unop(e.op, v).value), rs, ts))
        ELSE Aborts(z, Ready(q, u, rs, ts))
  BY <1>6, <1>7, <1>9, OperateRuns
<1>11. CASE Failed(w)
  BY <1>4, <1>8, <1>11, UnaryOf DEF Yields
<1>12. CASE ~Failed(w) /\ Usable(Unop(e.op, v))
  <2>1. ~Failed(Evaluated[e][d]) /\ Evaluated[e][d].value = Unop(e.op, v).value
    BY <1>4, <1>12, UnaryOf DEF v
  <2>2. Goes(z, Ready(p, s, rs, ts), Ready(q + 1, Append(s, Unop(e.op, v).value), rs, ts))
    BY <1>8, <1>10, <1>12, Onwards
  <2> QED
    BY <1>7, <2>1, <2>2 DEF Yields
<1>13. CASE ~Failed(w) /\ ~Usable(Unop(e.op, v))
  <2>1. Failed(Evaluated[e][d])
    BY <1>4, <1>13, UnaryOf DEF v
  <2>2. Aborts(z, Ready(p, s, rs, ts))
    BY <1>8, <1>10, <1>13, FailsLater
  <2> QED
    BY <2>1, <2>2 DEF Yields
<1> QED
  BY <1>11, <1>12, <1>13

\* What Compiled says of code that sits at some place.
LEMMA Executed ==
  ASSUME NEW e, Compiled(e), NEW z \in Seq(Insts), NEW p, NEW s, NEW bare \in BOOLEAN,
         NEW d \in 0 .. MaxExprDepth, NEW rs, NEW ts, Sits(z, p, Code[e]), Fit(e, s, bare, d)
  PROVE  Yields(z, p, Len(Code[e]), s, rs, ts, Evaluated[e][d])
  BY DEF Compiled

\* A binary operator follows its operands.
LEMMA BinaryRuns ==
  ASSUME NEW e \in Exprs, Fold[e].status # "OK", e.kind = "binary", e.op \notin Logical,
         Compiled(e.left), Compiled(e.right)
  PROVE  Compiled(e)
<1> SUFFICES ASSUME NEW z \in Seq(Insts), NEW p, NEW s, NEW bare \in BOOLEAN,
                    NEW d \in 0 .. MaxExprDepth, NEW rs, NEW ts,
                    Sits(z, p, Code[e]), Fit(e, s, bare, d)
             PROVE  Yields(z, p, Len(Code[e]), s, rs, ts, Evaluated[e][d])
  BY DEF Compiled
<1> DEFINE x == e.left
           y == e.right
           a == Code[x]
           b == Code[y]
           k == d + 1
           l == Evaluated[x][k]
           r == Evaluated[y][k]
           i == p + Len(a)
           j == i + Len(b)
           t == Append(s, l.value)
           u == Append(t, r.value)
           o == Binop(e.op, l.value, r.value)
<1>1. x \in Exprs /\ y \in Exprs /\ Operands(e.op) = 2
  BY ExprsAssumption DEF IsExpr, Operands, Arithmetic, Relational, Logical
<1>2. /\ Code[e] = (a \o b) \o <<Operate(e.op)>> /\ a \in Seq(Insts) /\ b \in Seq(Insts)
      /\ Operate(e.op) \in Insts
  BY <1>1, CodeUnfolds, InstsAreInsts DEF CodeFrom
<1>3. d # MaxExprDepth /\ k \in 0 .. MaxExprDepth /\ Shallow[x][k] /\ Shallow[y][k]
  BY ShallowParts DEF Fit
<1>4. Evaluated[e][d] = BinaryWalk(e.op, l, r)
  BY <1>3, Walking
<1>5. IsStack(s) /\ Len(s) \in Nat /\ ~(Len(s) >= MaxStack)
  BY RoomToPush
<1>6. /\ Clean[x][bare] /\ Clean[y][FALSE] /\ Typed[x] /\ Typed[y] /\ Plain[x] /\ Plain[y]
  <2>1. CleanFrom(Clean, e)[bare]
    BY CleanUnfolds DEF Fit
  <2>2. TypedFrom(Typed, e)
    BY TypedUnfolds DEF Fit
  <2>3. PlainFrom(Plain, e)
    BY PlainUnfolds DEF Fit
  <2> QED
    BY <2>1, <2>2, <2>3 DEF CleanFrom, TypedFrom, PlainFrom
<1>7. /\ StackUsed[x] \in Nat /\ StackUsed[y] \in Nat
      /\ Len(s) + StackUsed[x] <= MaxStack /\ (Len(s) + 1) + StackUsed[y] <= MaxStack
  <2>1. StackUsed[x] \in Nat /\ StackUsed[y] \in Nat
    BY <1>1, StackUsedUnfolds
  <2>2. StackUsed[e] = Max({StackUsed[x], StackUsed[y] + 1})
    BY StackUsedUnfolds DEF StackUsedFrom
  <2> DEFINE g == StackUsed[x]
             h == StackUsed[y] + 1
  <2>3. g \in Nat /\ h \in Nat /\ StackUsed[e] = Max({g, h})
    BY <2>1, <2>2
  <2> HIDE DEF g, h
  <2>4. Max({g, h}) \in Nat /\ g <= Max({g, h}) /\ h <= Max({g, h})
    BY <2>3, Greater
  <2>5. StackUsed[e] \in Nat /\ StackUsed[x] <= StackUsed[e] /\ StackUsed[y] + 1 <= StackUsed[e]
    BY <2>3, <2>4 DEF g, h
  <2>6. Len(s) + StackUsed[e] <= MaxStack
    BY DEF Fit
  <2> QED
    BY <1>5, <2>1, <2>5, <2>6, MaxStackAssumption
<1> HIDE DEF x, y, k
<1>8. Fit(x, s, bare, k)
  BY <1>3, <1>5, <1>6, <1>7 DEF Fit
<1>9. IsStack(t) /\ Len(t) = Len(s) + 1
  BY <1>5, PutOn
<1>10. Fit(y, t, FALSE, k)
  BY <1>3, <1>6, <1>7, <1>9 DEF Fit
<1>11. /\ Sits(z, p, a) /\ Sits(z, i, b) /\ Sits(z, j, <<Operate(e.op)>>)
       /\ p + Len(Code[e]) = j + 1
  <2> DEFINE m == <<Operate(e.op)>>
             ab == a \o b
  <2>1. m \in Seq(Insts) /\ Len(m) = 1 /\ ab \in Seq(Insts) /\ Code[e] = ab \o m
    BY <1>2
  <2> HIDE DEF m, ab, a, b
  <2>2. Sits(z, p, ab) /\ Sits(z, p + Len(ab), m) /\ p + Len(ab \o m) = p + Len(ab) + Len(m)
    <3>1. Sits(z, p, ab \o m)
      BY <2>1
    <3>2. z \in Seq(Insts) /\ ab \in Seq(Insts) /\ m \in Seq(Insts)
      BY <2>1
    <3>3. Sits(z, p, ab)
      BY <3>1, <3>2, SitsBoth
    <3>4. Sits(z, p + Len(ab), m)
      BY <3>1, <3>2, SitsBoth
    <3>5. p + Len(ab \o m) = p + Len(ab) + Len(m)
      BY <3>1, <3>2, SitsBoth
    <3> QED
      BY <3>3, <3>4, <3>5
  <2>3. Sits(z, p, a) /\ Sits(z, p + Len(a), b) /\ p + Len(ab) = p + Len(a) + Len(b)
    BY <1>2, <2>2, SitsBoth DEF ab
  <2> QED
    BY <2>1, <2>2, <2>3 DEF m
<1>12. Yields(z, p, Len(a), s, rs, ts, l)
  BY <1>3, <1>8, <1>11, Executed DEF x
<1>13. Yields(z, i, Len(b), t, rs, ts, r)
  BY <1>3, <1>10, <1>11, Executed DEF y
<1> HIDE DEF a, b, l, r, i, j
<1>14. Top(u) = r.value /\ Below(u, 1) = t /\ Below(u, 2) = s /\ Len(u) = Len(s) + 2
  <2>1. /\ Top(u) = r.value /\ Below(u, 1) = t /\ Len(u) = Len(t) + 1
        /\ \A n \in Nat : n <= Len(t) => Below(u, 1 + n) = Below(t, n)
    <3>1. u = Append(t, r.value)
      OBVIOUS
    <3> HIDE DEF t, u
    <3>2. /\ Top(Append(t, r.value)) = r.value /\ Below(Append(t, r.value), 1) = t
          /\ \A n \in Nat : n <= Len(t) => Below(Append(t, r.value), 1 + n) = Below(t, n)
      BY <1>9, OnTop
    <3>3. Len(Append(t, r.value)) = Len(t) + 1
      BY <1>9, PutOn
    <3> QED
      BY <3>1, <3>2, <3>3
  <2>2. Below(t, 1) = s
    BY <1>5, OnTop
  <2>3. Below(u, 1 + 1) = Below(t, 1)
    BY <1>5, <1>9, <2>1
  <2> QED
    BY <1>5, <1>9, <2>1, <2>2, <2>3
<1>15. Top(t) = l.value
  BY <1>5, OnTop
<1> HIDE DEF u, t
<1>16. Operation(e.op, u) = o
  BY <1>1, <1>14, <1>15 DEF Operation
<1> HIDE DEF o
<1>17. IF Usable(o)
        THEN Goes(z, Ready(j, u, rs, ts), Ready(j + 1, Append(s, o.value), rs, ts))
        ELSE Aborts(z, Ready(j, u, rs, ts))
  <2>1. Len(u) >= Operands(e.op) /\ ~(Len(Below(u, Operands(e.op))) >= MaxStack)
    BY <1>1, <1>5, <1>14
  <2> QED
    BY <1>1, <1>11, <1>14, <1>16, <2>1, OperateRuns
<1>18. CASE Failed(l)
  BY <1>4, <1>12, <1>18, BinaryOf DEF Yields
<1>19. CASE ~Failed(l)
  <2>1. Goes(z, Ready(p, s, rs, ts), Ready(i, t, rs, ts))
    BY <1>12, <1>19 DEF Yields, i, t
  <2>2. CASE Failed(r)
    <3>1. Aborts(z, Ready(p, s, rs, ts))
      BY <1>13, <2>1, <2>2, FailsLater DEF Yields
    <3> QED
      BY <1>4, <2>2, <3>1, BinaryOf DEF Yields
  <2>3. CASE ~Failed(r)
    <3>1. Goes(z, Ready(i, t, rs, ts), Ready(j, u, rs, ts))
      BY <1>13, <2>3 DEF Yields, j, u
    <3>2. Goes(z, Ready(p, s, rs, ts), Ready(j, u, rs, ts))
      BY <2>1, <3>1, Onwards
    <3>3. CASE Usable(o)
      <4>1. ~Failed(Evaluated[e][d]) /\ Evaluated[e][d].value = o.value
        BY <1>4, <1>19, <2>3, <3>3, BinaryOf DEF o
      <4>2. Goes(z, Ready(p, s, rs, ts), Ready(j + 1, Append(s, o.value), rs, ts))
        BY <1>17, <3>2, <3>3, Onwards
      <4> QED
        BY <1>11, <4>1, <4>2 DEF Yields
    <3>4. CASE ~Usable(o)
      <4>1. Failed(Evaluated[e][d])
        BY <1>4, <1>19, <2>3, <3>4, BinaryOf DEF o
      <4>2. Aborts(z, Ready(p, s, rs, ts))
        BY <1>17, <3>2, <3>4, FailsLater
      <4> QED
        BY <4>1, <4>2 DEF Yields
    <3> QED
      BY <3>3, <3>4
  <2> QED
    BY <2>2, <2>3
<1> QED
  BY <1>18, <1>19

\* AND and OR jump over their right operand when the left one decides.
LEMMA LogicalRuns ==
  ASSUME NEW e \in Exprs, Fold[e].status # "OK", e.kind = "binary", e.op \in Logical,
         Compiled(e.left), Compiled(e.right)
  PROVE  Compiled(e)
<1> SUFFICES ASSUME NEW z \in Seq(Insts), NEW p, NEW s, NEW bare \in BOOLEAN,
                    NEW d \in 0 .. MaxExprDepth, NEW rs, NEW ts,
                    Sits(z, p, Code[e]), Fit(e, s, bare, d)
             PROVE  Yields(z, p, Len(Code[e]), s, rs, ts, Evaluated[e][d])
  BY DEF Compiled
<1> DEFINE x == e.left
           y == e.right
           a == Code[x]
           b == Code[y]
           k == d + 1
           l == Evaluated[x][k]
           r == Evaluated[y][k]
           i == p + Len(a)
           j == JumpIf(e.op = "OR", Len(b) + 2)
           n == Len(b)
<1>1. x \in Exprs /\ y \in Exprs
  BY ExprsAssumption DEF IsExpr
<1>2. /\ Code[e] = (a \o <<j, PopTop>>) \o b /\ a \in Seq(Insts) /\ b \in Seq(Insts)
      /\ j \in Insts /\ PopTop \in Insts /\ n \in Nat
  <2>1. a \in Seq(Insts) /\ b \in Seq(Insts) /\ n \in Nat /\ n + 2 \in Nat \ {0}
    BY <1>1, CodeUnfolds, LenProperties
  <2>2. (e.op = "OR") \in BOOLEAN
    OBVIOUS
  <2>3. j \in Insts /\ PopTop \in Insts
    BY <2>1, <2>2, InstsAreInsts
  <2>4. Code[e] = ShortCircuit(e.op, a, b)
    BY CodeUnfolds DEF CodeFrom
  <2> QED
    BY <2>1, <2>3, <2>4 DEF ShortCircuit
<1>3. d # MaxExprDepth /\ k \in 0 .. MaxExprDepth /\ Shallow[x][k] /\ Shallow[y][k]
  BY ShallowParts DEF Fit
<1>4. Evaluated[e][d] = BinaryWalk(e.op, l, r)
  BY <1>3, Walking
<1>5. IsStack(s) /\ Len(s) \in Nat /\ ~(Len(s) >= MaxStack)
  BY RoomToPush
<1>6. /\ bare = TRUE /\ Clean[x][TRUE] /\ Clean[y][TRUE] /\ Typed[x] /\ Typed[y] /\ Plain[x] /\ Plain[y]
      /\ GivesBool[x] /\ GivesBool[y]
  <2>1. CleanFrom(Clean, e)[bare]
    BY CleanUnfolds DEF Fit
  <2>2. TypedFrom(Typed, e)
    BY TypedUnfolds DEF Fit
  <2>3. PlainFrom(Plain, e)
    BY PlainUnfolds DEF Fit
  <2> QED
    BY <2>1, <2>2, <2>3 DEF CleanFrom, TypedFrom, PlainFrom
<1>7. s = <<>>
  BY <1>6 DEF Fit
<1>8. /\ Len(s) + StackUsed[x] <= MaxStack /\ Len(s) + StackUsed[y] <= MaxStack
  <2>1. StackUsed[x] \in Nat /\ StackUsed[y] \in Nat
    BY <1>1, StackUsedUnfolds
  <2>2. StackUsed[e] = Max({StackUsed[x], StackUsed[y] + 1})
    BY StackUsedUnfolds DEF StackUsedFrom
  <2> DEFINE g == StackUsed[x]
             h == StackUsed[y] + 1
  <2>3. g \in Nat /\ h \in Nat /\ StackUsed[e] = Max({g, h})
    BY <2>1, <2>2
  <2> HIDE DEF g, h
  <2>4. Max({g, h}) \in Nat /\ g <= Max({g, h}) /\ h <= Max({g, h})
    BY <2>3, Greater
  <2>5. StackUsed[e] \in Nat /\ StackUsed[x] <= StackUsed[e] /\ StackUsed[y] + 1 <= StackUsed[e]
    BY <2>3, <2>4 DEF g, h
  <2>6. Len(s) + StackUsed[e] <= MaxStack
    BY DEF Fit
  <2> QED
    BY <1>5, <2>1, <2>5, <2>6, MaxStackAssumption
<1> HIDE DEF x, y, k
<1>9. Fit(x, s, TRUE, k) /\ Fit(y, s, TRUE, k)
  BY <1>3, <1>5, <1>6, <1>7, <1>8 DEF Fit
<1> HIDE DEF j, n
<1>10. /\ Sits(z, p, a) /\ Sits(z, i, <<j>>) /\ Sits(z, i + 1, <<PopTop>>) /\ Sits(z, i + 2, b)
      /\ p + Len(Code[e]) = i + 2 + n /\ i \in Nat
  <2> DEFINE g == <<j>>
             h == <<PopTop>>
             gh == g \o h
             m == a \o gh
  <2>1. gh = <<j, PopTop>>
    BY OneAndOne
  <2>2. /\ g \in Seq(Insts) /\ h \in Seq(Insts) /\ gh \in Seq(Insts) /\ m \in Seq(Insts)
        /\ Len(g) = 1 /\ Len(h) = 1 /\ Code[e] = m \o b
    <3>1. g \in Seq(Insts) /\ h \in Seq(Insts) /\ Len(g) = 1 /\ Len(h) = 1
      BY <1>2
    <3>2. Code[e] = m \o b
      BY <1>2, <2>1
    <3> HIDE DEF g, h
    <3>3. gh \in Seq(Insts)
      BY <3>1, ConcatProperties
    <3> HIDE DEF gh
    <3>4. m \in Seq(Insts)
      BY <1>2, <3>3, ConcatProperties
    <3> QED
      BY <3>1, <3>2, <3>3, <3>4
  <2> HIDE DEF g, h, gh, m, a, b
  <2>3. Sits(z, p, m) /\ Sits(z, p + Len(m), b) /\ p + Len(m \o b) = p + Len(m) + Len(b)
    <3>1. Sits(z, p, m \o b)
      BY <2>2
    <3> QED
      BY <1>2, <2>2, <3>1, SitsBoth
  <2>4. /\ Sits(z, p, a) /\ Sits(z, p + Len(a), gh) /\ p + Len(m) = p + Len(a) + Len(gh)
        /\ p + Len(a) \in Nat \ {0}
    BY <1>2, <2>2, <2>3, SitsBoth DEF m
  <2>5. /\ Sits(z, i, g) /\ Sits(z, i + Len(g), h) /\ i + Len(gh) = i + Len(g) + Len(h)
    <3>1. Sits(z, i, gh)
      BY <2>4
    <3>2. Sits(z, i, g \o h)
      BY <3>1 DEF gh
    <3> HIDE DEF i
    <3>3. Sits(z, i, g) /\ Sits(z, i + Len(g), h) /\ i + Len(g \o h) = i + Len(g) + Len(h)
      <4>1. z \in Seq(Insts) /\ g \in Seq(Insts) /\ h \in Seq(Insts)
        BY <2>2
      <4>2. Sits(z, i, g)
        BY <3>2, <4>1, SitsBoth
      <4>3. Sits(z, i + Len(g), h)
        BY <3>2, <4>1, SitsBoth
      <4>4. i + Len(g \o h) = i + Len(g) + Len(h)
        BY <3>2, <4>1, SitsBoth
      <4> QED
        BY <4>2, <4>3, <4>4
    <3> QED
      BY <3>3 DEF gh
  <2>6. p + Len(m) = i + 2 /\ i \in Nat
    BY <2>2, <2>4, <2>5
  <2> QED
    BY <2>2, <2>3, <2>4, <2>5, <2>6 DEF n, g, h
<1>11. Yields(z, p, Len(a), s, rs, ts, l)
  BY <1>3, <1>9, <1>10, Executed DEF x
<1>12. Yields(z, i + 2, n, s, rs, ts, r)
  BY <1>3, <1>9, <1>10, Executed DEF y, n
<1>13. (~Failed(l) => l.value \in Truths) /\ (~Failed(r) => r.value \in Truths)
  BY <1>1, <1>3, <1>6, GivesTruth DEF x, y
<1> HIDE DEF a, b, l, r, i
<1>14. CASE Failed(l)
  BY <1>4, <1>11, <1>14, LogicalOf DEF Yields
<1>15. CASE ~Failed(l)
  <2> DEFINE v == l.value
             or == e.op = "OR"
  <2>1. Goes(z, Ready(p, s, rs, ts), Ready(i, Append(s, v), rs, ts))
    BY <1>11, <1>15 DEF Yields, i
  <2>2. Goes(z, Ready(i, Append(s, v), rs, ts),
             IF IsTrue(v) <=> or THEN Ready(i + (n + 2), Append(s, v), rs, ts)
             ELSE Ready(i + 1, s, rs, ts))
    <3> HIDE DEF v
    <3>1. or \in BOOLEAN /\ Sits(z, i, <<JumpIf(or, n + 2)>>)
      BY <1>10 DEF j, n, b
    <3> HIDE DEF or
    <3> QED
      BY <1>5, <3>1, BranchRuns
  <2>3. Settles(e.op, v) <=> (IsTrue(v) <=> or)
    BY DEF Settles, Logical
  <2>4. CASE Settles(e.op, v)
    <3>1. ~Failed(Evaluated[e][d]) /\ Evaluated[e][d].value = v
      BY <1>4, <1>13, <1>15, <2>4, LogicalOf
    <3>2. Goes(z, Ready(p, s, rs, ts), Ready(i + (n + 2), Append(s, v), rs, ts))
      BY <2>1, <2>2, <2>3, <2>4, Onwards
    <3>3. i + (n + 2) = p + Len(Code[e])
      BY <1>2, <1>10
    <3> QED
      BY <3>1, <3>2, <3>3 DEF Yields
  <2>5. CASE ~Settles(e.op, v)
    <3>1. Goes(z, Ready(p, s, rs, ts), Ready(i + 1, s, rs, ts))
      BY <2>1, <2>2, <2>3, <2>5, Onwards
    <3>2. Below(s, 1) = s
      BY <1>7 DEF Below
    <3>3. Goes(z, Ready(i + 1, s, rs, ts), Ready(i + 2, s, rs, ts))
      <4>1. Goes(z, Ready(i + 1, s, rs, ts), Ready((i + 1) + 1, Below(s, 1), rs, ts))
        BY <1>10, PopRuns
      <4>2. (i + 1) + 1 = i + 2
        BY <1>10
      <4> QED
        BY <3>2, <4>1, <4>2
    <3>4. Goes(z, Ready(p, s, rs, ts), Ready(i + 2, s, rs, ts))
      BY <3>1, <3>3, Onwards
    <3>5. CASE Failed(r)
      <4>1. Failed(Evaluated[e][d])
        BY <1>4, <1>15, <2>5, <3>5, LogicalOf
      <4>2. Aborts(z, Ready(p, s, rs, ts))
        BY <1>12, <3>4, <3>5, FailsLater DEF Yields
      <4> QED
        BY <4>1, <4>2 DEF Yields
    <3>6. CASE ~Failed(r)
      <4>1. ~Failed(Evaluated[e][d]) /\ Evaluated[e][d].value = r.value
        BY <1>4, <1>13, <1>15, <2>5, <3>6, LogicalOf
      <4>2. Goes(z, Ready(i + 2, s, rs, ts), Ready(i + 2 + n, Append(s, r.value), rs, ts))
        BY <1>12, <3>6 DEF Yields
      <4>3. Goes(z, Ready(p, s, rs, ts), Ready(i + 2 + n, Append(s, r.value), rs, ts))
        BY <3>4, <4>2, Onwards
      <4> QED
        BY <1>10, <4>1, <4>3 DEF Yields
    <3> QED
      BY <3>5, <3>6
  <2> QED
    BY <2>4, <2>5
<1> QED
  BY <1>14, <1>15

\* The places of the pieces.
Laid(z, p, q) ==
  \E f \in [0 .. Len(q) -> Nat \ {0}] :
    /\ f[0] = p /\ f[Len(q)] = p + Len(FlattenSeq(q))
    /\ \A i \in 1 .. Len(q) : Sits(z, f[i - 1], q[i]) /\ f[i] = f[i - 1] + Len(q[i])

\* The pieces of code that is put together sit one after the other.
LEMMA LaidOut ==
  ASSUME NEW z \in Seq(Insts), NEW p, NEW q \in Seq(Seq(Insts)), Sits(z, p, FlattenSeq(q))
  PROVE  Laid(z, p, q)
<1>1. \E f \in [0 .. Len(q) -> Nat \ {0}] :
        /\ f[0] = p /\ f[Len(q)] = p + Len(FlattenSeq(q))
        /\ \A i \in 1 .. Len(q) : Sits(z, f[i - 1], q[i]) /\ f[i] = f[i - 1] + Len(q[i])
  BY SitsAll
<1> QED
  BY <1>1 DEF Laid

CodesOf(q) == [i \in DOMAIN q |-> Code[q[i]]]
WalksOf(q, k) == [i \in DOMAIN q |-> Evaluated[q[i]][k]]

\* Each of several expressions fits on the values of those before it.
FitAll(q, s, bare, k) ==
  /\ IsStack(s) /\ (bare => s = <<>>)
  /\ \A i \in 1 .. Len(q) :
       /\ Compiled(q[i])
       /\ Clean[q[i]][bare /\ i = 1] /\ Typed[q[i]] /\ Shallow[q[i]][k] /\ Plain[q[i]]
       /\ Len(s) + (i - 1) + StackUsed[q[i]] <= MaxStack

\* Their values are on the stack, unless one has failed.
Leaves(z, p, n, s, rs, ts, walks) ==
  IF LastError(walks) # "NONE" THEN Aborts(z, Ready(p, s, rs, ts))
  ELSE Goes(z, Ready(p, s, rs, ts), Ready(p + n, s \o ValuesOf(walks), rs, ts))

\* A place behind the first a of a + j places is one of the j.
LEMMA PlaceBehind ==
  ASSUME NEW a \in Nat, NEW j \in Nat, NEW i \in 1 .. a + j, ~(i <= a)
  PROVE  i - a \in 1 .. j
  OBVIOUS

\* The codes of expressions, one after the other, leave all their values.
LEMMA AllRun ==
  ASSUME NEW q \in Seq(Exprs), NEW k \in 0 .. MaxExprDepth, NEW bare \in BOOLEAN, NEW s,
         FitAll(q, s, bare, k), NEW z \in Seq(Insts), NEW p, Sits(z, p, FlattenSeq(CodesOf(q))),
         NEW rs, NEW ts
  PROVE  /\ Leaves(z, p, Len(FlattenSeq(CodesOf(q))), s, rs, ts, WalksOf(q, k))
         /\ IsStack(ValuesOf(WalksOf(q, k))) /\ Len(ValuesOf(WalksOf(q, k))) = Len(q)
<1> DEFINE C == CodesOf(q)
           W == WalksOf(q, k)
<1>1. C = [i \in DOMAIN q |-> Code[q[i]]] /\ W = [i \in DOMAIN q |-> Evaluated[q[i]][k]]
  BY DEF CodesOf, WalksOf
<1>2. /\ IsStack(s) /\ (bare => s = <<>>) /\ \A i \in 1 .. Len(q) : Compiled(q[i])
      /\ \A i \in 1 .. Len(q) :
           /\ Clean[q[i]][bare /\ i = 1] /\ Typed[q[i]] /\ Shallow[q[i]][k] /\ Plain[q[i]]
           /\ Len(s) + (i - 1) + StackUsed[q[i]] <= MaxStack
  BY DEF FitAll
<1>3. Sits(z, p, FlattenSeq(C))
  OBVIOUS
<1> HIDE DEF C, W
<1> USE <1>2, <1>3
<1> DEFINE n == Len(q)
           V == {W[i].value : i \in 1 .. n}
           T(j) == [i \in 1 .. j |-> W[i].value]
           Begin == Ready(p, s, rs, ts)
<1>4. n \in Nat /\ DOMAIN q = 1 .. n /\ \A i \in 1 .. n : q[i] \in Exprs /\ Code[q[i]] \in Seq(Insts)
  <2>1. n \in Nat /\ DOMAIN q = 1 .. n /\ \A i \in 1 .. n : q[i] \in Exprs
    BY LenProperties
  <2> QED
    BY <2>1, CodeUnfolds
<1>5. /\ C \in Seq(Seq(Insts)) /\ Len(C) = n /\ \A i \in 1 .. n : C[i] = Code[q[i]]
      /\ DOMAIN W = 1 .. n /\ \A i \in 1 .. n : W[i] = Evaluated[q[i]][k]
  <2> DEFINE I == Seq(Insts)
  <2>1. DOMAIN C = 1 .. n /\ \A i \in 1 .. n : C[i] \in I
    BY <1>4, <1>1
  <2> HIDE DEF n, I
  <2>2. C = [i \in 1 .. n |-> C[i]]
    BY <1>1, <2>1
  <2>3. C \in [1 .. n -> I]
    BY <2>1, <2>2
  <2>4. C \in Seq(I) /\ Len(C) = n
    BY <1>4, <2>3
  <2>5. \A i \in 1 .. n : C[i] = Code[q[i]]
    BY <1>4, <1>1
  <2>6. DOMAIN W = 1 .. n /\ \A i \in 1 .. n : W[i] = Evaluated[q[i]][k]
    BY <1>4, <1>1
  <2> QED
    BY <2>4, <2>5, <2>6 DEF I
<1>6. PICK f \in [0 .. n -> Nat \ {0}] :
        /\ f[0] = p /\ f[n] = p + Len(FlattenSeq(C))
        /\ \A i \in 1 .. n : Sits(z, f[i - 1], C[i]) /\ f[i] = f[i - 1] + Len(C[i])
  <2>1. C \in Seq(Seq(Insts)) /\ Len(C) = n
    BY <1>5
  <2>2. Sits(z, p, FlattenSeq(C))
    OBVIOUS
  <2> HIDE DEF n
  <2>3. \E f \in [0 .. Len(C) -> Nat \ {0}] :
           /\ f[0] = p /\ f[Len(C)] = p + Len(FlattenSeq(C))
           /\ \A i \in 1 .. Len(C) : Sits(z, f[i - 1], C[i]) /\ f[i] = f[i - 1] + Len(C[i])
    <3>1. Laid(z, p, C)
      BY <2>1, <2>2, LaidOut
    <3> QED
      BY <3>1 DEF Laid
  <2> QED
    BY <2>1, <2>3
<1> HIDE DEF n
<1>7. ASSUME NEW j \in 0 .. n
      PROVE  IsStack(T(j)) /\ Len(T(j)) = j /\ \A i \in 1 .. j : T(j)[i] = W[i].value
  <2>1. j \in Nat /\ \A i \in 1 .. j : i \in 1 .. n
    BY <1>4
  <2>2. T(j) \in [1 .. j -> V]
    BY <2>1
  <2> HIDE DEF V
  <2>3. T(j) \in Seq(V) /\ Len(T(j)) = j
    BY <2>1, <2>2
  <2> QED
    BY <2>3 DEF IsStack
<1> HIDE DEF T
<1>8. Len(s) \in Nat
  BY PutOn
<1>9. ASSUME NEW j \in 0 .. n
      PROVE  IsStack(s \o T(j)) /\ Len(s \o T(j)) = Len(s) + j
             /\ \A i \in 1 .. Len(s) + j : (s \o T(j))[i] = IF i <= Len(s) THEN s[i] ELSE W[i - Len(s)].value
  <2> DEFINE t == T(j)
  <2> HIDE DEF t
  <2>1. IsStack(t) /\ Len(t) = j /\ \A i \in 1 .. j : t[i] = W[i].value
    BY <1>7 DEF t
  <2>2. /\ IsStack(s \o t) /\ Len(s \o t) = Len(s) + j
        /\ \A i \in 1 .. Len(s) + j : (s \o t)[i] = IF i <= Len(s) THEN s[i] ELSE t[i - Len(s)]
    <3>1. IsStack(s)
      BY <1>2
    <3> HIDE <1>2, <1>3
    <3>2. /\ IsStack(s \o t) /\ Len(s \o t) = Len(s) + Len(t)
          /\ \A i \in 1 .. Len(s) + Len(t) :
               (s \o t)[i] = IF i <= Len(s) THEN s[i] ELSE t[i - Len(s)]
      BY <2>1, <3>1, Stacked
    <3>3. Len(t) = j
      BY <2>1
    <3> QED
      BY <3>2, <3>3
  <2>3. ASSUME NEW i \in 1 .. Len(s) + j, ~(i <= Len(s)) PROVE i - Len(s) \in 1 .. j
    <3>1. j \in Nat
      BY <1>4
    <3> QED
      BY <1>8, <2>3, <3>1, PlaceBehind
  <2>4. ASSUME NEW i \in 1 .. Len(s) + j
        PROVE  (s \o t)[i] = IF i <= Len(s) THEN s[i] ELSE W[i - Len(s)].value
    <3>1. CASE i <= Len(s)
      BY <2>2, <3>1
    <3>2. CASE ~(i <= Len(s))
      <4>1. i - Len(s) \in 1 .. j
        BY <2>3, <3>2
      <4>2. (s \o t)[i] = t[i - Len(s)]
        BY <2>2, <3>2
      <4> QED
        BY <2>1, <3>2, <4>1, <4>2
    <3> QED
      BY <3>1, <3>2
  <2> QED
    BY <2>2, <2>4 DEF t
<1> DEFINE S == {j \in 0 .. n :
                  IF \E i \in 1 .. j : Failed(W[i]) THEN Aborts(z, Begin)
                  ELSE Goes(z, Begin, Ready(f[j], s \o T(j), rs, ts))}
<1>10. s \o T(0) = s
  <2> DEFINE t == s \o T(0)
  <2>1. IsStack(t) /\ Len(t) = Len(s) /\ \A i \in 1 .. Len(s) : t[i] = s[i]
    BY <1>4, <1>8, <1>9
  <2> HIDE DEF t
  <2>2. t = s
    BY <2>1, SameStack
  <2> QED
    BY <2>2 DEF t
<1>11. 0 \in S
  <2>1. Goes(z, Begin, Ready(f[0], s \o T(0), rs, ts))
    BY <1>6, <1>10, Staying
  <2> QED
    BY <1>4, <2>1
<1>12. ASSUME NEW j \in 1 .. n, j - 1 \in S PROVE j \in S
  <2> DEFINE m == j - 1
             u == s \o T(m)
             w == W[j]
             c == bare /\ j = 1
             x == q[j]
  <2>1. /\ m \in 0 .. n /\ j \in 0 .. n /\ m \in Nat
        /\ \A i \in 1 .. j : i = j \/ i \in 1 .. m
        /\ \A i \in 1 .. m : i \in 1 .. j
    BY <1>4
  <2>2. CASE \E i \in 1 .. m : Failed(W[i])
    BY <1>12, <2>1, <2>2
  <2>3. CASE \A i \in 1 .. m : ~Failed(W[i])
    <3>1. Goes(z, Begin, Ready(f[m], u, rs, ts))
      BY <1>12, <2>3
    <3>2. IsStack(u) /\ Len(u) = Len(s) + m
      BY <1>9, <2>1
    <3>3. c \in BOOLEAN /\ (c => u = <<>>)
      <4>1. c => m = 0
        OBVIOUS
      <4> QED
        BY <1>10, <4>1
    <3>4. x \in Exprs /\ Compiled(x) /\ Fit(x, u, c, k)
      <4>1. /\ Clean[x][c] /\ Typed[x] /\ Shallow[x][k] /\ Plain[x]
            /\ Len(s) + (j - 1) + StackUsed[x] <= MaxStack
        BY DEF n
      <4>2. x \in Exprs /\ Compiled(x)
        BY <1>4 DEF n
      <4> HIDE DEF u, c, x
      <4>3. Len(u) + StackUsed[x] <= MaxStack
        BY <3>2, <4>1
      <4> QED
        BY <3>2, <3>3, <4>1, <4>2, <4>3 DEF Fit
    <3>5. Sits(z, f[m], Code[x]) /\ f[j] = f[m] + Len(Code[x]) /\ w = Evaluated[x][k]
      BY <1>5, <1>6
    <3> HIDE DEF c, x, w, u
    <3>6. Yields(z, f[m], Len(Code[x]), u, rs, ts, w)
      BY <3>3, <3>4, <3>5, Executed
    <3>7. CASE Failed(w)
      <4>1. Aborts(z, Begin)
        BY <3>1, <3>6, <3>7, FailsLater DEF Yields
      <4>2. \E i \in 1 .. j : Failed(W[i])
        BY <1>4, <3>7 DEF w
      <4> QED
        BY <2>1, <4>1, <4>2
    <3>8. CASE ~Failed(w)
      <4>1. Goes(z, Begin, Ready(f[j], Append(u, w.value), rs, ts))
        BY <3>1, <3>5, <3>6, <3>8, Onwards DEF Yields
      <4>2. Append(u, w.value) = s \o T(j)
        <5> DEFINE a == Append(u, w.value)
                   b == s \o T(j)
        <5>1. IsStack(a) /\ Len(a) = Len(u) + 1 /\ a[Len(u) + 1] = w.value
              /\ \A i \in 1 .. Len(u) : a[i] = u[i]
          <6>1. IsStack(a) /\ Len(a) = Len(u) + 1
            BY <3>2, PutOn
          <6>2. PICK X : u \in Seq(X)
            BY <3>2 DEF IsStack
          <6>3. a[Len(u) + 1] = w.value /\ \A i \in 1 .. Len(u) : a[i] = u[i]
            BY <6>2
          <6> QED
            BY <6>1, <6>3
        <5>2. IsStack(b) /\ Len(b) = Len(s) + j
              /\ \A i \in 1 .. Len(s) + j : b[i] = IF i <= Len(s) THEN s[i] ELSE W[i - Len(s)].value
          BY <1>9, <2>1
        <5>3. \A i \in 1 .. Len(s) + m : u[i] = IF i <= Len(s) THEN s[i] ELSE W[i - Len(s)].value
          BY <1>9, <2>1 DEF u
        <5> HIDE DEF a, b
        <5>4. Len(a) = Len(b)
          BY <1>8, <2>1, <3>2, <5>1, <5>2
        <5>5. ASSUME NEW i \in 1 .. Len(a) PROVE a[i] = b[i]
          <6>1. CASE i = Len(u) + 1
            <7>1. ~(i <= Len(s)) /\ i - Len(s) = j /\ i \in 1 .. Len(s) + j
              BY <1>8, <2>1, <3>2, <6>1
            <7> QED
              BY <5>1, <5>2, <6>1, <7>1 DEF w
          <6>2. CASE i # Len(u) + 1
            <7>1. i \in 1 .. Len(u) /\ i \in 1 .. Len(s) + m /\ i \in 1 .. Len(s) + j
              BY <1>8, <2>1, <3>2, <5>1, <6>2
            <7> QED
              BY <5>1, <5>2, <5>3, <7>1
          <6> QED
            BY <6>1, <6>2
        <5>6. a = b
          BY <5>1, <5>2, <5>4, <5>5, SameStack
        <5> QED
          BY <5>6 DEF a, b
      <4>3. ~ \E i \in 1 .. j : Failed(W[i])
        BY <2>1, <2>3, <3>8 DEF w
      <4> QED
        BY <2>1, <4>1, <4>2, <4>3
    <3> QED
      BY <3>7, <3>8
  <2> QED
    BY <2>2, <2>3
<1>13. n \in S
  <2> HIDE DEF S
  <2>1. \A i \in 0 .. n : i \in S
    BY <1>4, <1>11, <1>12, Upwards
  <2> QED
    BY <1>4, <2>1
<1>14. T(n) = ValuesOf(W)
  BY <1>5 DEF T, ValuesOf
<1>15. LastError(W) = "NONE" <=> \A i \in 1 .. n : ~Failed(W[i])
  BY <1>4, <1>5, FailsOfMany
<1>16. IF \E i \in 1 .. n : Failed(W[i]) THEN Aborts(z, Begin)
       ELSE Goes(z, Begin, Ready(f[n], s \o T(n), rs, ts))
  BY <1>13
<1>17. IsStack(T(n)) /\ Len(T(n)) = n
  BY <1>4, <1>7
<1> QED
  BY <1>6, <1>14, <1>15, <1>16, <1>17 DEF n, Leaves, C, W

\* The code of several expressions consists of instructions.
LEMMA CodesAre ==
  ASSUME NEW q \in Seq(Exprs)
  PROVE  FlattenSeq(CodesOf(q)) \in Seq(Insts)
<1>1. \A i \in DOMAIN q : Code[q[i]] \in Seq(Insts)
  BY CodeUnfolds
<1>2. FlattenSeq([i \in DOMAIN q |-> Code[q[i]]]) \in Seq(Insts)
  BY <1>1, FlattenOf
<1> QED
  BY <1>2 DEF CodesOf

\* With their number on top, for an instruction that takes them.
Numbered(z, p, n, t, s, rs, ts, walks, m, y) ==
  /\ n \in Nat /\ t = n + 2 /\ p \in Nat \ {0}
  /\ IsStack(ValuesOf(walks)) /\ Len(ValuesOf(walks)) = m
  /\ Sits(z, p + n + 1, <<y>>)
  /\ IF LastError(walks) # "NONE" THEN Aborts(z, Ready(p, s, rs, ts))
     ELSE Goes(z, Ready(p, s, rs, ts),
               Ready(p + n + 1, Append(s \o ValuesOf(walks), Number(m)), rs, ts))

\* The number of the values and one more instruction follow them.
LEMMA NumberedRun ==
  ASSUME NEW q \in Seq(Exprs), NEW k \in 0 .. MaxExprDepth, NEW bare \in BOOLEAN, NEW s,
         FitAll(q, s, bare, k), Len(s) + Len(q) + 1 <= MaxStack, NEW y \in Insts,
         NEW z \in Seq(Insts), NEW p,
         Sits(z, p, FlattenSeq(CodesOf(q)) \o <<Push(Number(Len(q))), y>>), NEW rs, NEW ts,
         NEW n, n = Len(FlattenSeq(CodesOf(q))),
         NEW t, t = Len(FlattenSeq(CodesOf(q)) \o <<Push(Number(Len(q))), y>>)
  PROVE  Numbered(z, p, n, t, s, rs, ts, WalksOf(q, k), Len(q), y)
<1> DEFINE c == FlattenSeq(CodesOf(q))
           m == Len(q)
           x == Push(Number(m))
           W == WalksOf(q, k)
           v == ValuesOf(W)
           g == <<x>>
           h == <<y>>
           gh == g \o h
<1>1. c \in Seq(Insts) /\ m \in Nat /\ n = Len(c)
  BY CodesAre, LenProperties
<1>2. x \in Insts
  BY <1>1, InstsAreInsts
<1>3. gh = <<x, y>> /\ g \in Seq(Insts) /\ h \in Seq(Insts) /\ Len(g) = 1 /\ Len(h) = 1
  BY <1>2, OneAndOne
<1>4. Sits(z, p, c \o gh) /\ t = Len(c \o gh)
  BY <1>3
<1> HIDE DEF m, x
<1>5. gh \in Seq(Insts)
  <2> HIDE DEF g, h
  <2> QED
    BY <1>3, ConcatProperties
<1> HIDE DEF c, g, h, gh
<1>6. /\ Sits(z, p, c) /\ Sits(z, p + n, gh) /\ p + Len(c \o gh) = p + n + Len(gh)
      /\ p \in Nat \ {0} /\ p + n \in Nat \ {0}
  <2>1. z \in Seq(Insts) /\ c \in Seq(Insts) /\ gh \in Seq(Insts)
    BY <1>1, <1>5
  <2>2. Sits(z, p, c) /\ p \in Nat \ {0}
    BY <1>4, <2>1, SitsBoth
  <2>3. Sits(z, p + Len(c), gh) /\ p + Len(c) \in Nat \ {0}
    BY <1>4, <2>1, SitsBoth
  <2>4. p + Len(c \o gh) = p + Len(c) + Len(gh)
    BY <1>4, <2>1, SitsBoth
  <2> QED
    BY <1>1, <2>2, <2>3, <2>4
<1>7. n \in Nat /\ n = Len(c)
  BY <1>1, LenProperties
<1>8. Sits(z, p + n, g) /\ Sits(z, p + n + 1, h) /\ (p + n) + Len(gh) = p + n + 2
  <2> DEFINE j == p + n
  <2>1. Sits(z, j, g \o h) /\ z \in Seq(Insts) /\ g \in Seq(Insts) /\ h \in Seq(Insts) /\ j \in Nat \ {0}
    BY <1>3, <1>6 DEF gh
  <2> HIDE DEF j
  <2>2. Sits(z, j, g)
    BY <2>1, SitsBoth
  <2>3. Sits(z, j + Len(g), h)
    BY <2>1, SitsBoth
  <2>4. j + Len(g \o h) = j + Len(g) + Len(h)
    BY <2>1, SitsBoth
  <2>5. Sits(z, j + 1, h) /\ j + Len(g \o h) = j + 2
    BY <1>3, <2>1, <2>3, <2>4
  <2> QED
    BY <2>2, <2>5 DEF j, gh
<1>9. Leaves(z, p, n, s, rs, ts, W) /\ IsStack(v) /\ Len(v) = m
  BY <1>6, <1>7, AllRun DEF c, m
<1>10. IsStack(s) /\ IsStack(s \o v) /\ ~(Len(s \o v) >= MaxStack)
  <2>1. IsStack(s)
    BY DEF FitAll
  <2> HIDE DEF v
  <2>2. IsStack(s \o v) /\ Len(s \o v) = Len(s) + Len(v) /\ Len(s) \in Nat
    BY <1>9, <2>1, Stacked
  <2> QED
    BY <1>1, <1>9, <2>1, <2>2, MaxStackAssumption DEF m
<1>11. IF LastError(W) # "NONE" THEN Aborts(z, Ready(p, s, rs, ts))
       ELSE Goes(z, Ready(p, s, rs, ts), Ready(p + n + 1, Append(s \o v, Number(m)), rs, ts))
  <2>1. CASE LastError(W) # "NONE"
    BY <1>9, <2>1 DEF Leaves
  <2>2. CASE LastError(W) = "NONE"
    <3> DEFINE j == p + n
               u == s \o v
    <3>1. Goes(z, Ready(p, s, rs, ts), Ready(j, u, rs, ts))
      BY <1>9, <2>2 DEF Leaves
    <3>2. Sits(z, j, <<Push(Number(m))>>)
      BY <1>8 DEF g, x
    <3> HIDE DEF j, u, v, W
    <3>3. Goes(z, Ready(j, u, rs, ts), Ready(j + 1, Append(u, Number(m)), rs, ts))
      BY <1>10, <3>2, PushRuns DEF u
    <3>4. Goes(z, Ready(p, s, rs, ts), Ready(j + 1, Append(u, Number(m)), rs, ts))
      BY <3>1, <3>3, Onwards
    <3> QED
      BY <2>2, <3>4 DEF j, u
  <2> QED
    BY <2>1, <2>2
<1>12. t = n + 2
  <2>1. Len(c \o gh) \in Nat /\ Len(gh) \in Nat /\ p + n \in Nat
    BY <1>1, <1>5, <1>6, <1>7, ConcatProperties, LenProperties
  <2> QED
    BY <1>4, <1>6, <1>7, <1>8, <2>1
<1> HIDE DEF W
<1>13. Numbered(z, p, n, t, s, rs, ts, W, m, y)
  BY <1>6, <1>7, <1>8, <1>9, <1>11, <1>12 DEF Numbered, h, v
<1> QED
  BY <1>13 DEF W, m

\* The parts of a call, or of an array, fit where it fits.
LEMMA PartsFit ==
  ASSUME NEW e \in Exprs, Fold[e].status # "OK", e.kind \in {"call", "array"},
         NEW q, q = IF e.kind = "call" THEN e.args ELSE e.items, \A i \in DOMAIN q : Compiled(q[i]),
         NEW s, NEW bare \in BOOLEAN, NEW d \in 0 .. MaxExprDepth, Fit(e, s, bare, d),
         NEW k, k = IF e.kind = "call" THEN 0 ELSE d + 1
  PROVE  /\ q \in Seq(Exprs) /\ k \in 0 .. MaxExprDepth /\ FitAll(q, s, bare, k)
         /\ e.kind = "call" => /\ Len(s) + Len(q) + 1 <= MaxStack /\ e.name \in Functions
                               /\ \A i \in DOMAIN q : Survives(q[i])
<1> DEFINE f == StackUsed
           n == Len(q)
<1>1. q \in Seq(Exprs) /\ n \in Nat /\ DOMAIN q = 1 .. n /\ \A i \in 1 .. n : q[i] \in Exprs
  <2>1. q \in Seq(Exprs)
    BY PartsOfKinds
  <2> QED
    BY <2>1, LenProperties
<1>2. k \in 0 .. MaxExprDepth /\ \A i \in 1 .. n : Shallow[q[i]][k]
  <2>1. Shallow[e][d]
    BY DEF Fit
  <2> QED
    BY <1>1, <2>1, ShallowParts
<1>3. \A i \in 1 .. n : Clean[q[i]][bare /\ i = 1]
  <2>1. CleanFrom(Clean, e)[bare]
    BY CleanUnfolds DEF Fit
  <2> QED
    BY <1>1, <2>1 DEF CleanFrom
<1>4. /\ \A i \in 1 .. n : Typed[q[i]]
      /\ e.kind = "call" => e.name \in Functions /\ \A i \in 1 .. n : Survives(q[i])
  <2>1. TypedFrom(Typed, e)
    BY TypedUnfolds DEF Fit
  <2> QED
    BY <1>1, <2>1 DEF TypedFrom
<1>5. /\ \A i \in 1 .. n : Plain[q[i]] /\ (i = 1 \/ f[q[i]] = 1)
      /\ e.kind = "array" => n <= 2
  <2>1. PlainFrom(Plain, e)
    BY PlainUnfolds DEF Fit
  <2> QED
    BY <1>1, <2>1 DEF PlainFrom
<1>6. IsStack(s) /\ (bare => s = <<>>) /\ Len(s) + f[e] <= MaxStack /\ Len(s) \in Nat
  BY PutOn DEF Fit
<1>7. f[e] = StackUsedFrom(f, e) /\ f[e] \in Nat /\ \A i \in 1 .. n : f[q[i]] \in Nat
  BY <1>1, StackUsedUnfolds
<1> DEFINE x == IF e.kind = "call" THEN n + 1 ELSE 0
           m == MostOf(f, q, x)
<1>8. x \in Nat
  BY <1>1
<1>9. f[e] = IF e.kind = "call" THEN m ELSE 1 + m
  <2> HIDE DEF f
  <2> QED
    BY <1>7 DEF StackUsedFrom, MostOf
<1>10. m \in Nat /\ x <= m /\ \A i \in 1 .. n : f[q[i]] <= m
  <2> HIDE DEF x, f, n
  <2>1. \A i \in DOMAIN q : f[q[i]] \in Nat
    BY <1>1, <1>7
  <2> QED
    BY <1>1, <1>8, <2>1, GreatestOf
<1> HIDE DEF f, m, n
<1>11. ASSUME NEW i \in 1 .. n PROVE Len(s) + (i - 1) + f[q[i]] <= MaxStack
  <2> DEFINE g == f[q[i]]
  <2>1. g \in Nat /\ g <= m /\ (i = 1 \/ g = 1)
    BY <1>5, <1>7, <1>10
  <2>2. i \in Nat /\ 1 <= i /\ i <= n
    BY <1>1
  <2> HIDE DEF g
  <2>3. Len(s) + (i - 1) + g <= MaxStack
    <3>1. CASE e.kind = "call"
      <4>1. n + 1 <= m /\ Len(s) + m <= MaxStack
        BY <1>6, <1>9, <1>10, <3>1
      <4> QED
        BY <1>1, <1>6, <1>10, <2>1, <2>2, <4>1, MaxStackAssumption
    <3>2. CASE e.kind = "array"
      <4>1. n <= 2 /\ Len(s) + (1 + m) <= MaxStack
        BY <1>5, <1>6, <1>9, <3>2
      <4> QED
        BY <1>1, <1>6, <1>10, <2>1, <2>2, <4>1, MaxStackAssumption
    <3> QED
      BY <3>1, <3>2
  <2> QED
    BY <2>3 DEF g
<1>12. e.kind = "call" => Len(s) + n + 1 <= MaxStack
  <2>1. CASE e.kind = "call"
    <3>1. n + 1 <= m /\ Len(s) + m <= MaxStack
      BY <1>6, <1>9, <1>10, <2>1
    <3> QED
      BY <1>1, <1>6, <1>10, <3>1, MaxStackAssumption
  <2> QED
    BY <2>1
<1>13. FitAll(q, s, bare, k)
  BY <1>1, <1>2, <1>3, <1>4, <1>5, <1>6, <1>11 DEF FitAll, f, n
<1> QED
  BY <1>1, <1>2, <1>4, <1>12, <1>13 DEF n

\* A call takes its arguments and their number from the stack.
LEMMA CallsRun ==
  ASSUME NEW e \in Exprs, Fold[e].status # "OK", e.kind = "call",
         \A i \in DOMAIN e.args : Compiled(e.args[i])
  PROVE  Compiled(e)
<1> SUFFICES ASSUME NEW z \in Seq(Insts), NEW p, NEW s, NEW bare \in BOOLEAN,
                    NEW d \in 0 .. MaxExprDepth, NEW rs, NEW ts,
                    Sits(z, p, Code[e]), Fit(e, s, bare, d)
             PROVE  Yields(z, p, Len(Code[e]), s, rs, ts, Evaluated[e][d])
  BY DEF Compiled
<1> DEFINE q == e.args
           c == FlattenSeq(CodesOf(q))
           n == Len(c)
           m == Len(q)
           W == WalksOf(q, 0)
           v == ValuesOf(W)
           y == CallOp(e.name)
<1>1. /\ q \in Seq(Exprs) /\ 0 \in 0 .. MaxExprDepth /\ FitAll(q, s, bare, 0)
      /\ Len(s) + Len(q) + 1 <= MaxStack /\ e.name \in Functions
      /\ \A i \in DOMAIN q : Survives(q[i])
  BY PartsFit
<1>2. Code[e] = c \o <<Push(Number(m)), y>> /\ y \in Insts
  BY CodeUnfolds, InstsAreInsts DEF CodeFrom, CodesOf
<1>3. d # MaxExprDepth
  BY ShallowParts DEF Fit
<1>4. Evaluated[e][d] = Walked(Apply(e.name, v), 1 + SumOfNodes(W), LastError(W))
  BY <1>1, <1>3, Walking DEF CallWalk, WalksOf
<1>5. IsStack(s) /\ Len(s) \in Nat /\ ~(Len(s) >= MaxStack)
  BY RoomToPush
<1>6. m \in Nat /\ DOMAIN q = 1 .. m
  BY <1>1, LenProperties
<1>7. Numbered(z, p, n, Len(Code[e]), s, rs, ts, W, m, y)
  <2> DEFINE o == 0
             t == Len(Code[e])
  <2>1. /\ q \in Seq(Exprs) /\ o \in 0 .. MaxExprDepth /\ FitAll(q, s, bare, o)
        /\ Len(s) + Len(q) + 1 <= MaxStack /\ y \in Insts
        /\ n = Len(FlattenSeq(CodesOf(q)))
    BY <1>1, <1>2
  <2>2. Sits(z, p, FlattenSeq(CodesOf(q)) \o <<Push(Number(Len(q))), y>>)
    BY <1>2
  <2>3. t = Len(FlattenSeq(CodesOf(q)) \o <<Push(Number(Len(q))), y>>)
    BY <1>2
  <2> HIDE DEF q, y, o, n, t
  <2>4. Numbered(z, p, n, t, s, rs, ts, WalksOf(q, o), Len(q), y)
    BY <2>1, <2>2, <2>3, NumberedRun
  <2> QED
    BY <2>4 DEF o, t
<1> HIDE DEF c, n, m
<1>8. /\ n \in Nat /\ p \in Nat \ {0} /\ IsStack(v) /\ Len(v) = m
      /\ Sits(z, p + n + 1, <<y>>) /\ Len(Code[e]) = n + 2
  BY <1>7 DEF Numbered
<1>9. CASE LastError(W) # "NONE"
  <2>1. Aborts(z, Ready(p, s, rs, ts))
    BY <1>7, <1>9 DEF Numbered
  <2> QED
    BY <1>4, <1>9, <2>1 DEF Yields, Failed, Walked
<1>10. CASE LastError(W) = "NONE"
  <2>1. \A i \in 1 .. m : Converted(v[i]) = v[i]
    <3>1. DOMAIN W = 1 .. m /\ \A i \in 1 .. m : W[i] = Evaluated[q[i]][0] /\ v[i] = W[i].value
      BY <1>6 DEF WalksOf, ValuesOf
    <3>2. \A i \in 1 .. m : ~Failed(W[i])
      <4> HIDE DEF W
      <4> QED
        BY <1>6, <1>10, <3>1, FailsOfMany
    <3> QED
      BY <1>1, <1>6, <3>1, <3>2 DEF Survives, Evaluate
  <2> DEFINE j == p + n + 1
  <2>2. Goes(z, Ready(p, s, rs, ts), Ready(j, Append(s \o v, Number(m)), rs, ts))
    BY <1>7, <1>10 DEF Numbered
  <2>3. Sits(z, j, <<CallOp(e.name)>>)
    BY <1>8
  <2> HIDE DEF j, v, q, W
  <2>4. Goes(z, Ready(j, Append(s \o v, Number(m)), rs, ts),
                Ready(j + 1, Append(s, Apply(e.name, v)), rs, ts))
    <3>1. \A i \in 1 .. Len(v) : Converted(v[i]) = v[i]
      BY <1>8, <2>1
    <3>2. Goes(z, Ready(j, Append(s \o v, Number(Len(v))), rs, ts),
                  Ready(j + 1, Append(s, Apply(e.name, v)), rs, ts))
      BY <1>1, <1>5, <1>8, <2>3, <3>1, CallRuns
    <3> QED
      BY <1>8, <3>2
  <2>5. Goes(z, Ready(p, s, rs, ts), Ready(j + 1, Append(s, Apply(e.name, v)), rs, ts))
    BY <2>2, <2>4, Onwards
  <2>6. j + 1 = p + Len(Code[e])
    BY <1>8 DEF j
  <2> QED
    BY <1>4, <1>10, <2>5, <2>6 DEF Yields, Failed, Walked
<1> QED
  BY <1>9, <1>10

\* An array takes its items and their number from the stack.
LEMMA ArraysRun ==
  ASSUME NEW e \in Exprs, Fold[e].status # "OK", e.kind = "array",
         \A i \in DOMAIN e.items : Compiled(e.items[i])
  PROVE  Compiled(e)
<1> SUFFICES ASSUME NEW z \in Seq(Insts), NEW p, NEW s, NEW bare \in BOOLEAN,
                    NEW d \in 0 .. MaxExprDepth, NEW rs, NEW ts,
                    Sits(z, p, Code[e]), Fit(e, s, bare, d)
             PROVE  Yields(z, p, Len(Code[e]), s, rs, ts, Evaluated[e][d])
  BY DEF Compiled
<1> DEFINE q == e.items
           k == d + 1
           c == FlattenSeq(CodesOf(q))
           n == Len(c)
           m == Len(q)
           W == WalksOf(q, k)
           v == ValuesOf(W)
           y == PushArray(m)
<1>1. /\ q \in Seq(Exprs) /\ k \in 0 .. MaxExprDepth /\ FitAll(q, s, bare, k)
  BY PartsFit
<1>2. m \in Nat /\ c \in Seq(Insts)
  BY <1>1, LenProperties, CodesAre
<1>3. Code[e] = Append(c, y) /\ y \in Insts
  BY <1>2, CodeUnfolds, InstsAreInsts DEF CodeFrom, CodesOf
<1>4. d # MaxExprDepth
  BY ShallowParts DEF Fit
<1>5. Evaluated[e][d] = Walked(ArrayOf(v), 1 + SumOfNodes(W), LastError(W))
  BY <1>4, Walking DEF WalksOf
<1>6. IsStack(s) /\ Len(s) \in Nat /\ ~(Len(s) >= MaxStack)
  BY RoomToPush
<1>7. Sits(z, p, c) /\ Sits(z, p + n, <<y>>) /\ p + Len(Code[e]) = p + n + 1
  <2> HIDE DEF c, y
  <2> QED
    BY <1>2, <1>3, SitsLast
<1>8. Leaves(z, p, n, s, rs, ts, W) /\ IsStack(v) /\ Len(v) = m
  <2> HIDE DEF q, k
  <2> QED
    BY <1>1, <1>7, AllRun
<1> HIDE DEF c, n, W, v
<1>9. CASE LastError(W) # "NONE"
  <2>1. Aborts(z, Ready(p, s, rs, ts))
    BY <1>8, <1>9 DEF Leaves
  <2> QED
    BY <1>5, <1>9, <2>1 DEF Yields, Failed, Walked
<1>10. CASE LastError(W) = "NONE"
  <2> DEFINE j == p + n
  <2>1. Goes(z, Ready(p, s, rs, ts), Ready(j, s \o v, rs, ts))
    BY <1>8, <1>10 DEF Leaves, v
  <2>2. Sits(z, j, <<PushArray(Len(v))>>)
    BY <1>7, <1>8
  <2> HIDE DEF j
  <2>3. Goes(z, Ready(j, s \o v, rs, ts), Ready(j + 1, Append(s, ArrayOf(v)), rs, ts))
    BY <1>6, <1>8, <2>2, CollectRuns
  <2>4. Goes(z, Ready(p, s, rs, ts), Ready(j + 1, Append(s, ArrayOf(v)), rs, ts))
    BY <2>1, <2>3, Onwards
  <2>5. j + 1 = p + Len(Code[e])
    BY <1>7 DEF j
  <2> QED
    BY <1>5, <1>10, <2>4, <2>5 DEF Yields, Failed, Walked
<1> QED
  BY <1>9, <1>10

\* The code of every expression does what the tree walk does.
LEMMA ExpressionsRun == \A e \in Exprs : Compiled(e)
<1> DEFINE S == {e \in Exprs : Compiled(e)}
<1>1. ASSUME NEW e \in Exprs, PartsOf(e) \subseteq S PROVE e \in S
  <2>1. \A x \in PartsOf(e) : Compiled(x)
    BY <1>1
  <2>2. CASE Fold[e].status = "OK"
    BY <2>2, FoldedRuns
  <2>3. CASE Fold[e].status # "OK"
    <3>1. e.kind # "literal"
      <4>1. Fold[e] = FoldFrom(Fold, e)
        BY FoldUnfolds
      <4>2. e.kind = "literal" => FoldFrom(Fold, e) = Outcome("OK", e.value)
        BY DEF FoldFrom
      <4> QED
        BY <2>3, <4>1, <4>2 DEF Outcome
    <3>2. CASE e.kind = "id"
      BY <2>3, <3>2, NamesRun
    <3>3. CASE e.kind = "unary"
      <4>1. Compiled(e.arg)
        BY <2>1, <3>3, PartsOfKinds
      <4> QED
        BY <2>3, <3>3, <4>1, UnaryRuns
    <3>4. CASE e.kind = "binary"
      <4>1. Compiled(e.left) /\ Compiled(e.right)
        BY <2>1, <3>4, PartsOfKinds
      <4> QED
        BY <2>3, <3>4, <4>1, BinaryRuns, LogicalRuns
    <3>5. CASE e.kind = "call"
      <4>1. \A i \in DOMAIN e.args : Compiled(e.args[i])
        BY <2>1, <3>5, PartsOfKinds
      <4> QED
        BY <2>3, <3>5, <4>1, CallsRun
    <3>6. CASE e.kind = "array"
      <4>1. \A i \in DOMAIN e.items : Compiled(e.items[i])
        BY <2>1, <3>6, PartsOfKinds
      <4> QED
        BY <2>3, <3>6, <4>1, ArraysRun
    <3>7. e.kind \in {"literal", "id", "array", "call", "unary", "binary"}
      BY ExprsAssumption DEF IsExpr
    <3> QED
      BY <3>1, <3>2, <3>3, <3>4, <3>5, <3>6, <3>7
  <2> QED
    BY <2>2, <2>3
<1>2. Exprs \subseteq S
  <2> HIDE DEF S
  <2> QED
    BY <1>1, Structural
<1> QED
  BY <1>2

(***************************************************************************)
(* The instructions of rules.                                              *)
(***************************************************************************)
LEMMA StartRuns ==
  ASSUME NEW z \in Seq(Insts), NEW p, NEW i, Sits(z, p, <<MetricStart(i)>>),
         NEW s, NEW rs, NEW ts
  PROVE  Goes(z, Ready(p, s, rs, ts), Ready(p + 1, s, Append(rs, Scored(0, NoReason)), ts))
<1> DEFINE c == Ready(p, s, rs, ts)
           x == MetricStart(i)
           t == Append(rs, Scored(0, NoReason))
<1>1. Goes(z, c, After(x, c)) /\ c.ip = p /\ c.stack = s /\ c.mode = "run"
      /\ c.error = FALSE /\ c.result = Void /\ c.results = rs /\ c.triggered = ts
  BY AtOnce, ReadyIs
<1>2. x.op = "METRIC_START"
  BY DEF MetricStart
<1> HIDE DEF c, x
<1>3. After(x, c) = Noting(c, c.stack, c.error, Append(c.results, Scored(0, NoReason)))
  BY <1>2 DEF After, JumpOps
<1>4. After(x, c) = Config(p + 1, s, "run", FALSE, Void, t, ts)
  BY <1>1, <1>3 DEF Noting
<1>5. Goes(z, c, Config(p + 1, s, "run", FALSE, Void, t, ts))
  BY <1>1, <1>4
<1> QED
  BY <1>5 DEF c, t, Ready

\* The instructions that end a metric, a rule and a body, and that set a score.
LEMMA ReasonRuns ==
  ASSUME NEW z \in Seq(Insts), NEW p, NEW reason, Sits(z, p, <<FailMetric(reason)>>),
         NEW s, NEW rs, NEW ts
  PROVE  Goes(z, Ready(p, s, rs, ts),
              Ready(p + 1, s, [rs EXCEPT ![Len(rs)] = Scored(0, reason)], ts))
<1> DEFINE c == Ready(p, s, rs, ts)
           x == FailMetric(reason)
           t == [rs EXCEPT ![Len(rs)] = Scored(0, reason)]
<1>1. Goes(z, c, After(x, c)) /\ c.ip = p /\ c.stack = s /\ c.mode = "run"
      /\ c.error = FALSE /\ c.result = Void /\ c.results = rs /\ c.triggered = ts
  BY AtOnce, ReadyIs
<1>2. x.op = "FAIL_METRIC" /\ x.reason = reason
  BY DEF FailMetric
<1> HIDE DEF c, x
<1>3. After(x, c) = Noting(c, c.stack, c.error,
                           [c.results EXCEPT ![Len(c.results)] = Scored(0, x.reason)])
  BY <1>2 DEF After, JumpOps
<1>4. After(x, c) = Config(p + 1, s, "run", FALSE, Void, t, ts)
  BY <1>1, <1>2, <1>3 DEF Noting
<1>5. Goes(z, c, Config(p + 1, s, "run", FALSE, Void, t, ts))
  BY <1>1, <1>4
<1> QED
  BY <1>5 DEF c, t, Ready

LEMMA EndRuns ==
  ASSUME NEW z \in Seq(Insts), NEW p, Sits(z, p, <<Inst("RULE_END")>>), NEW s, NEW rs, NEW ts
  PROVE  Goes(z, Ready(p, s, rs, ts), Config(p, <<>>, "stopped", FALSE, Void, rs, ts))
<1> DEFINE c == Ready(p, s, rs, ts)
           x == Inst("RULE_END")
<1>1. Goes(z, c, After(x, c)) /\ c.ip = p /\ c.stack = s /\ c.mode = "run"
      /\ c.error = FALSE /\ c.result = Void /\ c.results = rs /\ c.triggered = ts
  BY AtOnce, ReadyIs
<1>2. x.op = "RULE_END"
  BY DEF Inst
<1> HIDE DEF c, x
<1>3. After(x, c) = Config(c.ip, <<>>, "stopped", c.error, c.result, c.results, c.triggered)
  BY <1>2 DEF After, JumpOps
<1>4. After(x, c) = Config(p, <<>>, "stopped", FALSE, Void, rs, ts)
  BY <1>1, <1>3
<1> QED
  BY <1>1, <1>4 DEF c

LEMMA ReturnRuns ==
  ASSUME NEW z \in Seq(Insts), NEW p, Sits(z, p, <<Inst("RET")>>), NEW s, IsStack(s), NEW v,
         NEW rs, NEW ts
  PROVE  Goes(z, Ready(p, Append(s, v), rs, ts), Config(p, <<>>, "stopped", FALSE, v, rs, ts))
<1> DEFINE u == Append(s, v)
           c == Ready(p, u, rs, ts)
           x == Inst("RET")
<1>1. Top(u) = v /\ u # <<>>
  BY OnTop, PutOn
<1> HIDE DEF u
<1>2. Goes(z, c, After(x, c)) /\ c.ip = p /\ c.stack = u /\ c.mode = "run"
      /\ c.error = FALSE /\ c.result = Void /\ c.results = rs /\ c.triggered = ts
  BY AtOnce, ReadyIs
<1>3. x.op = "RET"
  BY DEF Inst
<1> HIDE DEF c, x
<1>4. After(x, c) = Config(c.ip, <<>>, "stopped", c.error \/ c.stack = <<>>, Top(c.stack), c.results,
                           c.triggered)
  BY <1>3 DEF After, JumpOps
<1>5. (c.error \/ c.stack = <<>>) = FALSE
  BY <1>1, <1>2
<1>6. After(x, c) = Config(p, <<>>, "stopped", FALSE, v, rs, ts)
  BY <1>1, <1>2, <1>4, <1>5
<1> QED
  BY <1>2, <1>6 DEF c, u

LEMMA ScoreRuns ==
  ASSUME NEW z \in Seq(Insts), NEW p, Sits(z, p, <<Inst("SET_SCORE")>>), NEW s, IsStack(s), NEW v,
         NEW rs, NEW ts
  PROVE  Goes(z, Ready(p, Append(s, v), rs, ts),
              Ready(p + 1, s,
                    [rs EXCEPT ![Len(rs)] = Scored(IF v.type = "INT" THEN v.data ELSE 0, @.reason)],
                    ts))
<1> DEFINE u == Append(s, v)
           c == Ready(p, u, rs, ts)
           x == Inst("SET_SCORE")
<1>1. Top(u) = v /\ Below(u, 1) = s /\ u # <<>>
  BY OnTop, PutOn
<1> HIDE DEF u
<1>2. Goes(z, c, After(x, c)) /\ c.ip = p /\ c.stack = u /\ c.mode = "run"
      /\ c.error = FALSE /\ c.result = Void /\ c.results = rs /\ c.triggered = ts
  BY AtOnce, ReadyIs
<1>3. x.op = "SET_SCORE"
  BY DEF Inst
<1> HIDE DEF c, x
<1>4. After(x, c) = Settling(c)
  BY <1>3 DEF After, JumpOps
<1>5. (c.error \/ c.stack = <<>>) = FALSE
  BY <1>1, <1>2
<1>6. ScoreOn(c.stack) = IF v.type = "INT" THEN v.data ELSE 0
  BY <1>1, <1>2 DEF ScoreOn
<1> DEFINE k == IF v.type = "INT" THEN v.data ELSE 0
           t == [rs EXCEPT ![Len(rs)] = Scored(k, @.reason)]
<1> HIDE DEF k
<1>7. [c.results EXCEPT ![Len(c.results)] = Scored(ScoreOn(c.stack), @.reason)] = t
  BY <1>2, <1>6 DEF k
<1> HIDE DEF t
<1>8. Settling(c) = Noting(c, Below(c.stack, 1), c.error \/ c.stack = <<>>, t)
  BY <1>7 DEF Settling
<1>9. Settling(c) = Config(p + 1, s, "run", FALSE, Void, t, ts)
  BY <1>1, <1>2, <1>5, <1>8 DEF Noting
<1>10. Goes(z, c, Config(p + 1, s, "run", FALSE, Void, t, ts))
  BY <1>2, <1>4, <1>9
<1> QED
  BY <1>10 DEF c, u, t, k, Ready

\* The result of a metric.
IsScored(x) == x = Scored(x.score, x.reason)

\* The results of two executions have the same scores.
SameMarks(rs, xs) ==
  /\ IsStack(rs) /\ IsStack(xs) /\ Len(rs) = Len(xs)
  /\ \A i \in 1 .. Len(xs) :
       rs[i].score = xs[i].score /\ rs[i].passed = xs[i].passed /\ IsScored(rs[i])

\* The last result gets a score, the others stay.
Marked(rs, t, n) ==
  /\ IsStack(t) /\ Len(t) = Len(rs)
  /\ t[Len(rs)].score = n /\ t[Len(rs)].passed = (n > 0) /\ IsScored(t[Len(rs)])
  /\ \A i \in 1 .. Len(rs) : i # Len(rs) => t[i] = rs[i]

\* The last value of a sequence is replaced.
Renewed(rs, t, x) ==
  /\ IsStack(t) /\ Len(t) = Len(rs) /\ Len(rs) \in Nat \ {0} /\ t[Len(rs)] = x
  /\ \A i \in 1 .. Len(rs) : i # Len(rs) => t[i] = rs[i]

\* An update of the last result leaves the others alone.
LEMMA Replaced ==
  ASSUME NEW rs, IsStack(rs), Len(rs) # 0, NEW x
  PROVE  Renewed(rs, [rs EXCEPT ![Len(rs)] = x], x)
<1> DEFINE t == [rs EXCEPT ![Len(rs)] = x]
<1>1. PICK V : rs \in Seq(V)
  BY DEF IsStack
<1> DEFINE n == Len(rs)
           U == V \cup {x}
<1>2. n \in Nat \ {0} /\ DOMAIN rs = 1 .. n /\ rs \in [1 .. n -> V]
  BY <1>1, LenProperties
<1> HIDE DEF n
<1>3. t = [i \in 1 .. n |-> IF i = n THEN x ELSE rs[i]]
  BY <1>2 DEF n
<1>4. t \in [1 .. n -> U]
  BY <1>2, <1>3
<1>5. t[n] = x /\ \A i \in 1 .. n : i # n => t[i] = rs[i]
  BY <1>2, <1>3
<1> HIDE DEF U
<1> HIDE DEF t
<1>6. t \in Seq(U)
  BY <1>2, <1>4
<1>7. Len(t) = n
  BY <1>2, <1>4, <1>6, LenProperties
<1>8. Renewed(rs, t, x)
  BY <1>2, <1>5, <1>6, <1>7 DEF n, IsStack, Renewed
<1> QED
  BY <1>8 DEF t

\* The parts of a result.
LEMMA ScoredIs == \A n, x : Scored(n, x).score = n /\ Scored(n, x).passed = (n > 0)
                            /\ Scored(n, x).reason = x /\ IsScored(Scored(n, x))
  BY DEF Scored, IsScored

\* Two scores in a row are the second one.
LEMMA MarkedTwice ==
  ASSUME NEW rs, NEW t, NEW u, NEW n, NEW m, Marked(rs, t, n), Marked(t, u, m)
  PROVE  Marked(rs, u, m)
  BY DEF Marked

\* Replacing the last result marks it.
LEMMA Marks ==
  ASSUME NEW rs, IsStack(rs), Len(rs) # 0, NEW n, NEW x, NEW t,
         t = [rs EXCEPT ![Len(rs)] = Scored(n, x)]
  PROVE  Marked(rs, t, n) /\ Len(t) # 0
<1> DEFINE y == Scored(n, x)
<1>1. y.score = n /\ y.passed = (n > 0) /\ IsScored(y)
  BY ScoredIs
<1> HIDE DEF y
<1>2. t = [rs EXCEPT ![Len(rs)] = y]
  BY DEF y
<1>3. Renewed(rs, t, y)
  BY <1>2, Replaced
<1> QED
  BY <1>1, <1>3 DEF Marked, Renewed

(***************************************************************************)
(* Actions and the scores they give.                                       *)
(***************************************************************************)
\* An action of a rule that compiles, whose arguments both executions understand.
Understood(r, a) ==
  /\ r \in Rules /\ Compiles(r) /\ a \in ActionsOf(r)
  /\ \A i \in DOMAIN a.args : PortableArgument(r, a, i)

\* A name or a literal is a portable expression whose walk does not fail.
LEMMA SimpleArguments ==
  ASSUME NEW e \in Exprs, e.kind \in {"literal", "id"}
  PROVE  /\ Clean[e][TRUE] /\ Clean[e][FALSE] /\ Typed[e] /\ Shallow[e][0] /\ Plain[e]
         /\ ~Failed(Evaluated[e][0])
<1>1. 0 \in 0 .. MaxExprDepth /\ 0 # MaxExprDepth /\ 0 < MaxExprDepth
  BY DepthAssumption
<1>2. Clean[e] = CleanFrom(Clean, e) /\ Typed[e] = TypedFrom(Typed, e)
      /\ Shallow[e] = ShallowFrom(Shallow, e) /\ Plain[e] = PlainFrom(Plain, e)
  BY CleanUnfolds, TypedUnfolds, ShallowUnfolds, PlainUnfolds
<1>3. CleanFrom(Clean, e)[TRUE] /\ CleanFrom(Clean, e)[FALSE]
  BY DEF CleanFrom
<1>4. TypedFrom(Typed, e) /\ PlainFrom(Plain, e)
  BY DEF TypedFrom, PlainFrom
<1>5. ShallowFrom(Shallow, e)[0]
  BY <1>1 DEF ShallowFrom
<1>6. ~Failed(Evaluated[e][0])
  <2>1. Evaluated[e][0] = Walked(e.value, 1, "NONE") \/ Evaluated[e][0] = Walked(Lookup(e.name), 1, "NONE")
    BY <1>1, Walking
  <2> QED
    BY <2>1 DEF Failed, Walked
<1> QED
  BY <1>2, <1>3, <1>4, <1>5, <1>6

\* The arguments of an action, each an expression.
LEMMA ArgumentsAre ==
  ASSUME NEW r, NEW a, Understood(r, a)
  PROVE  /\ IsAction(a) /\ a \in ActionsOfRules /\ a.args \in Seq(Exprs) /\ Len(a.args) \in Nat
         /\ DOMAIN a.args = 1 .. Len(a.args) /\ \A i \in 1 .. Len(a.args) : a.args[i] \in Exprs
         /\ ActionStack(a) \in Nat /\ ActionStack(a) <= MaxStack
<1>1. IsAction(a) /\ a \in ActionsOfRules /\ ActionStack(a) <= StackOf(r) /\ StackOf(r) \in Nat
  BY RulesAreMadeOf, StacksOfRules DEF Understood
<1>2. a.args \in Seq(Exprs)
  BY <1>1 DEF IsAction
<1>3. StackOf(r) <= MaxStack
  BY DEF Understood, Compiles
<1>4. ActionStack(a) \in Nat
  BY <1>1, ActionStacks
<1>5. Len(a.args) \in Nat /\ DOMAIN a.args = 1 .. Len(a.args) /\ \A i \in 1 .. Len(a.args) : a.args[i] \in Exprs
  BY <1>2, LenProperties
<1> QED
  BY <1>1, <1>2, <1>3, <1>4, <1>5, MaxStackAssumption

\* The arguments of an action fit on the empty stack.
LEMMA ArgumentsFitAll ==
  ASSUME NEW r, NEW a, Understood(r, a)
  PROVE  FitAll(a.args, <<>>, TRUE, 0) /\ Len(<<>>) + Len(a.args) + 1 <= MaxStack
<1> DEFINE q == a.args
           n == Len(q)
<1>1. /\ IsAction(a) /\ n \in Nat /\ DOMAIN q = 1 .. n /\ \A i \in 1 .. n : q[i] \in Exprs
      /\ ActionStack(a) \in Nat /\ ActionStack(a) <= MaxStack
  BY ArgumentsAre
<1>2. /\ n + 1 <= ActionStack(a) /\ \A i \in 1 .. n : StackUsed[q[i]] + (i - 1) <= ActionStack(a)
  BY <1>1, ActionStacks
<1>3. IsStack(<<>>) /\ Len(<<>>) = 0
  BY NothingOn
<1>4. ASSUME NEW i \in 1 .. n
      PROVE  /\ Compiled(q[i])
             /\ Clean[q[i]][TRUE /\ i = 1] /\ Typed[q[i]] /\ Shallow[q[i]][0] /\ Plain[q[i]]
             /\ 0 + (i - 1) + StackUsed[q[i]] <= MaxStack
  <2> DEFINE e == q[i]
  <2>1. e \in Exprs /\ Compiled(e)
    BY <1>1, ExpressionsRun
  <2>2. PortableArgument(r, a, i)
    BY <1>1 DEF Understood
  <2>3. StackUsed[e] \in Nat /\ StackUsed[e] + (i - 1) <= ActionStack(a)
    BY <1>2, <2>1, StackUsedPositive
  <2>4. 0 + (i - 1) + StackUsed[e] <= MaxStack
    BY <1>1, <2>3, MaxStackAssumption
  <2>5. CASE e.kind \in {"literal", "id"}
    <3>1. Clean[e][TRUE] /\ Clean[e][FALSE] /\ Typed[e] /\ Shallow[e][0] /\ Plain[e]
      BY <2>1, <2>5, SimpleArguments
    <3>2. (TRUE /\ i = 1) = TRUE \/ (TRUE /\ i = 1) = FALSE
      OBVIOUS
    <3>3. Clean[e][TRUE /\ i = 1]
      BY <3>1, <3>2
    <3> QED
      BY <2>1, <2>4, <3>1, <3>3
  <2>6. CASE e.kind \notin {"literal", "id"}
    <3>1. i = 1 /\ PortableExpr(e)
      BY <2>2, <2>6 DEF PortableArgument
    <3>2. (TRUE /\ i = 1) = TRUE
      BY <3>1
    <3>3. Clean[e][TRUE /\ i = 1] /\ Typed[e] /\ Shallow[e][0] /\ Plain[e]
      BY <3>1, <3>2 DEF PortableExpr
    <3> QED
      BY <2>1, <2>4, <3>3
  <2> QED
    BY <2>5, <2>6
<1>5. FitAll(q, <<>>, TRUE, 0)
  <2> HIDE DEF n, q
  <2> QED
    BY <1>3, <1>4 DEF FitAll, n
<1>6. Len(<<>>) + n + 1 <= MaxStack
  BY <1>1, <1>2, <1>3, MaxStackAssumption
<1> QED
  BY <1>5, <1>6

\* The score an action is asked for cannot be evaluated.
Refuses(a) == a.name = "score" /\ a.args # <<>> /\ Failed(Evaluate(a.args[1], 0))

\* No other argument fails.
LEMMA OnlyScoresFail ==
  ASSUME NEW r, NEW a, Understood(r, a)
  PROVE  /\ LastError(WalksOf(a.args, 0)) # "NONE" <=> Refuses(a)
         /\ a.name = "fail_metric" /\ Len(a.args) > 1 => ~Failed(Evaluate(a.args[2], 0))
<1> DEFINE q == a.args
           n == Len(q)
           W == WalksOf(q, 0)
<1>1. q \in Seq(Exprs) /\ n \in Nat /\ DOMAIN q = 1 .. n /\ \A i \in 1 .. n : q[i] \in Exprs
  BY ArgumentsAre
<1>2. DOMAIN W = 1 .. n /\ \A i \in 1 .. n : W[i] = Evaluate(q[i], 0)
  BY <1>1 DEF WalksOf, Evaluate
<1>3. LastError(W) = "NONE" <=> \A i \in 1 .. n : ~Failed(W[i])
  <2> HIDE DEF n, W
  <2> QED
    BY <1>1, <1>2, FailsOfMany
<1>4. \A i \in 1 .. n : Failed(Evaluate(q[i], 0)) => a.name = "score" /\ i = 1
  <2> SUFFICES ASSUME NEW i \in 1 .. n, Failed(Evaluate(q[i], 0)) PROVE a.name = "score" /\ i = 1
    OBVIOUS
  <2>1. q[i].kind \notin {"literal", "id"}
    BY <1>1, SimpleArguments DEF Evaluate
  <2>2. PortableArgument(r, a, i)
    BY <1>1 DEF Understood
  <2> QED
    BY <2>1, <2>2 DEF PortableArgument
<1>5. q # <<>> <=> 1 \in 1 .. n
  BY <1>1
<1>6. LastError(W) # "NONE" <=> Refuses(a)
  <2> HIDE DEF n, W
  <2> QED
    BY <1>2, <1>3, <1>4, <1>5 DEF Refuses, q
<1>7. a.name = "fail_metric" /\ n > 1 => ~Failed(Evaluate(q[2], 0))
  <2>1. n > 1 => 2 \in 1 .. n
    BY <1>1
  <2> QED
    BY <1>4, <2>1
<1> QED
  BY <1>6, <1>7

\* An action is called, unless its score cannot be evaluated.
Acted(z, p, n, rs, ts, a) ==
  IF Refuses(a) THEN Aborts(z, Ready(p, <<>>, rs, ts))
  ELSE Goes(z, Ready(p, <<>>, rs, ts), Ready(p + n, <<>>, rs, Triggered(ts, a)))

\* The code of an action calls it with the values the tree walk calls it with.
LEMMA ActionRuns ==
  ASSUME NEW r, NEW a, Understood(r, a), NEW z \in Seq(Insts), NEW p, Sits(z, p, ActionCode(a)),
         NEW rs, NEW ts
  PROVE  Acted(z, p, Len(ActionCode(a)), rs, ts, a)
<1> DEFINE q == a.args
           n == Len(FlattenSeq(CodesOf(q)))
           t == Len(ActionCode(a))
           m == Len(q)
           W == WalksOf(q, 0)
           v == ValuesOf(W)
           y == ActionOp(a.name)
           none == <<>>
           bare == TRUE
<1>1. q \in Seq(Exprs) /\ m \in Nat /\ a \in ActionsOfRules
  BY ArgumentsAre
<1>2. FitAll(q, none, bare, 0) /\ Len(none) + m + 1 <= MaxStack
  BY ArgumentsFitAll
<1>3. ActionCode(a) = FlattenSeq(CodesOf(q)) \o <<Push(Number(m)), y>>
  BY DEF ActionCode, CodesOf
<1>4. y \in Insts
  BY <1>1, InstsAreInsts
<1>5. bare \in BOOLEAN /\ 0 \in 0 .. MaxExprDepth
  BY DepthAssumption
<1>6. Numbered(z, p, n, t, none, rs, ts, W, m, y)
  <2> DEFINE o == 0
  <2>1. /\ q \in Seq(Exprs) /\ o \in 0 .. MaxExprDepth /\ bare \in BOOLEAN /\ FitAll(q, none, bare, o)
        /\ Len(none) + Len(q) + 1 <= MaxStack /\ y \in Insts
        /\ n = Len(FlattenSeq(CodesOf(q)))
    BY <1>1, <1>2, <1>4, <1>5
  <2>2. Sits(z, p, FlattenSeq(CodesOf(q)) \o <<Push(Number(Len(q))), y>>)
    BY <1>3
  <2>3. t = Len(FlattenSeq(CodesOf(q)) \o <<Push(Number(Len(q))), y>>)
    BY <1>3
  <2> HIDE DEF q, y, o, n, t, none, bare
  <2>4. Numbered(z, p, n, t, none, rs, ts, WalksOf(q, o), Len(q), y)
    BY <2>1, <2>2, <2>3, NumberedRun
  <2> QED
    BY <2>4 DEF o
<1> HIDE DEF n, m, t, none
<1>7. /\ n \in Nat /\ p \in Nat \ {0} /\ IsStack(v) /\ Len(v) = m
      /\ Sits(z, p + n + 1, <<y>>) /\ t = n + 2
  BY <1>6 DEF Numbered
<1>8. LastError(W) # "NONE" <=> Refuses(a)
  BY OnlyScoresFail
<1>9. CASE Refuses(a)
  <2>1. Aborts(z, Ready(p, none, rs, ts))
    BY <1>6, <1>8, <1>9 DEF Numbered
  <2> QED
    BY <1>9, <2>1 DEF Acted, none
<1>10. CASE ~Refuses(a)
  <2> DEFINE j == p + n + 1
  <2>1. Goes(z, Ready(p, none, rs, ts), Ready(j, Append(none \o v, Number(m)), rs, ts))
    BY <1>6, <1>8, <1>10 DEF Numbered
  <2>2. Sits(z, j, <<ActionOp(a.name)>>)
    BY <1>7
  <2>3. IsStack(none)
    BY NothingOn DEF none
  <2> HIDE DEF j, v, q, W
  <2>4. Goes(z, Ready(j, Append(none \o v, Number(m)), rs, ts),
                Ready(j + 1, none, rs, Triggered(ts, a)))
    <3>1. Goes(z, Ready(j, Append(none \o v, Number(Len(v))), rs, ts),
                  Ready(j + 1, none, rs, Triggered(ts, a)))
      BY <1>7, <2>2, <2>3, ActRuns
    <3> QED
      BY <1>7, <3>1
  <2>5. Goes(z, Ready(p, none, rs, ts), Ready(j + 1, none, rs, Triggered(ts, a)))
    BY <2>1, <2>4, Onwards
  <2>6. j + 1 = p + t
    BY <1>7 DEF j
  <2>7. Goes(z, Ready(p, none, rs, ts), Ready(p + t, none, rs, Triggered(ts, a)))
    BY <2>5, <2>6
  <2> QED
    BY <1>10, <2>7 DEF Acted, none, t
<1> QED
  BY <1>9, <1>10

\* The score an action gives.
Points(v) == IF v.type = "INT" THEN v.data ELSE 0

Score(a, otherwise) ==
  IF a.name = "score" /\ a.args # <<>> THEN Points(Evaluate(a.args[1], 0).value)
  ELSE IF a.name = "fail_metric" THEN 0 ELSE otherwise

\* Without a limit the tree walk gives it too.
LEMMA GivesScore ==
  ASSUME limit = 0, NEW r, NEW a, Understood(r, a), NEW otherwise, NEW n
  PROVE  /\ Failed(Giving(a, otherwise, n).walked) <=> Refuses(a)
         /\ ~Refuses(a) => Giving(a, otherwise, n).walked.error = "NONE"
         /\ ~Refuses(a) => Giving(a, otherwise, n).score = Score(a, otherwise)
<1>1. \A e : WalkFrom(e, n).value = Evaluate(e, 0).value
             /\ (Failed(WalkFrom(e, n)) <=> Failed(Evaluate(e, 0)))
  <2> SUFFICES ASSUME NEW e
               PROVE  /\ WalkFrom(e, n).value = Evaluate(e, 0).value
                      /\ (Failed(WalkFrom(e, n)) <=> Failed(Evaluate(e, 0)))
    OBVIOUS
  <2> DEFINE w == Evaluate(e, 0)
  <2>1. Limited(w, n) = Walked(w.value, n + w.nodes, w.error)
    BY DEF Limited
  <2> HIDE DEF w
  <2>2. Limited(w, n).value = w.value /\ Limited(w, n).error = w.error
    BY <2>1 DEF Walked
  <2> QED
    BY <2>2 DEF WalkFrom, Failed, w
<1>2. \A s, x, w : Given(s, x, w).score = s /\ Given(s, x, w).walked = w
  BY DEF Given
<1>3. CASE a.name = "score" /\ a.args # <<>>
  <2> DEFINE w == WalkFrom(a.args[1], n)
  <2>1. Giving(a, otherwise, n) = Given(IF w.value.type = "INT" THEN w.value.data ELSE 0, NoReason, w)
    BY <1>3 DEF Giving
  <2>2. Giving(a, otherwise, n).walked = w /\ Giving(a, otherwise, n).score = Points(w.value)
    BY <1>2, <2>1 DEF Points
  <2> QED
    BY <1>1, <1>3, <2>2 DEF Refuses, Score, Failed
<1>4. CASE a.name = "fail_metric" /\ Len(a.args) > 1
  <2> DEFINE w == WalkFrom(a.args[2], n)
  <2>1. Giving(a, otherwise, n)
          = Given(0, IF ~Failed(w) /\ w.value.type = "STRING" THEN w.value.data ELSE NoReason, w)
    BY <1>4 DEF Giving
  <2>2. Giving(a, otherwise, n).walked = w /\ Giving(a, otherwise, n).score = 0
    BY <1>2, <2>1
  <2>3. ~Failed(w)
    BY <1>1, <1>4, OnlyScoresFail
  <2> QED
    BY <1>4, <2>2, <2>3 DEF Refuses, Score, Failed
<1>5. CASE a.name = "fail_metric" /\ ~(Len(a.args) > 1)
  <2>1. Len(a.args) <= 1
    BY <1>5, ArgumentsAre
  <2>2. Giving(a, otherwise, n) = Given(0, NoReason, Walked(Void, n, "NONE"))
    BY <1>5, <2>1 DEF Giving
  <2>3. Giving(a, otherwise, n).walked = Walked(Void, n, "NONE") /\ Giving(a, otherwise, n).score = 0
    BY <1>2, <2>2
  <2> QED
    BY <1>5, <2>3 DEF Refuses, Score, Failed, Walked
<1>6. CASE ~(a.name = "score" /\ a.args # <<>>) /\ a.name # "fail_metric"
  <2>1. Giving(a, otherwise, n) = Given(otherwise, NoReason, Walked(Void, n, "NONE"))
    BY <1>6 DEF Giving
  <2>2. Giving(a, otherwise, n).walked = Walked(Void, n, "NONE") /\ Giving(a, otherwise, n).score = otherwise
    BY <1>2, <2>1
  <2> QED
    BY <1>6, <2>2 DEF Refuses, Score, Failed, Walked
<1> QED
  BY <1>3, <1>4, <1>5, <1>6

\* The instructions for the score set it.
Scores(z, p, n, rs, ts, k) ==
  \E t : Marked(rs, t, k) /\ Len(t) # 0 /\ Goes(z, Ready(p, <<>>, rs, ts), Ready(p + n, <<>>, t, ts))

\* The value on the stack becomes the score of the metric.
LEMMA SetsScore ==
  ASSUME NEW z \in Seq(Insts), NEW p, Sits(z, p, <<Inst("SET_SCORE")>>), NEW v,
         NEW rs, IsStack(rs), Len(rs) # 0, NEW ts
  PROVE  \E t : /\ Marked(rs, t, Points(v)) /\ Len(t) # 0
                /\ Goes(z, Ready(p, Append(<<>>, v), rs, ts), Ready(p + 1, <<>>, t, ts))
<1> DEFINE none == <<>>
           k == IF v.type = "INT" THEN v.data ELSE 0
           t == [rs EXCEPT ![Len(rs)] = Scored(k, @.reason)]
           x == rs[Len(rs)].reason
<1>1. IsStack(none)
  BY NothingOn
<1> HIDE DEF none
<1>2. Goes(z, Ready(p, Append(none, v), rs, ts), Ready(p + 1, none, t, ts))
  BY <1>1, ScoreRuns
<1>3. t = [rs EXCEPT ![Len(rs)] = Scored(k, x)]
  OBVIOUS
<1>4. k = Points(v)
  BY DEF Points
<1> HIDE DEF k, t, x
<1>5. Marked(rs, t, k) /\ Len(t) # 0
  BY <1>3, Marks
<1>6. Marked(rs, t, Points(v))
  BY <1>4, <1>5
<1> QED
  BY <1>2, <1>5, <1>6 DEF none

\* So does a constant.
LEMMA ConstantScores ==
  ASSUME NEW z \in Seq(Insts), NEW p, NEW k \in Int,
         Sits(z, p, <<Push(Number(k)), Inst("SET_SCORE")>>),
         NEW rs, IsStack(rs), Len(rs) # 0, NEW ts
  PROVE  Scores(z, p, 2, rs, ts, k)
<1> DEFINE none == <<>>
           x == Push(Number(k))
           y == Inst("SET_SCORE")
           g == <<x>>
           h == <<y>>
<1>1. /\ <<x, y>> = g \o h /\ g \in Seq(Insts) /\ h \in Seq(Insts) /\ Len(g) = 1
  BY InstsAreInsts, OneAndOne
<1>2. Sits(z, p, g \o h)
  BY <1>1
<1> HIDE DEF g, h
<1>3. Sits(z, p, g) /\ Sits(z, p + 1, h) /\ p \in Nat
  <2>1. z \in Seq(Insts) /\ g \in Seq(Insts) /\ h \in Seq(Insts)
    BY <1>1
  <2>2. Sits(z, p, g) /\ p \in Nat \ {0}
    BY <1>2, <2>1, SitsBoth
  <2>3. Sits(z, p + Len(g), h)
    BY <1>2, <2>1, SitsBoth
  <2> QED
    BY <1>1, <2>2, <2>3
<1>4. Sits(z, p, <<Push(Number(k))>>) /\ Sits(z, p + 1, <<Inst("SET_SCORE")>>)
  BY <1>3 DEF g, h
<1>5. ~(Len(none) >= MaxStack)
  BY NothingOn, MaxStackAssumption
<1> DEFINE v == Number(k)
           j == p + 1
<1>6. Points(v) = k
  BY DEF Points, Number, Value
<1> HIDE DEF none, v
<1>7. Goes(z, Ready(p, none, rs, ts), Ready(j, Append(none, v), rs, ts))
  BY <1>4, <1>5, PushRuns DEF v
<1>8. j + 1 = p + 2
  BY <1>3
<1> HIDE DEF j
<1>9. PICK t : /\ Marked(rs, t, Points(v)) /\ Len(t) # 0
               /\ Goes(z, Ready(j, Append(<<>>, v), rs, ts), Ready(j + 1, <<>>, t, ts))
  <2>1. Sits(z, j, <<Inst("SET_SCORE")>>)
    BY <1>4 DEF j
  <2> QED
    BY <2>1, SetsScore
<1>10. Goes(z, Ready(p, none, rs, ts), Ready(p + 2, none, t, ts))
  BY <1>7, <1>8, <1>9, Onwards DEF none
<1> QED
  BY <1>6, <1>9, <1>10 DEF Scores, none

\* The code of a score leaves the score the tree walk gives.
LEMMA ScoresRun ==
  ASSUME NEW r, NEW a, Understood(r, a), ~Refuses(a), NEW otherwise \in Int, NEW z \in Seq(Insts),
         NEW p, Sits(z, p, ScoreCode(a, otherwise)), NEW rs, IsStack(rs), Len(rs) # 0, NEW ts
  PROVE  Scores(z, p, Len(ScoreCode(a, otherwise)), rs, ts, Score(a, otherwise))
<1> DEFINE c == ScoreCode(a, otherwise)
           y == Inst("SET_SCORE")
           none == <<>>
<1>1. a.args \in Seq(Exprs) /\ IsAction(a)
  BY ArgumentsAre
<1>2. CASE a.name = "score" /\ a.args # <<>>
  <2> DEFINE e == a.args[1]
             n == Len(Code[e])
             v == Evaluated[e][0].value
  <2>1. e \in Exprs /\ Code[e] \in Seq(Insts) /\ y \in Insts /\ 1 \in 1 .. Len(a.args)
    BY <1>1, <1>2, FirstArgument, CodeUnfolds, InstsAreInsts, ArgumentsAre
  <2>2. c = Append(Code[e], y)
    BY <1>2 DEF ScoreCode
  <2>3. Sits(z, p, Code[e]) /\ Sits(z, p + n, <<y>>) /\ p + Len(c) = p + n + 1
    <3> DEFINE d == Code[e]
    <3>1. d \in Seq(Insts) /\ y \in Insts /\ Sits(z, p, Append(d, y)) /\ c = Append(d, y)
      BY <2>1, <2>2
    <3> HIDE DEF d, y
    <3> QED
      BY <3>1, SitsLast DEF d
  <2>4. Fit(e, none, TRUE, 0)
    <3>1. FitAll(a.args, <<>>, TRUE, 0)
      BY ArgumentsFitAll
    <3>2. /\ Clean[e][TRUE /\ 1 = 1] /\ Typed[e] /\ Shallow[e][0] /\ Plain[e]
          /\ Len(<<>>) + (1 - 1) + StackUsed[e] <= MaxStack
      BY <2>1, <3>1 DEF FitAll
    <3>3. (TRUE /\ 1 = 1) = TRUE /\ StackUsed[e] \in Nat /\ Len(<<>>) = 0 /\ IsStack(<<>>)
      BY <2>1, StackUsedPositive, NothingOn
    <3>4. Len(<<>>) + StackUsed[e] <= MaxStack
      BY <3>2, <3>3
    <3>5. Clean[e][TRUE]
      BY <3>2, <3>3
    <3> QED
      BY <3>2, <3>3, <3>4, <3>5 DEF Fit
  <2>5. Yields(z, p, n, none, rs, ts, Evaluated[e][0])
    <3>1. Compiled(e) /\ 0 \in 0 .. MaxExprDepth
      BY <2>1, ExpressionsRun, DepthAssumption
    <3> QED
      BY <2>3, <2>4, <3>1 DEF Compiled
  <2>6. ~Failed(Evaluated[e][0])
    BY <1>2 DEF Refuses, Evaluate
  <2> HIDE DEF e, n, v
  <2>7. Goes(z, Ready(p, none, rs, ts), Ready(p + n, Append(none, v), rs, ts))
    BY <2>5, <2>6 DEF Yields, v
  <2> DEFINE j == p + n
  <2>8. PICK t : /\ Marked(rs, t, Points(v)) /\ Len(t) # 0
                 /\ Goes(z, Ready(j, Append(<<>>, v), rs, ts), Ready(j + 1, <<>>, t, ts))
    <3>1. Sits(z, j, <<Inst("SET_SCORE")>>)
      BY <2>3
    <3> HIDE DEF j
    <3> QED
      BY <3>1, SetsScore
  <2>9. Goes(z, Ready(p, none, rs, ts), Ready(j + 1, none, t, ts))
    BY <2>7, <2>8, Onwards
  <2>10. Points(v) = Score(a, otherwise)
    BY <1>2 DEF Score, Evaluate, e, v
  <2> QED
    BY <2>3, <2>8, <2>9, <2>10 DEF Scores
<1>3. CASE ~(a.name = "score" /\ a.args # <<>>) /\ a.name # "fail_metric"
  <2>1. c = <<Push(Number(otherwise)), Inst("SET_SCORE")>> /\ Score(a, otherwise) = otherwise
    BY <1>3 DEF ScoreCode, Score
  <2>2. Len(c) = 2
    BY <2>1
  <2>3. Scores(z, p, 2, rs, ts, otherwise)
    BY <2>1, ConstantScores
  <2> QED
    BY <2>1, <2>2, <2>3
<1>4. CASE a.name = "fail_metric"
  <2> DEFINE g == <<Push(Number(0)), Inst("SET_SCORE")>>
             h == ReasonCode(a)
             reason == a.args[2].value.data
  <2>1. c = g \o h /\ Score(a, otherwise) = 0
    BY <1>4 DEF ScoreCode, Score
  <2>2. h = <<>> \/ h = <<FailMetric(reason)>>
    BY DEF ReasonCode
  <2>3. g \in Seq(Insts) /\ h \in Seq(Insts) /\ Len(g) = 2
    <3>1. g \in Seq(Insts) /\ Len(g) = 2
      BY InstsAreInsts, Pairs
    <3>2. a \in ActionsOfRules
      BY ArgumentsAre
    <3>3. FailMetric(reason) \in Insts
      BY <3>2, InstsAreInsts
    <3>4. <<FailMetric(reason)>> \in Seq(Insts) /\ <<>> \in Seq(Insts)
      BY <3>3, Pairs, EmptySeq
    <3> QED
      BY <2>2, <3>1, <3>4
  <2> HIDE DEF h
  <2>4. Sits(z, p, g) /\ Sits(z, p + 2, h) /\ p + Len(c) = p + 2 + Len(h) /\ p \in Nat
    <3> DEFINE G == g
    <3>1. z \in Seq(Insts) /\ G \in Seq(Insts) /\ h \in Seq(Insts) /\ Sits(z, p, G \o h)
      BY <2>1, <2>3
    <3> HIDE DEF G, g
    <3>2. Sits(z, p, G) /\ p \in Nat \ {0}
      BY <3>1, SitsBoth
    <3>3. Sits(z, p + Len(G), h)
      BY <3>1, SitsBoth
    <3>4. p + Len(G \o h) = p + Len(G) + Len(h)
      BY <3>1, SitsBoth
    <3> QED
      BY <2>1, <2>3, <3>2, <3>3, <3>4 DEF G
  <2>5. Scores(z, p, 2, rs, ts, 0)
    BY <2>4, ConstantScores
  <2>6. CASE h = <<>>
    <3>1. p + Len(c) = p + 2
      BY <2>4, <2>6
    <3>2. Scores(z, p, Len(c), rs, ts, 0)
      <4> HIDE DEF c
      <4> QED
        BY <2>5, <3>1 DEF Scores
    <3> QED
      BY <2>1, <3>2
  <2>7. CASE h = <<FailMetric(reason)>>
    <3>1. p + Len(c) = (p + 2) + 1 /\ Sits(z, p + 2, <<FailMetric(reason)>>)
      BY <2>4, <2>7
    <3>2. PICK t : Marked(rs, t, 0) /\ Len(t) # 0
                   /\ Goes(z, Ready(p, <<>>, rs, ts), Ready(p + 2, <<>>, t, ts))
      BY <2>5 DEF Scores
    <3> DEFINE u == [t EXCEPT ![Len(t)] = Scored(0, reason)]
               j == p + 2
    <3>3. Sits(z, j, <<FailMetric(reason)>>)
      BY <3>1
    <3> HIDE DEF reason, j
    <3>4. Goes(z, Ready(j, none, t, ts), Ready(j + 1, none, u, ts))
      BY <3>3, ReasonRuns
    <3>5. Marked(t, u, 0) /\ Len(u) # 0
      <4>1. IsStack(t)
        BY <3>2 DEF Marked
      <4> QED
        BY <3>2, <4>1, Marks
    <3> HIDE DEF u
    <3>6. Marked(rs, u, 0)
      BY <3>2, <3>5, MarkedTwice
    <3>7. Goes(z, Ready(p, none, rs, ts), Ready(j + 1, none, u, ts))
      BY <3>2, <3>4, Onwards DEF j
    <3>8. Goes(z, Ready(p, none, rs, ts), Ready(p + Len(c), none, u, ts))
      BY <3>1, <3>7 DEF j
    <3>9. Scores(z, p, Len(c), rs, ts, 0)
      <4> HIDE DEF c
      <4> QED
        BY <3>5, <3>6, <3>8 DEF Scores
    <3> QED
      BY <2>1, <3>9
  <2> QED
    BY <2>2, <2>6, <2>7
<1> QED
  BY <1>2, <1>3, <1>4

(***************************************************************************)
(* Cases.                                                                  *)
(***************************************************************************)
\* What a case asks for and gets: its action is called and the score is set.
Rewards(z, p, q, rs, ts, a, k) ==
  IF Refuses(a) THEN Aborts(z, Ready(p, <<>>, rs, ts))
  ELSE \E t : /\ Marked(rs, t, k) /\ Len(t) # 0
              /\ Goes(z, Ready(p, <<>>, rs, ts), Ready(q, <<>>, t, Triggered(ts, a)))

Body(a, otherwise) == ActionCode(a) \o ScoreCode(a, otherwise)

\* Actions and scores are compiled to instructions.
LEMMA BodiesAre ==
  ASSUME NEW r, NEW a, Understood(r, a), NEW otherwise \in Int
  PROVE  /\ ActionCode(a) \in Seq(Insts) /\ ScoreCode(a, otherwise) \in Seq(Insts)
         /\ Body(a, otherwise) \in Seq(Insts)
<1>1. IsAction(a) /\ a \in ActionsOfRules
  BY ArgumentsAre
<1>2. ActionCode(a) \in Seq(Insts) /\ ScoreCode(a, otherwise) \in Seq(Insts)
  BY <1>1, ActionCodes, ScoreCodes
<1> QED
  BY <1>2, ConcatProperties DEF Body

\* The body of a case calls its action and sets its score.
LEMMA BodyRuns ==
  ASSUME NEW r, NEW a, Understood(r, a), NEW otherwise \in Int, NEW z \in Seq(Insts),
         NEW p, Sits(z, p, Body(a, otherwise)), NEW rs, IsStack(rs), Len(rs) # 0, NEW ts
  PROVE  Rewards(z, p, p + Len(Body(a, otherwise)), rs, ts, a, Score(a, otherwise))
<1> DEFINE c == ActionCode(a)
           d == ScoreCode(a, otherwise)
           none == <<>>
           n == Len(c)
           m == Len(d)
           k == Score(a, otherwise)
<1>1. c \in Seq(Insts) /\ d \in Seq(Insts) /\ Body(a, otherwise) = c \o d
  BY BodiesAre DEF Body
<1>2. /\ Sits(z, p, c) /\ Sits(z, p + n, d) /\ p + Len(Body(a, otherwise)) = p + n + m
  <2> HIDE DEF c, d, n, m
  <2>1. z \in Seq(Insts) /\ c \in Seq(Insts) /\ d \in Seq(Insts) /\ Sits(z, p, c \o d)
    BY <1>1
  <2>2. Sits(z, p, c)
    BY <2>1, SitsBoth
  <2>3. Sits(z, p + Len(c), d)
    BY <2>1, SitsBoth
  <2>4. p + Len(c \o d) = p + Len(c) + Len(d)
    BY <2>1, SitsBoth
  <2> QED
    BY <1>1, <2>2, <2>3, <2>4 DEF n, m
<1>3. Acted(z, p, n, rs, ts, a)
  BY <1>2, ActionRuns
<1>4. CASE Refuses(a)
  BY <1>3, <1>4 DEF Acted, Rewards
<1>5. CASE ~Refuses(a)
  <2> DEFINE j == p + n
             us == Triggered(ts, a)
  <2>1. Sits(z, j, ScoreCode(a, otherwise))
    BY <1>2
  <2>2. Goes(z, Ready(p, none, rs, ts), Ready(j, none, rs, us))
    BY <1>3, <1>5 DEF Acted
  <2> HIDE DEF j, us
  <2>3. Scores(z, j, m, rs, us, k)
    BY <1>5, <2>1, ScoresRun
  <2>4. PICK t : Marked(rs, t, k) /\ Len(t) # 0 /\ Goes(z, Ready(j, <<>>, rs, us), Ready(j + m, <<>>, t, us))
    BY <2>3 DEF Scores
  <2>5. Goes(z, Ready(p, none, rs, ts), Ready(j + m, none, t, us))
    BY <2>2, <2>4, Onwards
  <2>6. j + m = p + Len(Body(a, otherwise))
    BY <1>2 DEF j
  <2>7. Goes(z, Ready(p, none, rs, ts), Ready(p + Len(Body(a, otherwise)), none, t, us))
    BY <2>5, <2>6
  <2> QED
    BY <1>5, <2>4, <2>7 DEF Rewards, us
<1> QED
  BY <1>4, <1>5

\* The code of a condition leaves a truth value.
LEMMA ConditionRuns ==
  ASSUME NEW r \in Rules, Compiles(r), Portable(r), NEW e \in ConditionsOf(r),
         NEW z \in Seq(Insts), NEW p, Sits(z, p, Code[e]), NEW rs, NEW ts
  PROVE  /\ Yields(z, p, Len(Code[e]), <<>>, rs, ts, Evaluate(e, 0))
         /\ ~Failed(Evaluate(e, 0)) => Evaluate(e, 0).value \in Truths
<1>1. e \in Exprs /\ StackUsed[e] <= StackOf(r) /\ StackOf(r) \in Nat /\ StackOf(r) <= MaxStack
  BY RulesAreMadeOf, StacksOfRules DEF Compiles
<1>2. StackUsed[e] \in Nat /\ Len(<<>>) = 0 /\ IsStack(<<>>) /\ 0 \in 0 .. MaxExprDepth
  BY <1>1, StackUsedPositive, NothingOn, DepthAssumption
<1>3. Len(<<>>) + StackUsed[e] <= MaxStack
  BY <1>1, <1>2, MaxStackAssumption
<1>4. Clean[e][TRUE] /\ Typed[e] /\ Shallow[e][0] /\ Plain[e] /\ GivesBool[e]
  BY DEF Portable, PortableExpr
<1>5. Fit(e, <<>>, TRUE, 0)
  BY <1>2, <1>3, <1>4 DEF Fit
<1>6. Compiled(e)
  BY <1>1, ExpressionsRun
<1>7. Yields(z, p, Len(Code[e]), <<>>, rs, ts, Evaluated[e][0])
  BY <1>2, <1>5, <1>6 DEF Compiled
<1>8. ~Failed(Evaluated[e][0]) => Evaluated[e][0].value \in Truths
  BY <1>1, <1>2, <1>4, GivesTruth
<1> QED
  BY <1>7, <1>8 DEF Evaluate

\* Two instructions in their places.
LEMMA SitsPair ==
  ASSUME NEW z \in Seq(Insts), NEW p, NEW x \in Insts, NEW y \in Insts, Sits(z, p, <<x, y>>)
  PROVE  Sits(z, p, <<x>>) /\ Sits(z, p + 1, <<y>>) /\ p \in Nat \ {0}
<1> DEFINE g == <<x>>
           h == <<y>>
<1>1. <<x, y>> = g \o h
  BY OneAndOne
<1>2. g \in Seq(Insts) /\ h \in Seq(Insts) /\ Len(g) = 1
  OBVIOUS
<1>3. Sits(z, p, g \o h)
  BY <1>1
<1> HIDE DEF g, h
<1>4. z \in Seq(Insts) /\ g \in Seq(Insts) /\ h \in Seq(Insts)
  BY <1>2
<1>5. Sits(z, p, g) /\ p \in Nat \ {0}
  BY <1>3, <1>4, SitsBoth
<1>6. Sits(z, p + Len(g), h)
  BY <1>3, <1>4, SitsBoth
<1> QED
  BY <1>2, <1>5, <1>6 DEF g, h

\* The places of the parts of a case.
CaseLaid(z, p, c, w, rest, n, m) ==
  /\ p \in Nat \ {0} /\ n \in Nat /\ m \in Nat /\ Len(rest) \in Nat
  /\ n = Len(Code[c.condition]) /\ m = Len(Body(c.action, w))
  /\ Sits(z, p, Code[c.condition])
  /\ Sits(z, p + n, <<JumpIf(FALSE, m + 3)>>) /\ Sits(z, p + n + 1, <<PopTop>>)
  /\ Sits(z, p + n + 2, Body(c.action, w))
  /\ Sits(z, p + n + m + 2, <<Jump(Len(rest) + 2)>>) /\ Sits(z, p + n + m + 3, <<PopTop>>)
  /\ Sits(z, p + n + m + 4, rest)
  /\ p + Len(CaseCode(c, w, rest)) = p + n + m + 4 + Len(rest)

\* The pieces of the code of a case sit where CaseLaid says.
LEMMA CasesLaid ==
  ASSUME NEW r, NEW c, c.condition \in Exprs, Understood(r, c.action), NEW w \in Int,
         NEW rest \in Seq(Insts), NEW z \in Seq(Insts), NEW p, Sits(z, p, CaseCode(c, w, rest))
  PROVE  CaseLaid(z, p, c, w, rest, Len(Code[c.condition]), Len(Body(c.action, w)))
<1> DEFINE C == Code[c.condition]
           B == Body(c.action, w)
           n == Len(C)
           m == Len(B)
           k == Len(rest)
           J == <<JumpIf(FALSE, m + 3), PopTop>>
           K == <<Jump(k + 2), PopTop>>
           X2 == C \o J
           X3 == X2 \o B
           X4 == X3 \o K
<1>1. CaseCode(c, w, rest) = X4 \o rest
  BY DEF CaseCode, Body
<1>2. C \in Seq(Insts) /\ B \in Seq(Insts)
  BY CodeUnfolds, BodiesAre
<1>3. n \in Nat /\ m \in Nat /\ k \in Nat
  <2> HIDE DEF B, C
  <2> QED
    BY <1>2, LenProperties
<1> HIDE DEF n, m, k
<1>4. /\ JumpIf(FALSE, m + 3) \in Insts /\ PopTop \in Insts /\ Jump(k + 2) \in Insts
  <2>1. m + 3 \in Nat \ {0} /\ k + 2 \in Nat \ {0}
    BY <1>3
  <2> QED
    BY <2>1, InstsAreInsts
<1>5. J \in Seq(Insts) /\ K \in Seq(Insts) /\ Len(J) = 2 /\ Len(K) = 2
  BY <1>4, Pairs
<1> HIDE DEF B, C, J, K
<1>6. X2 \in Seq(Insts) /\ X3 \in Seq(Insts) /\ X4 \in Seq(Insts)
  BY <1>2, <1>5, ConcatProperties
<1> HIDE DEF X2, X3, X4
<1>7. Sits(z, p, X4) /\ Sits(z, p + Len(X4), rest) /\ p \in Nat \ {0}
      /\ p + Len(CaseCode(c, w, rest)) = p + Len(X4) + k
  <2>1. Sits(z, p, X4 \o rest) /\ z \in Seq(Insts) /\ X4 \in Seq(Insts) /\ rest \in Seq(Insts)
    BY <1>1, <1>6
  <2>2. Sits(z, p, X4) /\ p \in Nat \ {0}
    BY <2>1, SitsBoth
  <2>3. Sits(z, p + Len(X4), rest)
    BY <2>1, SitsBoth
  <2>4. p + Len(X4 \o rest) = p + Len(X4) + Len(rest)
    BY <2>1, SitsBoth
  <2> QED
    BY <1>1, <2>2, <2>3, <2>4 DEF k
<1>8. Sits(z, p, X3) /\ Sits(z, p + Len(X3), K) /\ p + Len(X4) = p + Len(X3) + 2
  <2>1. Sits(z, p, X3 \o K) /\ z \in Seq(Insts) /\ X3 \in Seq(Insts) /\ K \in Seq(Insts)
    BY <1>5, <1>6, <1>7 DEF X4
  <2>2. Sits(z, p, X3)
    BY <2>1, SitsBoth
  <2>3. Sits(z, p + Len(X3), K)
    BY <2>1, SitsBoth
  <2>4. p + Len(X3 \o K) = p + Len(X3) + Len(K)
    BY <2>1, SitsBoth
  <2> QED
    BY <1>5, <2>2, <2>3, <2>4 DEF X4
<1>9. Sits(z, p, X2) /\ Sits(z, p + Len(X2), B) /\ p + Len(X3) = p + Len(X2) + m
  <2>1. Sits(z, p, X2 \o B) /\ z \in Seq(Insts) /\ X2 \in Seq(Insts) /\ B \in Seq(Insts)
    BY <1>2, <1>6, <1>8 DEF X3
  <2>2. Sits(z, p, X2)
    BY <2>1, SitsBoth
  <2>3. Sits(z, p + Len(X2), B)
    BY <2>1, SitsBoth
  <2>4. p + Len(X2 \o B) = p + Len(X2) + Len(B)
    BY <2>1, SitsBoth
  <2> QED
    BY <2>2, <2>3, <2>4 DEF X3, m
<1>10. Sits(z, p, C) /\ Sits(z, p + n, J) /\ p + Len(X2) = p + n + 2
  <2>1. Sits(z, p, C \o J) /\ z \in Seq(Insts) /\ C \in Seq(Insts) /\ J \in Seq(Insts)
    BY <1>2, <1>5, <1>9 DEF X2
  <2>2. Sits(z, p, C)
    BY <2>1, SitsBoth
  <2>3. Sits(z, p + Len(C), J)
    BY <2>1, SitsBoth
  <2>4. p + Len(C \o J) = p + Len(C) + Len(J)
    BY <2>1, SitsBoth
  <2> QED
    BY <1>5, <2>2, <2>3, <2>4 DEF X2, n
<1>11. Sits(z, p + n, <<JumpIf(FALSE, m + 3)>>) /\ Sits(z, p + n + 1, <<PopTop>>)
  <2> DEFINE j == p + n
             x == JumpIf(FALSE, m + 3)
  <2>1. Sits(z, j, <<x, PopTop>>) /\ x \in Insts
    BY <1>4, <1>10 DEF J
  <2> HIDE DEF j, x
  <2>2. Sits(z, j, <<x>>) /\ Sits(z, j + 1, <<PopTop>>)
    BY <1>4, <2>1, SitsPair
  <2> QED
    BY <2>2 DEF j, x
<1>12. p + Len(X2) = p + n + 2 /\ p + Len(X3) = p + n + m + 2 /\ p + Len(X4) = p + n + m + 4
  <2>1. p \in Nat /\ n \in Nat /\ m \in Nat
    BY <1>3, <1>7
  <2>2. p + Len(X3) = p + n + m + 2
    BY <1>9, <1>10, <2>1
  <2> QED
    BY <1>8, <1>10, <2>1, <2>2
<1>13. Sits(z, p + n + m + 2, <<Jump(k + 2)>>) /\ Sits(z, p + n + m + 3, <<PopTop>>)
  <2> DEFINE j == p + n + m + 2
             x == Jump(k + 2)
  <2>1. Sits(z, j, <<x, PopTop>>) /\ x \in Insts
    BY <1>4, <1>8, <1>12 DEF K
  <2>2. j + 1 = p + n + m + 3
    BY <1>3, <1>7
  <2> HIDE DEF j, x
  <2>3. Sits(z, j, <<x>>) /\ Sits(z, j + 1, <<PopTop>>)
    BY <1>4, <2>1, SitsPair
  <2> QED
    BY <2>2, <2>3 DEF j, x
<1>14. Sits(z, p + n + 2, B) /\ Sits(z, p + n + m + 4, rest)
       /\ p + Len(CaseCode(c, w, rest)) = p + n + m + 4 + k
  BY <1>7, <1>9, <1>12
<1> QED
  BY <1>3, <1>7, <1>10, <1>11, <1>13, <1>14 DEF CaseLaid, B, C, n, m, k

\* What becomes of a case: its condition fails, it does not hold, or the action is called
\* and the execution goes on after the cases.
Decides(z, p, o, q, rs, ts, c, w) ==
  LET v == Evaluate(c.condition, 0) IN
  IF Failed(v) THEN Aborts(z, Ready(p, <<>>, rs, ts))
  ELSE IF Fires(v.value) THEN Rewards(z, p, q, rs, ts, c.action, Score(c.action, w))
  ELSE Goes(z, Ready(p, <<>>, rs, ts), Ready(o, <<>>, rs, ts))

\* On a truth value, the jump and the tree walk decide alike.
LEMMA TruthsFire ==
  ASSUME NEW v \in Truths
  PROVE  Fires(v) <=> IsTrue(v)
  BY DEF Truths, Fires, Bool, Value

\* The code of a case decides it the way the tree walk does, and goes on with the rest of
\* the code or behind it.
LEMMA CaseRuns ==
  ASSUME NEW r \in Rules, Compiles(r), Portable(r), NEW c, c.condition \in ConditionsOf(r),
         Understood(r, c.action), NEW w \in Int, NEW rest \in Seq(Insts), NEW z \in Seq(Insts),
         NEW p, Sits(z, p, CaseCode(c, w, rest)), NEW rs, IsStack(rs), Len(rs) # 0, NEW ts
  PROVE  \E o : /\ Sits(z, o, rest) /\ o + Len(rest) = p + Len(CaseCode(c, w, rest))
                /\ Decides(z, p, o, p + Len(CaseCode(c, w, rest)), rs, ts, c, w)
<1> DEFINE e == c.condition
           a == c.action
           n == Len(Code[e])
           m == Len(Body(a, w))
           k == Len(rest)
           q == p + Len(CaseCode(c, w, rest))
           o == p + n + m + 4
           v == Evaluate(e, 0)
           none == <<>>
           s == Append(none, v.value)
           j == p + n
<1>1. CaseLaid(z, p, c, w, rest, n, m)
  <2>1. e \in Exprs
    BY RulesAreMadeOf
  <2> QED
    BY <2>1, CasesLaid
<1> HIDE DEF n, m
<1>2. /\ p \in Nat \ {0} /\ n \in Nat /\ m \in Nat /\ k \in Nat
      /\ n = Len(Code[e]) /\ m = Len(Body(a, w))
      /\ Sits(z, p, Code[e]) /\ Sits(z, j, <<JumpIf(FALSE, m + 3)>>) /\ Sits(z, j + 1, <<PopTop>>)
      /\ Sits(z, j + 2, Body(a, w))
      /\ Sits(z, j + m + 2, <<Jump(k + 2)>>) /\ Sits(z, j + m + 3, <<PopTop>>)
      /\ Sits(z, j + m + 4, rest) /\ q = j + m + 4 + k
  BY <1>1 DEF CaseLaid
<1>3. /\ Yields(z, p, n, none, rs, ts, v)
      /\ ~Failed(v) => v.value \in Truths
  BY <1>2, ConditionRuns
<1>4. IsStack(none)
  BY NothingOn
<1>5. o = j + m + 4 /\ o + k = q
  BY <1>2
<1>6. j \in Nat /\ m \in Nat /\ k \in Nat /\ q = j + m + 4 + k
  <2>1. p \in Nat /\ n \in Nat
    BY <1>2
  <2>2. j \in Nat
    BY <2>1
  <2> HIDE DEF j
  <2>3. m \in Nat /\ k \in Nat /\ q = j + m + 4 + k
    BY <1>2
  <2> QED
    BY <2>2, <2>3
<1> HIDE DEF o, q, k, v, none, e
<1>7. CASE Failed(v)
  <2>1. Aborts(z, Ready(p, none, rs, ts))
    BY <1>3, <1>7 DEF Yields
  <2> QED
    BY <1>2, <1>5, <1>7, <2>1 DEF Decides, v, none, e, k, q
<1>8. ASSUME ~Failed(v)
      PROVE  /\ Goes(z, Ready(p, none, rs, ts), Ready(j, s, rs, ts))
             /\ Fires(v.value) <=> IsTrue(v.value)
  BY <1>3, <1>8, TruthsFire DEF Yields
<1> DEFINE b == FALSE
<1>9. Goes(z, Ready(j, s, rs, ts),
           IF IsTrue(v.value) <=> b THEN Ready(j + (m + 3), s, rs, ts) ELSE Ready(j + 1, none, rs, ts))
  <2> DEFINE d == m + 3
  <2>1. Sits(z, j, <<JumpIf(b, d)>>) /\ b \in BOOLEAN
    BY <1>2
  <2> HIDE DEF b, d, j
  <2> QED
    BY <1>4, <2>1, BranchRuns DEF d
<1> HIDE DEF s
<1>10. CASE ~Failed(v) /\ ~Fires(v.value)
  <2> DEFINE i == j + m + 3
  <2>1. j + (m + 3) = i /\ i + 1 = o
    <3> HIDE DEF j
    <3> QED
      BY <1>5, <1>6
  <2>2. Goes(z, Ready(j, s, rs, ts), Ready(i, s, rs, ts))
    BY <1>8, <1>9, <1>10, <2>1
  <2>3. Sits(z, i, <<PopTop>>)
    BY <1>2
  <2>4. Below(s, 1) = none
    BY <1>4, OnTop DEF s
  <2> HIDE DEF i, j
  <2>5. Goes(z, Ready(i, s, rs, ts), Ready(i + 1, Below(s, 1), rs, ts))
    BY <2>3, PopRuns
  <2>6. Goes(z, Ready(p, none, rs, ts), Ready(i, s, rs, ts))
    BY <1>8, <1>10, <2>2, Onwards
  <2>7. Goes(z, Ready(p, none, rs, ts), Ready(i + 1, Below(s, 1), rs, ts))
    BY <2>5, <2>6, Onwards
  <2>8. Goes(z, Ready(p, none, rs, ts), Ready(o, none, rs, ts))
    BY <2>1, <2>4, <2>7
  <2>9. Decides(z, p, o, q, rs, ts, c, w)
    BY <1>10, <2>8 DEF Decides, v, none, e
  <2> QED
    BY <1>2, <1>5, <2>9 DEF k, q, j
<1>11. CASE ~Failed(v) /\ Fires(v.value)
  <2> DEFINE i == j + 1
             l == j + m + 2
             h == Score(a, w)
             us == Triggered(ts, a)
  <2>1. Goes(z, Ready(j, s, rs, ts), Ready(i, none, rs, ts))
    BY <1>8, <1>9, <1>11
  <2>2. Sits(z, i, <<PopTop>>) /\ i + 1 = j + 2
    BY <1>2
  <2>3. Below(none, 1) = none
    BY DEF none, Below
  <2>4. Goes(z, Ready(i, none, rs, ts), Ready(i + 1, Below(none, 1), rs, ts))
    <3> HIDE DEF i
    <3> QED
      BY <2>2, PopRuns
  <2> DEFINE x == j + 2
  <2>5. Goes(z, Ready(j, s, rs, ts), Ready(x, none, rs, ts))
    <3> HIDE DEF i, j
    <3>1. Goes(z, Ready(j, s, rs, ts), Ready(i + 1, Below(none, 1), rs, ts))
      BY <2>1, <2>4, Onwards
    <3>2. Ready(i + 1, Below(none, 1), rs, ts) = Ready(x, none, rs, ts)
      BY <2>2, <2>3
    <3> QED
      BY <3>1, <3>2
  <2>6. Goes(z, Ready(p, none, rs, ts), Ready(x, none, rs, ts))
    BY <1>8, <1>11, <2>5, Onwards
  <2>7. Sits(z, x, Body(a, w)) /\ x + m = l /\ l + (k + 2) = q /\ Sits(z, l, <<Jump(k + 2)>>)
    <3> HIDE DEF j
    <3>1. x + m = l /\ l + (k + 2) = q
      BY <1>6
    <3> QED
      BY <1>2, <3>1
  <2> HIDE DEF x, l, i, j
  <2>8. Rewards(z, x, x + m, rs, ts, a, h)
    BY <1>2, <2>7, BodyRuns
  <2>9. Rewards(z, p, q, rs, ts, a, h)
    <3>1. CASE Refuses(a)
      <4>1. Aborts(z, Ready(x, none, rs, ts))
        BY <2>8, <3>1 DEF Rewards, none
      <4>2. Aborts(z, Ready(p, none, rs, ts))
        BY <2>6, <4>1, FailsLater
      <4> QED
        BY <3>1, <4>2 DEF Rewards, none
    <3>2. CASE ~Refuses(a)
      <4>1. PICK t : /\ Marked(rs, t, h) /\ Len(t) # 0
                     /\ Goes(z, Ready(x, <<>>, rs, ts), Ready(x + m, <<>>, t, us))
        BY <2>8, <3>2 DEF Rewards
      <4> DEFINE f == k + 2
      <4>2. Sits(z, l, <<Jump(f)>>) /\ l + f = q /\ x + m = l
        BY <2>7
      <4> HIDE DEF f, us, h
      <4>3. Goes(z, Ready(l, none, t, us), Ready(l + f, none, t, us))
        BY <4>2, JumpRuns
      <4>4. Goes(z, Ready(x, none, rs, ts), Ready(l, none, t, us))
        BY <4>1, <4>2 DEF none
      <4>5. Goes(z, Ready(x, none, rs, ts), Ready(q, none, t, us))
        BY <4>2, <4>3, <4>4, Onwards
      <4>6. Goes(z, Ready(p, none, rs, ts), Ready(q, none, t, us))
        BY <2>6, <4>5, Onwards
      <4> QED
        BY <3>2, <4>1, <4>6 DEF Rewards, none, us
    <3> QED
      BY <3>1, <3>2
  <2>10. Decides(z, p, o, q, rs, ts, c, w)
    BY <1>11, <2>9 DEF Decides, v, e
  <2> QED
    BY <1>2, <1>5, <2>10 DEF k, q, j
<1> QED
  BY <1>7, <1>10, <1>11

(***************************************************************************)
(* The books of a rule: what its metrics have earned so far.               *)
(***************************************************************************)
\* A total is added up number by number, whatever the numbers are.
Sums(f, s, n) == f = [i \in 0 .. n |-> IF i = 0 THEN 0 ELSE f[i - 1] + s[i]]

\* Every sequence has sums.
LEMMA SumsExist ==
  ASSUME NEW s, NEW n \in Nat
  PROVE  \E f : Sums(f, s, n)
<1> DEFINE S == {k \in Nat : \E f : Sums(f, s, k)}
<1>1. 0 \in S
  <2> DEFINE f == [i \in 0 .. 0 |-> 0]
  <2>1. f = [i \in 0 .. 0 |-> IF i = 0 THEN 0 ELSE f[i - 1] + s[i]]
    <3>1. \A i \in 0 .. 0 : i = 0
      OBVIOUS
    <3> QED
      BY <3>1
  <2>2. Sums(f, s, 0)
    <3> HIDE DEF f
    <3> QED
      BY <2>1 DEF Sums
  <2> HIDE DEF f
  <2> QED
    BY <2>2
<1>2. ASSUME NEW k \in Nat, k \in S PROVE k + 1 \in S
  <2>1. PICK f : Sums(f, s, k)
    BY <1>2
  <2> DEFINE x == f[k] + s[k + 1]
             g == [i \in 0 .. k + 1 |-> IF i = k + 1 THEN x ELSE f[i]]
             h == [i \in 0 .. k + 1 |-> IF i = 0 THEN 0 ELSE g[i - 1] + s[i]]
  <2>2. ASSUME NEW i \in 0 .. k + 1 PROVE g[i] = IF i = 0 THEN 0 ELSE g[i - 1] + s[i]
    <3>1. CASE i = k + 1
      <4>1. g[i] = f[k] + s[k + 1] /\ i # 0
        BY <3>1
      <4>2. i - 1 = k /\ k \in 0 .. k + 1 /\ k # k + 1
        BY <3>1
      <4>3. g[i - 1] = f[k]
        BY <4>2
      <4> HIDE DEF g
      <4> QED
        BY <3>1, <4>1, <4>3
    <3>2. CASE i # k + 1
      <4>1. i \in 0 .. k
        BY <3>2
      <4>2. g[i] = f[i] /\ f[i] = IF i = 0 THEN 0 ELSE f[i - 1] + s[i]
        BY <2>1, <3>2, <4>1 DEF Sums
      <4>3. i # 0 => g[i - 1] = f[i - 1]
        <5>1. i # 0 => i - 1 \in 0 .. k + 1 /\ i - 1 # k + 1
          BY <4>1
        <5> QED
          BY <5>1
      <4> HIDE DEF g
      <4> QED
        BY <4>2, <4>3
    <3> QED
      BY <3>1, <3>2
  <2>3. g = h
    <3>1. DOMAIN g = 0 .. k + 1 /\ g = [i \in 0 .. k + 1 |-> g[i]]
      OBVIOUS
    <3> HIDE DEF g
    <3> QED
      BY <2>2, <3>1
  <2>4. Sums(g, s, k + 1)
    <3> HIDE DEF g
    <3> QED
      BY <2>3 DEF Sums
  <2> HIDE DEF g
  <2> QED
    BY <2>4
<1> HIDE DEF S
<1>3. Nat \subseteq S
  BY <1>1, <1>2, Counting
<1> QED
  BY <1>3 DEF S

\* Total is the last of them.
LEMMA TotalUnfolds ==
  ASSUME NEW n \in Nat, NEW s, s = [i \in 1 .. n |-> s[i]]
  PROVE  \E f : Sums(f, s, n) /\ Total(s) = f[n]
<1> DEFINE V == {s[i] : i \in 1 .. n}
           f == CHOOSE g : Sums(g, s, n)
<1>1. s \in [1 .. n -> V]
  OBVIOUS
<1> HIDE DEF V
<1>2. s \in Seq(V)
  BY <1>1
<1>3. Len(s) = n
  BY <1>1, <1>2, LenProperties
<1>4. Sums(f, s, n)
  BY SumsExist
<1>5. Total(s) = f[n]
  BY <1>3 DEF Total, Sums
<1> HIDE DEF f
<1> QED
  BY <1>4, <1>5

\* What the first n metrics have earned, what they may earn, and whether one that
\* must not fail has failed.
Earned(rs, n) == Total([i \in 1 .. n |-> rs[i].score])
Weighed(r, n) == Total([i \in 1 .. n |-> r.metrics[i].weight])
Refused(r, rs, n) == \E i \in 1 .. n : r.metrics[i].critical /\ ~rs[i].passed

\* Two sums of the same numbers are the same,
Alike(s, t, n) == \A i \in 1 .. n : s[i] = t[i]

\* Sequences that begin alike have the same sums there.
LEMMA SumsAlike ==
  ASSUME NEW n \in Nat, NEW s, NEW t, Alike(s, t, n),
         NEW m \in Nat, n <= m, NEW f, Sums(f, s, n), NEW g, Sums(g, t, m)
  PROVE  f[n] = g[n]
<1> DEFINE S == {i \in 0 .. n : f[i] = g[i]}
<1>1. \A i \in 1 .. n : s[i] = t[i]
  BY DEF Alike
<1>2. /\ \A i \in 0 .. n : f[i] = IF i = 0 THEN 0 ELSE f[i - 1] + s[i]
      /\ \A i \in 0 .. m : g[i] = IF i = 0 THEN 0 ELSE g[i - 1] + t[i]
  BY DEF Sums
<1>3. 0 \in S
  BY <1>2
<1>4. ASSUME NEW i \in 1 .. n, i - 1 \in S PROVE i \in S
  <2>1. i # 0 /\ i \in 0 .. n /\ i \in 0 .. m
    OBVIOUS
  <2>2. f[i] = f[i - 1] + s[i] /\ g[i] = g[i - 1] + t[i] /\ f[i - 1] = g[i - 1] /\ s[i] = t[i]
    BY <1>1, <1>2, <1>4, <2>1
  <2> QED
    BY <2>1, <2>2
<1>5. \A i \in 0 .. n : i \in S
  <2> HIDE DEF S
  <2> QED
    BY <1>3, <1>4, Upwards
<1>6. n \in 0 .. n
  OBVIOUS
<1>7. n \in S
  BY <1>5, <1>6
<1> QED
  BY <1>7

\* One number more adds that number.
LEMMA TotalOfMore ==
  ASSUME NEW n \in Nat, NEW s
  PROVE  Total([i \in 1 .. n + 1 |-> s[i]]) = Total([i \in 1 .. n |-> s[i]]) + s[n + 1]
<1> DEFINE m == n + 1
           t == [i \in 1 .. m |-> s[i]]
           u == [i \in 1 .. n |-> s[i]]
<1>1. m \in Nat /\ t = [i \in 1 .. m |-> t[i]] /\ u = [i \in 1 .. n |-> u[i]]
      /\ n <= m /\ m \in 0 .. m /\ m # 0 /\ m - 1 = n /\ t[m] = s[m]
  OBVIOUS
<1>2. \A i \in 1 .. n : u[i] = t[i]
  OBVIOUS
<1> HIDE DEF t, u, m
<1>3. PICK g : Sums(g, t, m) /\ Total(t) = g[m]
  BY <1>1, TotalUnfolds
<1>4. PICK f : Sums(f, u, n) /\ Total(u) = f[n]
  BY <1>1, TotalUnfolds
<1>5. f[n] = g[n]
  <2>1. n \in Nat /\ m \in Nat /\ n <= m /\ Sums(f, u, n) /\ Sums(g, t, m)
    BY <1>1, <1>3, <1>4
  <2>2. Alike(u, t, n)
    BY <1>2 DEF Alike
  <2> QED
    BY <2>1, <2>2, SumsAlike
<1>6. g[m] = g[m - 1] + t[m]
  BY <1>1, <1>3 DEF Sums
<1>7. Total(t) = Total(u) + s[m]
  BY <1>1, <1>3, <1>4, <1>5, <1>6
<1> QED
  BY <1>7 DEF t, u, m

\* No numbers add up to nothing.
LEMMA NothingTotal ==
  \A x : Total([i \in 1 .. 0 |-> x[i]]) = 0
<1> SUFFICES ASSUME NEW x PROVE Total([i \in 1 .. 0 |-> x[i]]) = 0
  OBVIOUS
<1> DEFINE n == 0
           t == [i \in 1 .. n |-> x[i]]
<1>1. n \in Nat /\ t = [i \in 1 .. n |-> t[i]] /\ n = 0 /\ n \in 0 .. n
  OBVIOUS
<1> HIDE DEF n, t
<1>2. PICK f : Sums(f, t, n) /\ Total(t) = f[n]
  BY <1>1, TotalUnfolds
<1>3. f[n] = 0
  BY <1>1, <1>2 DEF Sums
<1> QED
  BY <1>2, <1>3 DEF n, t

\* What the books say of one metric more.
LEMMA EarnedMore ==
  ASSUME NEW rs, NEW n \in Nat
  PROVE  Earned(rs, n + 1) = Earned(rs, n) + rs[n + 1].score
<1> DEFINE s == [i \in 1 .. n + 1 |-> rs[i].score]
<1>1. Total([i \in 1 .. n + 1 |-> s[i]]) = Total([i \in 1 .. n |-> s[i]]) + s[n + 1]
  <2> HIDE DEF s
  <2> QED
    BY TotalOfMore
<1>2. [i \in 1 .. n + 1 |-> s[i]] = s /\ [i \in 1 .. n |-> s[i]] = [i \in 1 .. n |-> rs[i].score]
  <2>1. \A i \in 1 .. n : i \in 1 .. n + 1
    OBVIOUS
  <2> QED
    BY <2>1
<1>3. s[n + 1] = rs[n + 1].score
  OBVIOUS
<1> QED
  BY <1>1, <1>2, <1>3 DEF Earned

LEMMA WeighedMore ==
  ASSUME NEW r, NEW n \in Nat
  PROVE  Weighed(r, n + 1) = Weighed(r, n) + r.metrics[n + 1].weight
<1> DEFINE s == [i \in 1 .. n + 1 |-> r.metrics[i].weight]
<1>1. Total([i \in 1 .. n + 1 |-> s[i]]) = Total([i \in 1 .. n |-> s[i]]) + s[n + 1]
  <2> HIDE DEF s
  <2> QED
    BY TotalOfMore
<1>2. /\ [i \in 1 .. n + 1 |-> s[i]] = s
      /\ [i \in 1 .. n |-> s[i]] = [i \in 1 .. n |-> r.metrics[i].weight]
  <2>1. \A i \in 1 .. n : i \in 1 .. n + 1
    OBVIOUS
  <2> QED
    BY <2>1
<1>3. s[n + 1] = r.metrics[n + 1].weight
  OBVIOUS
<1> QED
  BY <1>1, <1>2, <1>3 DEF Weighed

\* The same scores earn the same.
LEMMA EarnedAlike ==
  ASSUME NEW rs, NEW xs, NEW n \in Nat, \A i \in 1 .. n : rs[i].score = xs[i].score
  PROVE  Earned(rs, n) = Earned(xs, n)
<1>1. [i \in 1 .. n |-> rs[i].score] = [i \in 1 .. n |-> xs[i].score]
  OBVIOUS
<1> QED
  BY <1>1 DEF Earned

\* Before the first metric nothing is earned and nothing is weighed.
LEMMA NothingEarned == (\A rs : Earned(rs, 0) = 0) /\ (\A r : Weighed(r, 0) = 0)
<1>1. ASSUME NEW rs PROVE Earned(rs, 0) = 0
  <2> DEFINE s == [i \in 1 .. 0 |-> rs[i].score]
  <2>1. [i \in 1 .. 0 |-> s[i]] = s
    OBVIOUS
  <2>2. Total([i \in 1 .. 0 |-> s[i]]) = 0
    <3> HIDE DEF s
    <3> QED
      BY NothingTotal
  <2> QED
    BY <2>1, <2>2 DEF Earned
<1>2. ASSUME NEW r PROVE Weighed(r, 0) = 0
  <2> DEFINE s == [i \in 1 .. 0 |-> r.metrics[i].weight]
  <2>1. [i \in 1 .. 0 |-> s[i]] = s
    OBVIOUS
  <2>2. Total([i \in 1 .. 0 |-> s[i]]) = 0
    <3> HIDE DEF s
    <3> QED
      BY NothingTotal
  <2> QED
    BY <2>1, <2>2 DEF Weighed
<1> QED
  BY <1>1, <1>2

\* The totals are those of the first n metrics.
Ledger(n) ==
  total = Earned(scores, n) /\ (vetoed <=> Refused(rule, scores, n))

\* Where the tree walk of a metric rule is, and what it has added up.
Booked ==
  /\ rule \in Rules
  /\ at \in {"begin", "metric", "case", "finish", "done"}
  /\ rule.kind = "simple" => at \in {"begin", "done"}
  /\ lastError # "NONE" => at \in {"metric", "finish", "done"}
  /\ at = "begin" => metric = 0 /\ fired = <<>> /\ scores = <<>>
  /\ rule.kind = "metric" /\ lastError = "NONE" =>
       /\ metric \in 0 .. Len(rule.metrics)
       /\ IsStack(scores) /\ Len(scores) = metric
       /\ max = Weighed(rule, metric)
       /\ at = "case" => metric # 0 /\ case \in 1 .. Len(Current.cases) + 1
       /\ at = "case" => Ledger(metric - 1)
       /\ at # "case" => Ledger(metric)
       /\ at \in {"finish", "done"} => metric = Len(rule.metrics)
  /\ rule.kind = "metric" /\ at = "done" =>
       verdict = IF lastError # "NONE" THEN "ERROR" ELSE Status(total, vetoed, rule.pass, rule.partial)

\* The books are right to begin with.
LEMMA BookedFirst == TreeInit => Booked
<1> SUFFICES ASSUME TreeInit PROVE Booked
  OBVIOUS
<1>1. rule.kind = "metric" => Len(rule.metrics) \in Nat
  <2> SUFFICES ASSUME rule.kind = "metric" PROVE Len(rule.metrics) \in Nat
    OBVIOUS
  <2>1. rule.metrics \in Seq(Range(rule.metrics))
    BY MetricsBelong DEF TreeInit
  <2> QED
    BY <2>1, LenProperties
<1>2. Ledger(0)
  BY NothingEarned DEF TreeInit, Ledger, Refused
<1> QED
  BY <1>1, <1>2, NothingOn, NothingEarned DEF TreeInit, Booked

\* The metrics of the rule.
LEMMA MetricsAre ==
  ASSUME NEW r \in Rules, r.kind = "metric"
  PROVE  /\ Len(r.metrics) \in Nat \ {0} /\ DOMAIN r.metrics = 1 .. Len(r.metrics)
         /\ \A i \in 1 .. Len(r.metrics) : Belongs(r.metrics[i]) /\ Len(r.metrics[i].cases) \in Nat
<1>1. /\ r.metrics \in Seq(Range(r.metrics)) /\ r.metrics # <<>>
      /\ \A i \in DOMAIN r.metrics : Belongs(r.metrics[i])
  BY MetricsBelong
<1>2. Len(r.metrics) \in Nat \ {0} /\ DOMAIN r.metrics = 1 .. Len(r.metrics)
  BY <1>1, LenProperties
<1>3. \A i \in 1 .. Len(r.metrics) : Len(r.metrics[i].cases) \in Nat
  BY <1>1, <1>2, LenProperties DEF Belongs, IsMetric
<1> QED
  BY <1>1, <1>2, <1>3

\* A result is added to the totals.
LEMMA Tallied ==
  ASSUME NEW n \in Nat, NEW x, IsStack(scores), Len(scores) = n + 1, metric = n + 1, Ledger(n),
         Tally(x), rule' = rule
  PROVE  Ledger(n + 1)' /\ IsStack(scores') /\ Len(scores') = n + 1
<1> DEFINE m == n + 1
           t == [scores EXCEPT ![Len(scores)] = x]
<1>1. scores' = t /\ total' = total + x.score /\ vetoed' = (vetoed \/ (Current.critical /\ ~x.passed))
  BY DEF Tally
<1>2. Renewed(scores, t, x)
  <2>1. IsStack(scores) /\ Len(scores) # 0
    OBVIOUS
  <2> QED
    BY <2>1, Replaced
<1> HIDE DEF t
<1>3. /\ IsStack(t) /\ Len(t) = m /\ t[m] = x
      /\ \A i \in 1 .. n : t[i] = scores[i]
  <2>1. \A i \in 1 .. n : i \in 1 .. m /\ i # m
    OBVIOUS
  <2> QED
    BY <1>2, <2>1 DEF Renewed
<1>4. Earned(t, n) = Earned(scores, n)
  <2>1. \A i \in 1 .. n : t[i].score = scores[i].score
    BY <1>3
  <2> QED
    BY <2>1, EarnedAlike
<1>5. Earned(t, n + 1) = Earned(t, n) + t[n + 1].score
  BY EarnedMore
<1>6. total' = Earned(t, m)
  BY <1>1, <1>3, <1>4, <1>5 DEF Ledger
<1>7. vetoed' <=> Refused(rule, t, m)
  <2>1. Refused(rule, t, m) <=> Refused(rule, scores, n) \/ (rule.metrics[m].critical /\ ~x.passed)
    <3>1. \A i \in 1 .. m : i = m \/ i \in 1 .. n
      OBVIOUS
    <3>2. \A i \in 1 .. n : i \in 1 .. m
      OBVIOUS
    <3>3. m \in 1 .. m
      OBVIOUS
    <3> HIDE DEF m
    <3> QED
      BY <1>3, <3>1, <3>2, <3>3 DEF Refused
  <2>2. Current = rule.metrics[m]
    BY DEF Current
  <2> QED
    BY <1>1, <2>1, <2>2 DEF Ledger
<1> QED
  BY <1>1, <1>3, <1>6, <1>7 DEF Ledger

\* The next metric begins.
LEMMA BooksOpen ==
  ASSUME Booked, NextMetric
  PROVE  Booked'
<1> DEFINE N == Len(rule.metrics)
<1>1. /\ rule \in Rules /\ rule.kind = "metric" /\ rule' = rule /\ lastError' = lastError
      /\ total' = total /\ vetoed' = vetoed /\ fired' = fired /\ at # "done" /\ at # "case" /\ at # "finish"
      /\ at \in {"begin", "metric"}
  BY DEF Booked, NextMetric
<1>2. N \in Nat \ {0} /\ \A i \in 1 .. N : Belongs(rule.metrics[i]) /\ Len(rule.metrics[i].cases) \in Nat
  BY <1>1, MetricsAre
<1>3. CASE metric < N /\ lastError = "NONE"
  <2> DEFINE n == metric
             x == Scored(0, NoReason)
             t == Append(scores, x)
  <2>1. /\ metric' = n + 1 /\ max' = max + rule.metrics[n + 1].weight /\ case' = 1
        /\ scores' = t /\ at' = "case"
    BY <1>1, <1>3 DEF NextMetric
  <2>2. /\ n \in 0 .. N /\ IsStack(scores) /\ Len(scores) = n /\ max = Weighed(rule, n) /\ Ledger(n)
    BY <1>1, <1>3 DEF Booked
  <2>3. n \in Nat /\ n + 1 \in 0 .. N /\ n + 1 \in 1 .. N /\ n + 1 # 0 /\ (n + 1) - 1 = n
    BY <1>2, <1>3, <2>2
  <2>4. IsStack(t) /\ Len(t) = n + 1 /\ \A i \in 1 .. n : t[i] = scores[i]
    <3>1. PICK V : scores \in Seq(V)
      BY <2>2 DEF IsStack
    <3> DEFINE W == V \cup {x}
    <3>2. scores \in Seq(W) /\ x \in W
      BY <3>1
    <3> HIDE DEF W, x
    <3>3. t \in Seq(W) /\ Len(t) = n + 1 /\ \A i \in 1 .. n : t[i] = scores[i]
      BY <2>2, <3>2, AppendProperties
    <3> QED
      BY <3>3 DEF IsStack
  <2> HIDE DEF t, n
  <2>5. max' = Weighed(rule, n + 1)
    BY <2>1, <2>2, <2>3, WeighedMore
  <2>6. Earned(t, n) = Earned(scores, n)
    <3>1. \A i \in 1 .. n : t[i].score = scores[i].score
      BY <2>4
    <3> QED
      BY <2>3, <3>1, EarnedAlike
  <2>7. Refused(rule, t, n) <=> Refused(rule, scores, n)
    BY <2>4 DEF Refused
  <2>8. total' = Earned(t, n) /\ (vetoed' <=> Refused(rule, t, n))
    BY <1>1, <2>2, <2>6, <2>7 DEF Ledger
  <2>9. Ledger(metric - 1)'
    BY <1>1, <2>1, <2>3, <2>8 DEF Ledger
  <2>10. case' \in 1 .. Len(Current'.cases) + 1
    <3>1. Current' = rule.metrics[n + 1]
      BY <1>1, <2>1 DEF Current
    <3>2. Len(rule.metrics[n + 1].cases) \in Nat
      BY <1>2, <2>3
    <3> QED
      BY <2>1, <3>1, <3>2
  <2> QED
    BY <1>1, <1>3, <2>1, <2>3, <2>4, <2>5, <2>9, <2>10 DEF Booked
<1>4. CASE ~(metric < N /\ lastError = "NONE")
  <2>1. at' = "finish" /\ metric' = metric /\ max' = max /\ case' = case /\ scores' = scores
    BY <1>1, <1>4 DEF NextMetric
  <2>2. lastError = "NONE" =>
          metric \in 0 .. N /\ IsStack(scores) /\ Len(scores) = metric
          /\ max = Weighed(rule, metric) /\ Ledger(metric)
    BY <1>1 DEF Booked
  <2>3. lastError = "NONE" => metric = N
    BY <1>2, <1>4, <2>2
  <2>4. Ledger(metric) => Ledger(metric)'
    BY <1>1, <2>1 DEF Ledger
  <2> QED
    BY <1>1, <2>1, <2>2, <2>3, <2>4 DEF Booked
<1> QED
  BY <1>3, <1>4

\* The books in the middle of a metric.
LEMMA BooksInCase ==
  ASSUME Booked, at = "case"
  PROVE  /\ rule \in Rules /\ rule.kind = "metric" /\ lastError = "NONE"
         /\ metric \in 1 .. Len(rule.metrics) /\ metric - 1 \in Nat /\ metric = (metric - 1) + 1
         /\ IsStack(scores) /\ Len(scores) = metric /\ max = Weighed(rule, metric)
         /\ Ledger(metric - 1) /\ case \in 1 .. Len(Current.cases) + 1
         /\ Belongs(Current) /\ Len(Current.cases) \in Nat
<1>1. rule \in Rules /\ rule.kind = "metric" /\ lastError = "NONE"
  BY RulesAssumption DEF Booked
<1>2. Len(rule.metrics) \in Nat \ {0}
      /\ \A i \in 1 .. Len(rule.metrics) : Belongs(rule.metrics[i]) /\ Len(rule.metrics[i].cases) \in Nat
  BY <1>1, MetricsAre
<1>3. /\ metric \in 0 .. Len(rule.metrics) /\ metric # 0
      /\ IsStack(scores) /\ Len(scores) = metric /\ max = Weighed(rule, metric)
      /\ Ledger(metric - 1) /\ case \in 1 .. Len(Current.cases) + 1
  BY <1>1 DEF Booked
<1>4. metric \in 1 .. Len(rule.metrics) /\ metric - 1 \in Nat /\ metric = (metric - 1) + 1
  BY <1>2, <1>3
<1> QED
  BY <1>1, <1>2, <1>3, <1>4 DEF Current

\* A metric is finished with a result.
LEMMA BooksTallied ==
  ASSUME Booked, at = "case", NEW x, Tally(x), rule' = rule, metric' = metric, max' = max,
         at' = "metric"
  PROVE  Booked'
<1>1. /\ rule \in Rules /\ rule.kind = "metric" /\ lastError = "NONE"
      /\ metric \in 1 .. Len(rule.metrics) /\ metric - 1 \in Nat /\ metric = (metric - 1) + 1
      /\ IsStack(scores) /\ Len(scores) = metric /\ max = Weighed(rule, metric)
      /\ Ledger(metric - 1)
  BY BooksInCase
<1>2. PICK n \in Nat : n = metric - 1
  BY <1>1
<1>3. /\ rule \in Rules /\ rule.kind = "metric" /\ lastError = "NONE"
      /\ metric \in 1 .. Len(rule.metrics) /\ n \in Nat /\ metric = n + 1
      /\ IsStack(scores) /\ Len(scores) = n + 1 /\ max = Weighed(rule, metric)
      /\ Ledger(n)
  BY <1>1, <1>2
<1>4. Ledger(n + 1)' /\ IsStack(scores') /\ Len(scores') = n + 1
  BY <1>3, Tallied
<1>5. Ledger(metric)'
  BY <1>3, <1>4 DEF Ledger
<1>6. metric \in 0 .. Len(rule.metrics)
  BY <1>3
<1> QED
  BY <1>3, <1>4, <1>5, <1>6 DEF Booked

\* Every step of the tree walk keeps the books right.
LEMMA BookedNext ==
  ASSUME Booked, [TreeNext]_<<rule, limit, treeVars>>
  PROVE  Booked'
<1>1. CASE ExecuteSimple
  <2>1. rule' = rule /\ at' = "done" /\ rule.kind = "simple" /\ rule \in Rules
    BY <1>1 DEF ExecuteSimple, Booked
  <2> QED
    BY <2>1 DEF Booked
<1>2. CASE NextMetric
  BY <1>2, BooksOpen
<1>3. CASE CaseFails
  <2>1. rule' = rule /\ at' = "finish" /\ at = "case" /\ lastError' # "NONE"
    BY <1>3 DEF CaseFails, Matching, Failed
  <2>2. rule \in Rules /\ rule.kind = "metric"
    BY <2>1, BooksInCase
  <2> QED
    BY <2>1, <2>2 DEF Booked
<1>4. CASE CaseMisses
  <2>1. /\ UNCHANGED <<rule, at, metric, lastError, scores, max, total, vetoed, fired>>
        /\ at = "case" /\ case <= Len(Current.cases) /\ case' = case + 1
    BY <1>4 DEF CaseMisses, Matching
  <2>2. /\ rule \in Rules /\ rule.kind = "metric" /\ lastError = "NONE"
        /\ metric \in 1 .. Len(rule.metrics)
        /\ IsStack(scores) /\ Len(scores) = metric /\ max = Weighed(rule, metric)
        /\ Ledger(metric - 1) /\ case \in 1 .. Len(Current.cases) + 1 /\ Len(Current.cases) \in Nat
    BY <2>1, BooksInCase
  <2>3. case' \in 1 .. Len(Current'.cases) + 1
    <3>1. Current' = Current
      BY <2>1 DEF Current
    <3> QED
      BY <2>1, <2>2, <3>1
  <2>4. Ledger(metric - 1)'
    BY <2>1, <2>2 DEF Ledger
  <2>5. metric \in 0 .. Len(rule.metrics) /\ metric # 0
    BY <2>2
  <2> QED
    BY <2>1, <2>2, <2>3, <2>4, <2>5 DEF Booked
<1>5. CASE CaseMatches
  <2> DEFINE given == Giving(Current.cases[case].action, Current.weight, Condition.nodes)
             x == Scored(given.score, given.reason)
  <2>1. rule' = rule /\ metric' = metric /\ max' = max /\ at = "case" /\ lastError' = given.walked.error
    BY <1>5 DEF CaseMatches, Matching
  <2>2. CASE Failed(given.walked)
    <3>1. at' = "finish" /\ lastError' # "NONE"
      BY <1>5, <2>1, <2>2 DEF CaseMatches, Failed
    <3>2. rule \in Rules /\ rule.kind = "metric"
      BY <2>1, BooksInCase
    <3> QED
      BY <2>1, <3>1, <3>2 DEF Booked
  <2>3. CASE ~Failed(given.walked)
    <3>1. at' = "metric" /\ Tally(x)
      BY <1>5, <2>3 DEF CaseMatches
    <3> HIDE DEF x
    <3> QED
      BY <2>1, <3>1, BooksTallied
  <2> QED
    BY <2>2, <2>3
<1>6. CASE Default
  <2> DEFINE given == Giving(Current.default, 0, count)
             reason == IF given.reason = NoReason /\ given.score <= 0 THEN DefaultReason ELSE given.reason
             x == Scored(given.score, reason)
  <2>1. rule' = rule /\ metric' = metric /\ max' = max /\ at = "case" /\ at' = "metric"
    BY <1>6 DEF Default
  <2>2. Tally(x)
    BY <1>6 DEF Default
  <2> HIDE DEF x
  <2> QED
    BY <2>1, <2>2, BooksTallied
<1>7. CASE Finish
  <2>1. /\ UNCHANGED <<rule, metric, lastError, scores, max, total, vetoed, fired>>
        /\ at = "finish" /\ at' = "done"
        /\ verdict' = IF lastError # "NONE" THEN "ERROR"
                      ELSE Status(total, vetoed, rule.pass, rule.partial)
    BY <1>7 DEF Finish
  <2>2. Ledger(metric) => Ledger(metric)'
    BY <2>1 DEF Ledger
  <2>3. rule.kind = "metric"
    BY <2>1, RulesAssumption DEF Booked
  <2> QED
    BY <2>1, <2>2, <2>3 DEF Booked
<1>8. CASE UNCHANGED <<rule, limit, treeVars>>
  BY <1>8 DEF treeVars, Booked, Ledger, Current
<1> QED
  BY <1>1, <1>2, <1>3, <1>4, <1>5, <1>6, <1>7, <1>8 DEF TreeNext

(***************************************************************************)
(* The tree walk and the code of a metric rule, side by side.              *)
(***************************************************************************)
\* f[i] is the place behind the code of metric i.
PlacesOf(z, r, f) ==
  /\ f \in [0 .. Len(r.metrics) -> Nat \ {0}] /\ f[0] = 1
  /\ \A i \in 1 .. Len(r.metrics) :
       /\ Sits(z, f[i - 1], MetricCode(i, r.metrics[i]))
       /\ f[i] = f[i - 1] + Len(MetricCode(i, r.metrics[i]))
  /\ Sits(z, f[Len(r.metrics)], <<Inst("RULE_END")>>)

\* All code is in its place.
LEMMA SitsWhole ==
  ASSUME NEW z \in Seq(Insts)
  PROVE  Sits(z, 1, z)
<1>1. Len(z) \in Nat
  BY LenProperties
<1>2. \A i \in 1 .. Len(z) : 1 + (i - 1) = i
  BY <1>1
<1> QED
  BY <1>1, <1>2 DEF Sits

\* The code of a rule has a place for each case of each metric.
LEMMA PlacesExist ==
  ASSUME NEW r \in Rules, r.kind = "metric"
  PROVE  \E f : PlacesOf(CodeOf(r), r, f)
<1> DEFINE N == Len(r.metrics)
           q == [i \in DOMAIN r.metrics |-> MetricCode(i, r.metrics[i])]
           V == Seq(Insts)
           z == CodeOf(r)
           c == FlattenSeq(q)
           d == <<Inst("RULE_END")>>
<1>1. N \in Nat \ {0} /\ DOMAIN r.metrics = 1 .. N /\ \A i \in 1 .. N : Belongs(r.metrics[i])
  BY MetricsAre
<1>2. \A i \in 1 .. N : MetricCode(i, r.metrics[i]) \in V
  BY <1>1, MetricCodes
<1>3. q \in [1 .. N -> V] /\ \A i \in 1 .. N : q[i] = MetricCode(i, r.metrics[i])
  BY <1>1, <1>2
<1>4. q \in Seq(V) /\ Len(q) = N
  <2> HIDE DEF q, V, N
  <2>1. q \in Seq(V)
    BY <1>1, <1>3, IsASeq
  <2> QED
    BY <1>1, <1>3, <2>1, LenProperties
<1>5. z = c \o d
  BY DEF CodeOf
<1>6. z \in Seq(Insts) /\ d \in Seq(Insts)
  BY CodesOfRules, InstsAreInsts, Pairs
<1>7. c \in Seq(Insts)
  <2>1. q \in Seq(Seq(Insts))
    BY <1>4
  <2> HIDE DEF q, V
  <2> QED
    BY <2>1, FlattenIn, Zenon
<1> HIDE DEF c, d, z
<1>8. Sits(z, 1, c) /\ Sits(z, 1 + Len(c), d)
  <2> DEFINE p == 1
  <2>1. Sits(z, p, c \o d)
    BY <1>5, <1>6, SitsWhole
  <2> HIDE DEF p
  <2>2. z \in Seq(Insts) /\ c \in Seq(Insts) /\ d \in Seq(Insts)
    BY <1>6, <1>7
  <2>3. Sits(z, p, c)
    BY <2>1, <2>2, SitsBoth
  <2>4. Sits(z, p + Len(c), d)
    BY <2>1, <2>2, SitsBoth
  <2> QED
    BY <2>3, <2>4 DEF p
<1>9. PICK f \in [0 .. Len(q) -> Nat \ {0}] :
        /\ f[0] = 1 /\ f[Len(q)] = 1 + Len(FlattenSeq(q))
        /\ \A i \in 1 .. Len(q) : Sits(z, f[i - 1], q[i]) /\ f[i] = f[i - 1] + Len(q[i])
  <2> DEFINE p == 1
  <2>1. Sits(z, p, FlattenSeq(q)) /\ q \in Seq(Seq(Insts)) /\ z \in Seq(Insts)
    BY <1>4, <1>6, <1>8 DEF c
  <2> HIDE DEF p, q
  <2>2. \E f \in [0 .. Len(q) -> Nat \ {0}] :
           /\ f[0] = p /\ f[Len(q)] = p + Len(FlattenSeq(q))
           /\ \A i \in 1 .. Len(q) : Sits(z, f[i - 1], q[i]) /\ f[i] = f[i - 1] + Len(q[i])
    BY <2>1, SitsAll
  <2> QED
    BY <2>2 DEF p
<1>10. /\ f \in [0 .. N -> Nat \ {0}] /\ f[0] = 1 /\ Sits(z, f[N], d)
       /\ \A i \in 1 .. N : Sits(z, f[i - 1], q[i]) /\ f[i] = f[i - 1] + Len(q[i])
  <2> HIDE DEF q
  <2> QED
    BY <1>4, <1>8, <1>9 DEF c
<1> HIDE DEF q
<1>11. PlacesOf(z, r, f)
  BY <1>3, <1>10 DEF PlacesOf, d
<1> QED
  BY <1>11 DEF z

\* The parts of a metric of a rule.
LEMMA PartsOfMetrics ==
  ASSUME NEW r \in Rules, r.kind = "metric", NEW i \in 1 .. Len(r.metrics)
  PROVE  /\ r.metrics[i].weight \in Int /\ r.metrics[i].default \in ActionsOf(r)
         /\ \A k \in 1 .. Len(r.metrics[i].cases) :
              /\ r.metrics[i].cases[k].condition \in ConditionsOf(r)
              /\ r.metrics[i].cases[k].action \in ActionsOf(r)
<1> DEFINE m == r.metrics[i]
           M == ToSet(r.metrics)
           C == ToSet(m.cases)
<1>1. /\ r.metrics \in Seq(Range(r.metrics)) /\ DOMAIN r.metrics = 1 .. Len(r.metrics)
      /\ Belongs(m)
  BY MetricsBelong, MetricsAre
<1>2. m \in M
  BY <1>1 DEF ToSet
<1>3. m.weight \in Int /\ m.cases \in Seq(Range(m.cases))
  BY <1>1 DEF Belongs, IsMetric
<1>4. ActionsOf(r) = UNION {{x.default} \cup {c.action : c \in ToSet(x.cases)} : x \in M}
      /\ ConditionsOf(r) = UNION {{c.condition : c \in ToSet(x.cases)} : x \in M}
  BY DEF ActionsOf, ConditionsOf
<1> HIDE DEF M, m
<1>5. ASSUME NEW k \in 1 .. Len(m.cases)
      PROVE  m.cases[k].condition \in ConditionsOf(r) /\ m.cases[k].action \in ActionsOf(r)
  <2>1. m.cases[k] \in C
    BY <1>3, LenProperties DEF ToSet
  <2> HIDE DEF C
  <2> QED
    BY <1>2, <1>4, <2>1 DEF C
<1>6. m.default \in ActionsOf(r)
  BY <1>2, <1>4
<1> QED
  BY <1>3, <1>5, <1>6 DEF m

\* A result is put after the others,
LEMMA MarksOpen ==
  ASSUME NEW rs, NEW xs, SameMarks(rs, xs), NEW x, IsScored(x)
  PROVE  SameMarks(Append(rs, x), Append(xs, x)) /\ Len(Append(rs, x)) # 0 /\ IsStack(Append(rs, x))
<1>1. PICK V, W : rs \in Seq(V) /\ xs \in Seq(W)
  BY DEF SameMarks, IsStack
<1> DEFINE U == V \cup W \cup {x}
           n == Len(xs)
           s == Append(rs, x)
           t == Append(xs, x)
<1>2. rs \in Seq(U) /\ xs \in Seq(U) /\ x \in U
  BY <1>1
<1> HIDE DEF U
<1>3. /\ n \in Nat /\ Len(rs) = n
      /\ \A i \in 1 .. n :
           rs[i].score = xs[i].score /\ rs[i].passed = xs[i].passed /\ IsScored(rs[i])
  BY <1>2, LenProperties DEF SameMarks
<1>4. /\ s \in Seq(U) /\ Len(s) = n + 1 /\ s[n + 1] = x
      /\ \A i \in 1 .. n : s[i] = rs[i]
  BY <1>2, <1>3, AppendProperties
<1>5. /\ t \in Seq(U) /\ Len(t) = n + 1 /\ t[n + 1] = x
      /\ \A i \in 1 .. n : t[i] = xs[i]
  BY <1>2, <1>3, AppendProperties
<1> HIDE DEF s, t, n
<1>6. \A i \in 1 .. n + 1 : i = n + 1 \/ i \in 1 .. n
  BY <1>3
<1>7. \A i \in 1 .. n + 1 :
        s[i].score = t[i].score /\ s[i].passed = t[i].passed /\ IsScored(s[i])
  BY <1>3, <1>4, <1>5, <1>6
<1>8. SameMarks(s, t)
  BY <1>4, <1>5, <1>7 DEF SameMarks, IsStack
<1>9. Len(s) # 0 /\ IsStack(s)
  BY <1>3, <1>4, <1>8 DEF SameMarks
<1> QED
  BY <1>8, <1>9 DEF s, t

\* and gets its score.
LEMMA MarksTallied ==
  ASSUME NEW rs, NEW xs, SameMarks(rs, xs), Len(xs) # 0, NEW k, NEW t, Marked(rs, t, k),
         NEW x, x.score = k, x.passed = (k > 0)
  PROVE  SameMarks(t, [xs EXCEPT ![Len(xs)] = x])
<1> DEFINE ys == [xs EXCEPT ![Len(xs)] = x]
           n == Len(xs)
<1>1. Renewed(xs, ys, x)
  <2>1. IsStack(xs)
    BY DEF SameMarks
  <2> QED
    BY <2>1, Replaced
<1> HIDE DEF ys
<1>2. /\ IsStack(ys) /\ Len(ys) = n /\ n \in Nat \ {0} /\ ys[n] = x
      /\ \A i \in 1 .. n : i # n => ys[i] = xs[i]
  BY <1>1 DEF Renewed
<1>3. /\ Len(rs) = n
      /\ \A i \in 1 .. n :
           rs[i].score = xs[i].score /\ rs[i].passed = xs[i].passed /\ IsScored(rs[i])
  BY DEF SameMarks
<1>4. /\ IsStack(t) /\ Len(t) = n /\ t[n].score = k /\ t[n].passed = (k > 0) /\ IsScored(t[n])
      /\ \A i \in 1 .. n : i # n => t[i] = rs[i]
  BY <1>3 DEF Marked
<1>5. \A i \in 1 .. n :
        t[i].score = ys[i].score /\ t[i].passed = ys[i].passed /\ IsScored(t[i])
  <2> HIDE DEF n
  <2> QED
    BY <1>2, <1>3, <1>4
<1>6. SameMarks(t, ys)
  BY <1>2, <1>4, <1>5 DEF SameMarks
<1> QED
  BY <1>6 DEF ys

Start == Ready(1, <<>>, <<>>, <<>>)

\* The code has been executed as far as the case the tree walk is at,
Between(z, f, rs, p, from) ==
  /\ FromCase(from, Current, metric)
  /\ Sits(z, p, from[case]) /\ p + Len(from[case]) = f[metric]
  /\ SameMarks(rs, scores) /\ Goes(z, Start, Ready(p, <<>>, rs, fired))

\* or the end of the metric, with the results of the tree walk; it ends in an error
\* where the tree walk does.
Alongside(z, f) ==
  /\ lastError = "NONE" /\ at # "case" =>
       \E rs : SameMarks(rs, scores) /\ Goes(z, Start, Ready(f[metric], <<>>, rs, fired))
  /\ lastError = "NONE" /\ at = "case" => \E rs, p, from : Between(z, f, rs, p, from)
  /\ lastError # "NONE" => Aborts(z, Start)

\* The machine has not begun when the tree walk has not.
LEMMA AlongsideFirst ==
  ASSUME TreeInit, NEW z, NEW f, PlacesOf(z, rule, f)
  PROVE  Alongside(z, f)
<1>1. scores = <<>> /\ fired = <<>> /\ lastError = "NONE" /\ metric = 0 /\ at = "begin" /\ f[0] = 1
  BY DEF TreeInit, PlacesOf
<1>2. Ready(f[metric], <<>>, <<>>, fired) = Start
  BY <1>1 DEF Start
<1>3. Goes(z, Start, Ready(f[metric], <<>>, <<>>, fired))
  BY <1>2, Staying
<1>4. SameMarks(<<>>, scores)
  BY <1>1, NothingOn DEF SameMarks
<1> QED
  BY <1>1, <1>3, <1>4 DEF Alongside

\* Without a limit an evaluation is what it is.
LEMMA Unlimited ==
  ASSUME limit = 0, NEW e, NEW n
  PROVE  WalkFrom(e, n).value = Evaluate(e, 0).value /\ WalkFrom(e, n).error = Evaluate(e, 0).error
<1> DEFINE w == Evaluate(e, 0)
<1>1. Limited(w, n) = Walked(w.value, n + w.nodes, w.error)
  BY DEF Limited
<1> HIDE DEF w
<1>2. Limited(w, n).value = w.value /\ Limited(w, n).error = w.error
  BY <1>1 DEF Walked
<1> QED
  BY <1>2 DEF WalkFrom, w

\* A metric begins on both sides.
LEMMA AlongsideOpen ==
  ASSUME Booked, NextMetric, NEW z \in Seq(Insts), NEW f, PlacesOf(z, rule, f), Alongside(z, f)
  PROVE  Alongside(z, f)'
<1>1. /\ rule \in Rules /\ rule.kind = "metric" /\ rule' = rule /\ lastError' = lastError
      /\ fired' = fired /\ at # "case"
  BY DEF Booked, NextMetric
<1>2. CASE metric < Len(rule.metrics) /\ lastError = "NONE"
  <2>1. PICK n : n = metric
    OBVIOUS
  <2> DEFINE x == Scored(0, NoReason)
             i == n + 1
             m == rule.metrics[i]
             j == f[n]
  <2>2. /\ metric' = i /\ case' = 1 /\ scores' = Append(scores, x) /\ at' = "case"
    BY <1>1, <1>2, <2>1 DEF NextMetric
  <2>3. n \in 0 .. Len(rule.metrics) /\ n < Len(rule.metrics) /\ Len(rule.metrics) \in Nat
    BY <1>1, <1>2, <2>1, MetricsAre DEF Booked
  <2>4. i \in 1 .. Len(rule.metrics) /\ i - 1 = n
    BY <2>3
  <2>5. Belongs(m) /\ Len(m.cases) \in Nat
    BY <1>1, <2>4, MetricsAre
  <2>6. PICK rs : SameMarks(rs, scores) /\ Goes(z, Start, Ready(j, <<>>, rs, fired))
    BY <1>1, <1>2, <2>1 DEF Alongside
  <2>7. PICK from : FromCase(from, m, i)
    BY <2>5, MetricUnfolds
  <2>8. Sits(z, j, MetricCode(i, m)) /\ f[i] = j + Len(MetricCode(i, m))
    BY <2>4 DEF PlacesOf
  <2> DEFINE c == <<MetricStart(i)>>
             d == from[1]
  <2>9. MetricCode(i, m) = c \o d /\ d \in Seq(Insts) /\ c \in Seq(Insts) /\ Len(c) = 1
    <3>1. i \in Nat /\ 1 \in 1 .. Len(m.cases) + 1
      BY <2>3, <2>5
    <3> HIDE DEF i, m
    <3>2. MetricCode(i, m) = c \o d /\ d \in Seq(Insts)
      BY <2>7, <3>1 DEF FromCase
    <3>3. MetricStart(i) \in Insts
      BY <3>1, InstsAreInsts
    <3> QED
      BY <3>2, <3>3
  <2> HIDE DEF i, m, j, c, d
  <2>10. Sits(z, j, c) /\ Sits(z, j + 1, d) /\ (j + 1) + Len(d) = f[i]
    <3>1. z \in Seq(Insts) /\ c \in Seq(Insts) /\ d \in Seq(Insts) /\ Sits(z, j, c \o d)
      BY <2>8, <2>9
    <3>2. Sits(z, j, c)
      BY <3>1, SitsBoth
    <3>3. Sits(z, j + Len(c), d)
      BY <3>1, SitsBoth
    <3>4. j + Len(c \o d) = j + Len(c) + Len(d)
      BY <3>1, SitsBoth
    <3> QED
      BY <2>8, <2>9, <3>2, <3>3, <3>4
  <2>11. Goes(z, Ready(j, <<>>, rs, fired), Ready(j + 1, <<>>, Append(rs, x), fired))
    <3>1. Sits(z, j, <<MetricStart(i)>>)
      BY <2>10 DEF c
    <3> QED
      BY <3>1, StartRuns
  <2>12. Goes(z, Start, Ready(j + 1, <<>>, Append(rs, x), fired))
    BY <2>6, <2>11, Onwards
  <2>13. SameMarks(Append(rs, x), Append(scores, x))
    <3>1. IsScored(x)
      BY ScoredIs
    <3> HIDE DEF x
    <3> QED
      BY <2>6, <3>1, MarksOpen
  <2> DEFINE us == Append(rs, x)
             p == j + 1
  <2> HIDE DEF us, p, x
  <2>14. Current' = m
    BY <1>1, <2>2 DEF Current, m
  <2>15. Between(z, f, us, p, from)'
    <3>1. FromCase(from, Current', metric')
      BY <2>2, <2>7, <2>14
    <3>2. Sits(z, p, from[case']) /\ p + Len(from[case']) = f[metric']
      BY <2>2, <2>10 DEF p, d
    <3>3. SameMarks(us, scores') /\ Goes(z, Start, Ready(p, <<>>, us, fired'))
      BY <1>1, <2>2, <2>12, <2>13 DEF us, p
    <3> QED
      BY <3>1, <3>2, <3>3 DEF Between
  <2> QED
    BY <1>1, <1>2, <2>2, <2>15 DEF Alongside
<1>3. CASE ~(metric < Len(rule.metrics) /\ lastError = "NONE")
  <2>1. at' = "finish" /\ metric' = metric /\ scores' = scores
    BY <1>1, <1>3 DEF NextMetric
  <2> QED
    BY <1>1, <2>1 DEF Alongside
<1> QED
  BY <1>2, <1>3

\* What both executions have before them at a case.
LEMMA Facing ==
  ASSUME Booked, at = "case", NEW z \in Seq(Insts), NEW f, PlacesOf(z, rule, f), Alongside(z, f)
  PROVE  \E rs, p, from :
           /\ Between(z, f, rs, p, from) /\ IsStack(rs) /\ Len(rs) # 0 /\ Len(scores) # 0
<1>1. lastError = "NONE" /\ Len(scores) = metric /\ metric \in 1 .. Len(rule.metrics)
      /\ rule \in Rules /\ rule.kind = "metric"
  BY BooksInCase
<1>2. PICK rs, p, from : Between(z, f, rs, p, from)
  BY <1>1 DEF Alongside
<1>3. Len(scores) # 0
  BY <1>1, MetricsAre
<1>4. IsStack(rs) /\ Len(rs) # 0
  BY <1>2, <1>3 DEF Between, SameMarks
<1> QED
  BY <1>2, <1>3, <1>4

\* What the rule asks of the actions of a metric.
LEMMA MetricsUnderstood ==
  ASSUME Booked, at = "case", Portable(rule), Compiles(rule)
  PROVE  /\ Current.weight \in Int /\ Understood(rule, Current.default)
         /\ \A k \in 1 .. Len(Current.cases) :
              /\ Current.cases[k].condition \in ConditionsOf(rule)
              /\ Understood(rule, Current.cases[k].action)
<1>1. rule \in Rules /\ rule.kind = "metric" /\ metric \in 1 .. Len(rule.metrics)
  BY BooksInCase
<1>2. /\ Current.weight \in Int /\ Current.default \in ActionsOf(rule)
      /\ \A k \in 1 .. Len(Current.cases) :
           /\ Current.cases[k].condition \in ConditionsOf(rule)
           /\ Current.cases[k].action \in ActionsOf(rule)
  BY <1>1, PartsOfMetrics DEF Current
<1>3. \A a \in ActionsOf(rule) : Understood(rule, a)
  BY <1>1 DEF Understood, Portable
<1> QED
  BY <1>2, <1>3

\* A metric has got its score.
LEMMA AlongsideTallied ==
  ASSUME Booked, at = "case", NEW z, NEW f, NEW rs, NEW p, NEW a, NEW k, NEW x,
         SameMarks(rs, scores), Goes(z, Start, Ready(p, <<>>, rs, fired)),
         Rewards(z, p, f[metric], rs, fired, a, k), ~Refuses(a),
         x.score = k, x.passed = (k > 0), Tally(x), fired' = Triggered(fired, a),
         metric' = metric, lastError' = "NONE", at' = "metric"
  PROVE  Alongside(z, f)'
<1>1. Len(scores) = metric /\ metric \in 1 .. Len(rule.metrics) /\ rule \in Rules /\ rule.kind = "metric"
  BY BooksInCase
<1>2. Len(scores) # 0
  BY <1>1, MetricsAre
<1>3. PICK t : /\ Marked(rs, t, k)
               /\ Goes(z, Ready(p, <<>>, rs, fired), Ready(f[metric], <<>>, t, Triggered(fired, a)))
  BY DEF Rewards
<1>4. SameMarks(t, [scores EXCEPT ![Len(scores)] = x])
  BY <1>2, <1>3, MarksTallied
<1>5. scores' = [scores EXCEPT ![Len(scores)] = x]
  BY <1>1 DEF Tally
<1>6. Goes(z, Start, Ready(f[metric], <<>>, t, Triggered(fired, a)))
  BY <1>3, Onwards
<1>7. SameMarks(t, scores') /\ Goes(z, Start, Ready(f[metric'], <<>>, t, fired'))
  BY <1>4, <1>5, <1>6
<1> QED
  BY <1>7 DEF Alongside

\* A case is decided the way its code decides it.
LEMMA Deciding ==
  ASSUME Booked, Matching, Portable(rule), Compiles(rule), NEW z \in Seq(Insts), NEW f,
         NEW rs, NEW p, NEW from, Between(z, f, rs, p, from), IsStack(rs), Len(rs) # 0
  PROVE  \E o : /\ Sits(z, o, from[case + 1]) /\ o + Len(from[case + 1]) = f[metric]
                /\ Decides(z, p, o, f[metric], rs, fired, Current.cases[case], Current.weight)
<1> DEFINE c == Current.cases[case]
           w == Current.weight
           rest == from[case + 1]
<1>1. at = "case" /\ case <= Len(Current.cases)
  BY DEF Matching
<1>2. case \in 1 .. Len(Current.cases) + 1 /\ Len(Current.cases) \in Nat /\ rule \in Rules
  BY <1>1, BooksInCase
<1>3. case \in 1 .. Len(Current.cases) /\ case + 1 \in 1 .. Len(Current.cases) + 1
  BY <1>1, <1>2
<1>4. w \in Int /\ c.condition \in ConditionsOf(rule) /\ Understood(rule, c.action)
  BY <1>1, <1>3, MetricsUnderstood
<1>5. rest \in Seq(Insts) /\ from[case] = CaseCode(c, w, rest)
  BY <1>3 DEF Between, FromCase
<1>6. Sits(z, p, CaseCode(c, w, rest)) /\ p + Len(CaseCode(c, w, rest)) = f[metric]
  BY <1>5 DEF Between
<1> HIDE DEF c, w, rest
<1>7. PICK o : /\ Sits(z, o, rest) /\ o + Len(rest) = p + Len(CaseCode(c, w, rest))
               /\ Decides(z, p, o, p + Len(CaseCode(c, w, rest)), rs, fired, c, w)
  BY <1>2, <1>4, <1>5, <1>6, CaseRuns
<1> QED
  BY <1>6, <1>7 DEF c, w, rest

\* A condition fails on both sides.
LEMMA AlongsideFails ==
  ASSUME Booked, CaseFails, limit = 0, Portable(rule), Compiles(rule),
         NEW z \in Seq(Insts), NEW f, PlacesOf(z, rule, f), Alongside(z, f)
  PROVE  Alongside(z, f)'
<1>1. /\ Matching /\ at = "case" /\ Failed(Condition) /\ lastError' = Condition.error
  BY DEF CaseFails, Matching
<1>2. PICK rs, p, from : Between(z, f, rs, p, from) /\ IsStack(rs) /\ Len(rs) # 0
  BY <1>1, Facing
<1>3. PICK o : Decides(z, p, o, f[metric], rs, fired, Current.cases[case], Current.weight)
  BY <1>1, <1>2, Deciding
<1>4. Failed(Evaluate(Current.cases[case].condition, 0)) /\ lastError' # "NONE"
  BY <1>1, Unlimited DEF Condition, Failed
<1>5. Aborts(z, Ready(p, <<>>, rs, fired))
  BY <1>3, <1>4 DEF Decides
<1>6. Aborts(z, Start)
  BY <1>2, <1>5, FailsLater DEF Between
<1> QED
  BY <1>4, <1>6 DEF Alongside

\* A case is passed over on both sides.
LEMMA AlongsideMisses ==
  ASSUME Booked, CaseMisses, limit = 0, Portable(rule), Compiles(rule),
         NEW z \in Seq(Insts), NEW f, PlacesOf(z, rule, f), Alongside(z, f)
  PROVE  Alongside(z, f)'
<1>1. /\ Matching /\ at = "case" /\ ~Failed(Condition) /\ ~Fires(Condition.value)
      /\ case' = case + 1 /\ UNCHANGED <<rule, at, metric, lastError, scores, fired>>
  BY DEF CaseMisses, Matching
<1>2. PICK rs, p, from : Between(z, f, rs, p, from) /\ IsStack(rs) /\ Len(rs) # 0
  BY <1>1, Facing
<1>3. PICK o : /\ Sits(z, o, from[case + 1]) /\ o + Len(from[case + 1]) = f[metric]
               /\ Decides(z, p, o, f[metric], rs, fired, Current.cases[case], Current.weight)
  BY <1>1, <1>2, Deciding
<1>4. /\ ~Failed(Evaluate(Current.cases[case].condition, 0))
      /\ ~Fires(Evaluate(Current.cases[case].condition, 0).value)
  BY <1>1, Unlimited DEF Condition, Failed
<1>5. Goes(z, Ready(p, <<>>, rs, fired), Ready(o, <<>>, rs, fired))
  BY <1>3, <1>4 DEF Decides
<1>6. Goes(z, Start, Ready(o, <<>>, rs, fired))
  BY <1>2, <1>5, Onwards DEF Between
<1>7. Between(z, f, rs, o, from)'
  <2>1. Current' = Current
    BY <1>1 DEF Current
  <2>2. FromCase(from, Current', metric') /\ SameMarks(rs, scores')
    BY <1>1, <1>2, <2>1 DEF Between
  <2>3. Sits(z, o, from[case']) /\ o + Len(from[case']) = f[metric']
    BY <1>1, <1>3
  <2>4. Goes(z, Start, Ready(o, <<>>, rs, fired'))
    BY <1>1, <1>6
  <2> QED
    BY <2>2, <2>3, <2>4 DEF Between
<1>8. lastError' = "NONE" /\ at' = "case"
  BY <1>1, BooksInCase
<1> QED
  BY <1>7, <1>8 DEF Alongside

\* A case is taken on both sides.
LEMMA AlongsideMatches ==
  ASSUME Booked, CaseMatches, limit = 0, Portable(rule), Compiles(rule),
         NEW z \in Seq(Insts), NEW f, PlacesOf(z, rule, f), Alongside(z, f)
  PROVE  Alongside(z, f)'
<1> DEFINE a == Current.cases[case].action
           w == Current.weight
           given == Giving(a, w, Condition.nodes)
           x == Scored(given.score, given.reason)
           k == Score(a, w)
<1>1. /\ Matching /\ at = "case" /\ ~Failed(Condition) /\ Fires(Condition.value)
      /\ metric' = metric /\ fired' = Triggered(fired, a) /\ lastError' = given.walked.error
      /\ ~Failed(given.walked) => at' = "metric" /\ Tally(x)
  BY DEF CaseMatches, Matching
<1>2. PICK rs, p, from : Between(z, f, rs, p, from) /\ IsStack(rs) /\ Len(rs) # 0
  BY <1>1, Facing
<1>3. PICK o : Decides(z, p, o, f[metric], rs, fired, Current.cases[case], Current.weight)
  BY <1>1, <1>2, Deciding
<1>4. /\ ~Failed(Evaluate(Current.cases[case].condition, 0))
      /\ Fires(Evaluate(Current.cases[case].condition, 0).value)
  BY <1>1, Unlimited DEF Condition, Failed
<1>5. Rewards(z, p, f[metric], rs, fired, a, k)
  BY <1>3, <1>4 DEF Decides
<1>6. Understood(rule, a)
  <2>1. case \in 1 .. Len(Current.cases) + 1 /\ Len(Current.cases) \in Nat /\ case <= Len(Current.cases)
    BY <1>1, BooksInCase DEF Matching
  <2>2. case \in 1 .. Len(Current.cases)
    BY <2>1
  <2> QED
    BY <1>1, <2>2, MetricsUnderstood
<1>7. SameMarks(rs, scores) /\ Goes(z, Start, Ready(p, <<>>, rs, fired))
  BY <1>2 DEF Between
<1> DEFINE n == Condition.nodes
<1>8. /\ Failed(Giving(a, w, n).walked) <=> Refuses(a)
      /\ ~Refuses(a) => Giving(a, w, n).walked.error = "NONE"
      /\ ~Refuses(a) => Giving(a, w, n).score = Score(a, w)
  <2> HIDE DEF a, w, n
  <2> QED
    BY <1>6, GivesScore
<1>9. CASE Refuses(a)
  <2>1. Aborts(z, Ready(p, <<>>, rs, fired))
    BY <1>5, <1>9 DEF Rewards
  <2>2. Aborts(z, Start)
    BY <1>7, <2>1, FailsLater
  <2>3. lastError' # "NONE"
    BY <1>1, <1>8, <1>9 DEF Failed
  <2> QED
    BY <2>2, <2>3 DEF Alongside
<1>10. CASE ~Refuses(a)
  <2>1. lastError' = "NONE" /\ at' = "metric" /\ Tally(x) /\ metric' = metric
        /\ fired' = Triggered(fired, a)
    BY <1>1, <1>8, <1>10
  <2>2. x.score = k /\ x.passed = (k > 0)
    BY <1>8, <1>10, ScoredIs
  <2>3. at = "case"
    BY <1>1
  <2> HIDE DEF x, k, a
  <2> QED
    BY <1>5, <1>7, <1>10, <2>1, <2>2, <2>3, AlongsideTallied
<1> QED
  BY <1>9, <1>10

\* No case is left on either side, and the default is taken.
LEMMA AlongsideDefault ==
  ASSUME Booked, Default, limit = 0, Portable(rule), Compiles(rule),
         NEW z \in Seq(Insts), NEW f, PlacesOf(z, rule, f), Alongside(z, f)
  PROVE  Alongside(z, f)'
<1> DEFINE a == Current.default
           w == 0
           n == count
           given == Giving(a, w, n)
           reason == IF given.reason = NoReason /\ given.score <= 0 THEN DefaultReason ELSE given.reason
           x == Scored(given.score, reason)
           k == Score(a, w)
<1>1. /\ at = "case" /\ case > Len(Current.cases)
      /\ metric' = metric /\ fired' = Triggered(fired, a) /\ lastError' = given.walked.error
      /\ at' = "metric" /\ Tally(x)
  BY DEF Default
<1>2. PICK rs, p, from : Between(z, f, rs, p, from) /\ IsStack(rs) /\ Len(rs) # 0
  BY <1>1, Facing
<1>3. case \in 1 .. Len(Current.cases) + 1 /\ Len(Current.cases) \in Nat
  BY <1>1, BooksInCase
<1>4. case = Len(Current.cases) + 1
  BY <1>1, <1>3
<1>5. Sits(z, p, Body(a, w)) /\ p + Len(Body(a, w)) = f[metric]
  <2>1. from[case] = Body(a, w)
    BY <1>2, <1>4 DEF Between, FromCase, Body
  <2> QED
    BY <1>2, <2>1 DEF Between
<1>6. Understood(rule, a)
  BY <1>1, MetricsUnderstood
<1>7. SameMarks(rs, scores) /\ Goes(z, Start, Ready(p, <<>>, rs, fired))
  BY <1>2 DEF Between
<1>8. /\ Failed(Giving(a, w, n).walked) <=> Refuses(a)
      /\ ~Refuses(a) => Giving(a, w, n).walked.error = "NONE"
      /\ ~Refuses(a) => Giving(a, w, n).score = Score(a, w)
  <2> HIDE DEF a, w, n
  <2> QED
    BY <1>6, GivesScore
<1>9. Rewards(z, p, f[metric], rs, fired, a, k)
  <2>1. w \in Int
    OBVIOUS
  <2> HIDE DEF a, w, k
  <2>2. Rewards(z, p, p + Len(Body(a, w)), rs, fired, a, Score(a, w))
    BY <1>2, <1>5, <1>6, <2>1, BodyRuns
  <2> QED
    BY <1>5, <2>2 DEF k
<1>10. CASE Refuses(a)
  <2>1. Aborts(z, Ready(p, <<>>, rs, fired))
    BY <1>10, <1>9 DEF Rewards
  <2>2. Aborts(z, Start)
    BY <1>7, <2>1, FailsLater
  <2>3. lastError' # "NONE"
    BY <1>1, <1>8, <1>10 DEF Failed
  <2> QED
    BY <2>2, <2>3 DEF Alongside
<1>11. CASE ~Refuses(a)
  <2>1. lastError' = "NONE" /\ at' = "metric" /\ Tally(x) /\ metric' = metric
        /\ fired' = Triggered(fired, a)
    BY <1>1, <1>8, <1>11
  <2>2. x.score = k /\ x.passed = (k > 0)
    BY <1>8, <1>11, ScoredIs
  <2>3. at = "case"
    BY <1>1
  <2> HIDE DEF x, k, a
  <2> QED
    BY <1>7, <1>11, <1>9, <2>1, <2>2, <2>3, AlongsideTallied
<1> QED
  BY <1>10, <1>11

\* Both executions go on side by side to the end of the rule.
LEMMA AlongsideNext ==
  ASSUME Booked, rule.kind = "metric", TreeNext, limit = 0, Portable(rule), Compiles(rule),
         NEW z \in Seq(Insts), NEW f, PlacesOf(z, rule, f), Alongside(z, f)
  PROVE  Alongside(z, f)'
<1>1. CASE Finish
  <2>1. UNCHANGED <<metric, lastError, scores, fired>> /\ at = "finish" /\ at' = "done"
    BY <1>1 DEF Finish
  <2> QED
    BY <2>1 DEF Alongside
<1>2. ~ExecuteSimple
  BY DEF ExecuteSimple
<1> QED
  BY <1>1, <1>2, AlongsideOpen, AlongsideFails, AlongsideMisses, AlongsideMatches,
     AlongsideDefault DEF TreeNext

(***************************************************************************)
(* The code of a simple rule.                                              *)
(***************************************************************************)
\* The places of its parts.
SimpleLaid(z, r, n, m) ==
  /\ n \in Nat /\ m \in Nat /\ n = Len(Code[r.when]) /\ m = Len(ActionCode(r.then))
  /\ Sits(z, 1, Code[r.when])
  /\ Sits(z, 1 + n, <<JumpIf(FALSE, m + 2)>>)
  /\ Sits(z, 1 + n + 1, ActionCode(r.then))
  /\ Sits(z, 1 + n + 1 + m, <<Push(Bool(TRUE))>>) /\ Sits(z, 1 + n + 1 + m + 1, <<Inst("RET")>>)

\* The pieces of the code of a simple rule sit where SimpleLaid says.
LEMMA SimplyLaid ==
  ASSUME NEW r \in Rules, r.kind = "simple"
  PROVE  SimpleLaid(CodeOf(r), r, Len(Code[r.when]), Len(ActionCode(r.then)))
<1> DEFINE C == Code[r.when]
           A == ActionCode(r.then)
           z == CodeOf(r)
           n == Len(C)
           m == Len(A)
           J == <<JumpIf(FALSE, m + 2)>>
           K == <<Push(Bool(TRUE)), Inst("RET")>>
           X2 == C \o J
           X3 == X2 \o A
           p == 1
<1>1. z = X3 \o K
  BY DEF CodeOf
<1>2. C \in Seq(Insts) /\ A \in Seq(Insts) /\ z \in Seq(Insts)
  BY SimpleRules, CodeUnfolds, ActionCodes, CodesOfRules
<1>3. n \in Nat /\ m \in Nat
  <2> HIDE DEF A, C
  <2> QED
    BY <1>2, LenProperties
<1> HIDE DEF n, m, z, p
<1>4. JumpIf(FALSE, m + 2) \in Insts /\ Push(Bool(TRUE)) \in Insts /\ Inst("RET") \in Insts
  <2>1. m + 2 \in Nat \ {0}
    BY <1>3
  <2> QED
    BY <2>1, InstsAreInsts
<1>5. J \in Seq(Insts) /\ K \in Seq(Insts) /\ Len(J) = 1 /\ Len(K) = 2
  BY <1>4, Pairs
<1> HIDE DEF A, C, J, K
<1>6. X2 \in Seq(Insts) /\ X3 \in Seq(Insts)
  BY <1>2, <1>5, ConcatProperties
<1> HIDE DEF X2, X3
<1>7. Sits(z, p, X3) /\ Sits(z, p + Len(X3), K)
  <2>1. Sits(z, p, X3 \o K) /\ z \in Seq(Insts) /\ X3 \in Seq(Insts) /\ K \in Seq(Insts)
    BY <1>1, <1>2, <1>5, <1>6, SitsWhole DEF p
  <2>2. Sits(z, p, X3)
    BY <2>1, SitsBoth
  <2>3. Sits(z, p + Len(X3), K)
    BY <2>1, SitsBoth
  <2> QED
    BY <2>2, <2>3
<1>8. Sits(z, p, X2) /\ Sits(z, p + Len(X2), A) /\ p + Len(X3) = p + Len(X2) + m
  <2>1. Sits(z, p, X2 \o A) /\ z \in Seq(Insts) /\ X2 \in Seq(Insts) /\ A \in Seq(Insts)
    BY <1>2, <1>6, <1>7 DEF X3
  <2>2. Sits(z, p, X2)
    BY <2>1, SitsBoth
  <2>3. Sits(z, p + Len(X2), A)
    BY <2>1, SitsBoth
  <2>4. p + Len(X2 \o A) = p + Len(X2) + Len(A)
    BY <2>1, SitsBoth
  <2> QED
    BY <2>2, <2>3, <2>4 DEF X3, m
<1>9. Sits(z, p, C) /\ Sits(z, p + n, J) /\ p + Len(X2) = p + n + 1
  <2>1. Sits(z, p, C \o J) /\ z \in Seq(Insts) /\ C \in Seq(Insts) /\ J \in Seq(Insts)
    BY <1>2, <1>5, <1>8 DEF X2
  <2>2. Sits(z, p, C)
    BY <2>1, SitsBoth
  <2>3. Sits(z, p + Len(C), J)
    BY <2>1, SitsBoth
  <2>4. p + Len(C \o J) = p + Len(C) + Len(J)
    BY <2>1, SitsBoth
  <2> QED
    BY <1>5, <2>2, <2>3, <2>4 DEF X2, n
<1>10. p + Len(X3) = p + n + 1 + m
  BY <1>8, <1>9
<1>11. Sits(z, p + n + 1, A) /\ Sits(z, p + n + 1 + m, K)
  BY <1>7, <1>8, <1>9, <1>10
<1>12. Sits(z, p + n + 1 + m, <<Push(Bool(TRUE))>>) /\ Sits(z, p + n + 1 + m + 1, <<Inst("RET")>>)
  <2> DEFINE j == p + n + 1 + m
             x == Push(Bool(TRUE))
             y == Inst("RET")
  <2>1. Sits(z, j, <<x, y>>) /\ x \in Insts /\ y \in Insts
    BY <1>4, <1>11 DEF K
  <2> HIDE DEF j, x, y
  <2>2. Sits(z, j, <<x>>) /\ Sits(z, j + 1, <<y>>)
    BY <1>2, <2>1, SitsPair
  <2> QED
    BY <2>2 DEF j, x, y
<1>13. Sits(z, p + n, <<JumpIf(FALSE, m + 2)>>)
  BY <1>9 DEF J
<1> QED
  BY <1>3, <1>9, <1>11, <1>12, <1>13 DEF SimpleLaid, C, A, n, m, z, p

\* The condition is the verdict: the code returns whether it holds.
Judged(z, r) ==
  LET v == Evaluate(r.when, 0) IN
  IF Failed(v) THEN Aborts(z, Start)
  ELSE \E i, b : /\ b \in Truths /\ (IsTrue(b) <=> Fires(v.value))
                 /\ Goes(z, Start, Config(i, <<>>, "stopped", FALSE, b, <<>>,
                                          IF Fires(v.value) THEN Triggered(<<>>, r.then) ELSE <<>>))

\* The code of a simple rule calls its action if its condition holds.
LEMMA SimpleRuns ==
  ASSUME NEW r \in Rules, r.kind = "simple", Compiles(r), Portable(r)
  PROVE  Judged(CodeOf(r), r)
<1> DEFINE e == r.when
           a == r.then
           z == CodeOf(r)
           n == Len(Code[e])
           m == Len(ActionCode(a))
           v == Evaluate(e, 0)
           none == <<>>
           s == Append(none, v.value)
           j == 1 + n
           b == FALSE
           k == j + 1 + m
<1>1. z \in Seq(Insts)
  BY CodesOfRules
<1>2. SimpleLaid(z, r, n, m)
  BY SimplyLaid
<1>3. e \in ConditionsOf(r) /\ Understood(r, a) /\ ~Refuses(a)
  <2>1. e \in ConditionsOf(r) /\ a \in ActionsOf(r) /\ IsAction(a)
    BY SimpleRules DEF ConditionsOf, ActionsOf
  <2>2. Understood(r, a)
    BY <2>1 DEF Understood, Portable
  <2>3. a.args # <<>> => ~Failed(Evaluate(a.args[1], 0))
    <3> SUFFICES ASSUME a.args # <<>> PROVE ~Failed(Evaluate(a.args[1], 0))
      OBVIOUS
    <3>1. a.args[1] \in Exprs /\ 1 \in DOMAIN a.args
      BY <2>1, FirstArgument
    <3>2. a.args[1].kind \in {"literal", "id"}
      BY <2>2, <3>1 DEF Understood, PortableArgument
    <3> QED
      BY <3>1, <3>2, SimpleArguments DEF Evaluate
  <2> QED
    BY <2>1, <2>2, <2>3 DEF Refuses
<1> HIDE DEF n, m
<1>4. /\ n \in Nat /\ m \in Nat /\ n = Len(Code[e]) /\ m = Len(ActionCode(a))
      /\ Sits(z, 1, Code[e]) /\ Sits(z, j, <<JumpIf(FALSE, m + 2)>>)
      /\ Sits(z, j + 1, ActionCode(a))
      /\ Sits(z, k, <<Push(Bool(TRUE))>>) /\ Sits(z, k + 1, <<Inst("RET")>>)
  BY <1>2 DEF SimpleLaid
<1>5. j \in Nat /\ j + (m + 2) = k + 1
  <2>1. n \in Nat /\ m \in Nat
    BY <1>4
  <2> QED
    BY <2>1
<1> HIDE DEF z, e, a, v
<1>6. /\ Yields(z, 1, n, none, none, none, v)
      /\ ~Failed(v) => v.value \in Truths
  BY <1>1, <1>3, <1>4, ConditionRuns DEF v
<1>7. IsStack(none)
  BY NothingOn
<1> HIDE DEF j, k, none
<1>8. CASE Failed(v)
  <2>1. Aborts(z, Start)
    BY <1>6, <1>8 DEF Yields, Start, none
  <2> QED
    BY <1>8, <2>1 DEF Judged, v, e, z
<1>9. ASSUME ~Failed(v)
      PROVE  /\ Goes(z, Start, Ready(j, s, none, none))
             /\ v.value \in Truths
             /\ Fires(v.value) <=> IsTrue(v.value)
  BY <1>6, <1>9, TruthsFire DEF Yields, Start, none, j
<1>10. Goes(z, Ready(j, s, none, none),
            IF IsTrue(v.value) <=> b THEN Ready(j + (m + 2), s, none, none)
            ELSE Ready(j + 1, none, none, none))
  <2> DEFINE d == m + 2
  <2>1. Sits(z, j, <<JumpIf(b, d)>>) /\ b \in BOOLEAN
    BY <1>4
  <2> HIDE DEF b, d
  <2> QED
    BY <1>1, <1>7, <2>1, BranchRuns DEF d
<1>11. CASE ~Failed(v) /\ ~Fires(v.value)
  <2> DEFINE i == k + 1
  <2>1. Goes(z, Ready(j, s, none, none), Ready(i, s, none, none))
    BY <1>5, <1>9, <1>10, <1>11
  <2>2. Sits(z, i, <<Inst("RET")>>)
    BY <1>4
  <2> HIDE DEF i
  <2>3. Goes(z, Ready(i, s, none, none), Config(i, <<>>, "stopped", FALSE, v.value, none, none))
    BY <1>1, <1>7, <2>2, ReturnRuns
  <2>4. Goes(z, Start, Ready(i, s, none, none))
    BY <1>9, <1>11, <2>1, Onwards
  <2>5. Goes(z, Start, Config(i, <<>>, "stopped", FALSE, v.value, none, none))
    BY <2>3, <2>4, Onwards
  <2> QED
    BY <1>9, <1>11, <2>5 DEF Judged, v, e, z, none
<1>12. CASE ~Failed(v) /\ Fires(v.value)
  <2> DEFINE i == j + 1
             us == Triggered(none, a)
             t == Bool(TRUE)
             y == k + 1
  <2>1. Goes(z, Ready(j, s, none, none), Ready(i, none, none, none))
    BY <1>9, <1>10, <1>12
  <2>2. Sits(z, i, ActionCode(a)) /\ i + m = k
    BY <1>4 DEF k
  <2>3. Sits(z, k, <<Push(t)>>) /\ Sits(z, y, <<Inst("RET")>>) /\ y = k + 1
    BY <1>4
  <2> HIDE DEF i, us, t, y
  <2>4. Acted(z, i, m, none, none, a)
    BY <1>1, <1>3, <1>4, <2>2, ActionRuns
  <2>5. Goes(z, Ready(i, none, none, none), Ready(k, none, none, us))
    BY <1>3, <2>2, <2>4 DEF Acted, none, us
  <2>6. ~(Len(none) >= MaxStack)
    BY NothingOn, MaxStackAssumption DEF none
  <2>7. Goes(z, Ready(k, none, none, us), Ready(y, Append(none, t), none, us))
    BY <1>1, <2>3, <2>6, PushRuns
  <2>8. Goes(z, Ready(y, Append(none, t), none, us),
             Config(y, <<>>, "stopped", FALSE, t, none, us))
    BY <1>1, <1>7, <2>3, ReturnRuns
  <2>9. Goes(z, Start, Ready(i, none, none, none))
    BY <1>9, <1>12, <2>1, Onwards
  <2>10. Goes(z, Start, Ready(k, none, none, us))
    BY <2>5, <2>9, Onwards
  <2>11. Goes(z, Start, Ready(y, Append(none, t), none, us))
    BY <2>7, <2>10, Onwards
  <2>12. Goes(z, Start, Config(y, <<>>, "stopped", FALSE, t, none, us))
    BY <2>8, <2>11, Onwards
  <2>13. t \in Truths /\ IsTrue(t)
    BY DEF t, Truths, IsTrue, BoolVal, Bool, Value
  <2> QED
    BY <1>12, <2>12, <2>13 DEF Judged, v, e, z, none, us, a
<1> QED
  BY <1>8, <1>11, <1>12

(***************************************************************************)
(* The report.                                                             *)
(***************************************************************************)
\* The tree walk of a simple rule is over.
SimplyWalked ==
  LET v == Evaluate(rule.when, 0)
      fires == Fires(v.value)
  IN IF Failed(v) THEN verdict = "ERROR"
     ELSE /\ fired = (IF fires THEN Triggered(<<>>, rule.then) ELSE <<>>)
          /\ max = 100 /\ total = (IF fires THEN 0 ELSE 100)
          /\ scores = <<Scored(total, NoReason)>>
          /\ verdict = (IF fires THEN "FAILED" ELSE "PASSED")

\* So does the tree walk, in one step.
LEMMA SimpleWalk ==
  ASSUME Booked, ExecuteSimple, limit = 0
  PROVE  SimplyWalked'
<1> DEFINE w == WalkFrom(rule.when, 0)
           v == Evaluate(rule.when, 0)
           fires == ~Failed(w) /\ Fires(w.value)
<1>1. at = "begin" /\ fired = <<>> /\ rule' = rule
  BY DEF ExecuteSimple, Booked
<1>2. /\ fired' = (IF fires THEN Triggered(fired, rule.then) ELSE fired)
      /\ scores' = <<Scored(IF fires \/ Failed(w) THEN 0 ELSE 100, NoReason)>>
      /\ max' = (IF Failed(w) THEN 0 ELSE 100)
      /\ total' = (IF fires \/ Failed(w) THEN 0 ELSE 100)
      /\ verdict' = (IF Failed(w) THEN "ERROR" ELSE IF fires THEN "FAILED" ELSE "PASSED")
  BY DEF ExecuteSimple
<1>3. w.value = v.value /\ (Failed(w) <=> Failed(v))
  BY Unlimited DEF Failed
<1>4. Evaluate(rule.when, 0)' = v
  BY <1>1
<1> HIDE DEF w, v
<1>5. CASE Failed(v)
  <2>1. verdict' = "ERROR"
    BY <1>2, <1>3, <1>5
  <2> QED
    BY <1>4, <1>5, <2>1 DEF SimplyWalked
<1>6. CASE ~Failed(v) /\ Fires(v.value)
  <2>1. /\ fired' = Triggered(<<>>, rule'.then) /\ max' = 100 /\ total' = 0
        /\ scores' = <<Scored(0, NoReason)>> /\ verdict' = "FAILED"
    BY <1>1, <1>2, <1>3, <1>6
  <2> QED
    BY <1>4, <1>6, <2>1 DEF SimplyWalked
<1>7. CASE ~Failed(v) /\ ~Fires(v.value)
  <2>1. /\ fired' = <<>> /\ max' = 100 /\ total' = 100
        /\ scores' = <<Scored(100, NoReason)>> /\ verdict' = "PASSED"
    BY <1>1, <1>2, <1>3, <1>7
  <2> QED
    BY <1>4, <1>7, <2>1 DEF SimplyWalked
<1> QED
  BY <1>5, <1>6, <1>7

\* A configuration in which the machine stops and from which a report is made that
\* agrees with that of the tree walk: after an error,
AnswersError(c) == verdict = "ERROR" /\ c.error = TRUE

\* with the verdict of a simple rule,
AnswersSimply(c) ==
  /\ c.error = FALSE /\ c.results = <<>> /\ c.result \in Truths /\ c.triggered = fired
  /\ max = 100 /\ total = (IF IsTrue(c.result) THEN 0 ELSE 100)
  /\ scores = <<Scored(total, NoReason)>>
  /\ verdict = (IF IsTrue(c.result) THEN "FAILED" ELSE "PASSED")

\* or with the results of the metrics.
AnswersMetrics(c) ==
  /\ c.error = FALSE /\ SameMarks(c.results, scores) /\ c.triggered = fired
  /\ rule \in Rules /\ rule.kind = "metric" /\ rule.pass > 0 /\ rule.partial > 0
  /\ Len(scores) = Len(rule.metrics)
  /\ Ledger(Len(rule.metrics)) /\ max = Weighed(rule, Len(rule.metrics))
  /\ verdict = Status(total, vetoed, rule.pass, rule.partial)

Answers(c) == AnswersError(c) \/ AnswersSimply(c) \/ AnswersMetrics(c)

\* The code ends with the answer.
Answered == \E c : c.mode = "stopped" /\ Answers(c) /\ Goes(CodeOf(rule), Start, c)

\* An error is an answer to an error.
LEMMA ErrorAnswers ==
  ASSUME Aborts(CodeOf(rule), Start), verdict = "ERROR"
  PROVE  Answered
<1>1. PICK p, rs, ts : Goes(CodeOf(rule), Start, Config(p, <<>>, "stopped", TRUE, Void, rs, ts))
  BY DEF Aborts
<1> DEFINE c == Config(p, <<>>, "stopped", TRUE, Void, rs, ts)
<1>2. c.mode = "stopped" /\ c.error = TRUE
  BY DEF Config
<1> HIDE DEF c
<1>3. Goes(CodeOf(rule), Start, c)
  BY <1>1 DEF c
<1> QED
  BY <1>2, <1>3 DEF Answered, Answers, AnswersError

\* The two leave the same verdict, calls and report of a simple rule.
LEMMA SimpleAnswered ==
  ASSUME SimplyWalked, rule \in Rules, rule.kind = "simple", Compiles(rule), Portable(rule)
  PROVE  Answered
<1> DEFINE v == Evaluate(rule.when, 0)
           us == IF Fires(v.value) THEN Triggered(<<>>, rule.then) ELSE <<>>
<1>1. Judged(CodeOf(rule), rule)
  BY SimpleRuns
<1>2. CASE Failed(v)
  <2>1. Aborts(CodeOf(rule), Start) /\ verdict = "ERROR"
    BY <1>1, <1>2 DEF Judged, SimplyWalked
  <2> QED
    BY <2>1, ErrorAnswers
<1>3. CASE ~Failed(v)
  <2>1. PICK i, b : /\ b \in Truths /\ (IsTrue(b) <=> Fires(v.value))
                    /\ Goes(CodeOf(rule), Start, Config(i, <<>>, "stopped", FALSE, b, <<>>, us))
    BY <1>1, <1>3 DEF Judged
  <2>2. /\ fired = us /\ max = 100 /\ total = (IF Fires(v.value) THEN 0 ELSE 100)
        /\ scores = <<Scored(total, NoReason)>>
        /\ verdict = (IF Fires(v.value) THEN "FAILED" ELSE "PASSED")
    BY <1>3 DEF SimplyWalked
  <2> HIDE DEF v, us
  <2> DEFINE c == Config(i, <<>>, "stopped", FALSE, b, <<>>, us)
  <2>3. c.mode = "stopped" /\ c.error = FALSE /\ c.result = b /\ c.results = <<>> /\ c.triggered = us
    BY DEF Config
  <2>4. Goes(CodeOf(rule), Start, c)
    BY <2>1
  <2> HIDE DEF c
  <2>5. AnswersSimply(c)
    BY <2>1, <2>2, <2>3 DEF AnswersSimply
  <2> QED
    BY <2>3, <2>4, <2>5 DEF Answered, Answers
<1> QED
  BY <1>2, <1>3

\* Where the tree walk has ended, the machine leaves the same verdict, scores, calls and
\* report of a rule of metrics.
LEMMA MetricsAnswered ==
  ASSUME Booked, at = "done", rule.kind = "metric", Compiles(rule), Portable(rule),
         NEW f, PlacesOf(CodeOf(rule), rule, f), Alongside(CodeOf(rule), f)
  PROVE  Answered
<1>1. rule \in Rules /\ rule.pass > 0 /\ rule.partial > 0
  BY DEF Booked, Portable
<1>2. CASE lastError # "NONE"
  <2>1. Aborts(CodeOf(rule), Start) /\ verdict = "ERROR"
    BY <1>2 DEF Alongside, Booked
  <2> QED
    BY <2>1, ErrorAnswers
<1>3. CASE lastError = "NONE"
  <2>1. PICK rs : SameMarks(rs, scores) /\ Goes(CodeOf(rule), Start, Ready(f[metric], <<>>, rs, fired))
    BY <1>3 DEF Alongside
  <2>2. /\ Len(scores) = metric /\ max = Weighed(rule, metric) /\ Ledger(metric)
        /\ metric = Len(rule.metrics) /\ verdict = Status(total, vetoed, rule.pass, rule.partial)
    BY <1>3 DEF Booked
  <2> DEFINE p == f[metric]
             c == Config(p, <<>>, "stopped", FALSE, Void, rs, fired)
  <2>3. Sits(CodeOf(rule), p, <<Inst("RULE_END")>>) /\ CodeOf(rule) \in Seq(Insts)
    BY <1>1, <2>2, CodesOfRules DEF PlacesOf
  <2>4. c.mode = "stopped" /\ c.error = FALSE /\ c.results = rs /\ c.triggered = fired
    BY DEF Config
  <2> HIDE DEF p
  <2>5. Goes(CodeOf(rule), Ready(p, <<>>, rs, fired), c)
    BY <2>3, EndRuns
  <2> HIDE DEF c
  <2>6. Goes(CodeOf(rule), Start, c)
    BY <2>1, <2>5, Onwards DEF p
  <2>7. AnswersMetrics(c)
    BY <1>1, <2>1, <2>2, <2>4 DEF AnswersMetrics
  <2> QED
    BY <2>4, <2>6, <2>7 DEF Answered, Answers
<1> QED
  BY <1>2, <1>3

\* A rule both executions understand, without a limit.
Comparable == limit = 0 /\ Portable(rule)

\* What the tree walk has come to is what the code of the rule comes to.
Prepared ==
  /\ Booked
  /\ Comparable /\ Compiles(rule) /\ rule.kind = "metric" =>
       \A f : PlacesOf(CodeOf(rule), rule, f) => Alongside(CodeOf(rule), f)
  /\ limit = 0 /\ rule.kind = "simple" /\ at = "done" => SimplyWalked

\* Before the first step nothing has been walked and nothing is in the books.
LEMMA PreparedFirst == Init => Prepared
<1> SUFFICES ASSUME Init PROVE Prepared
  OBVIOUS
<1>1. TreeInit /\ at = "begin"
  BY DEF Init, TreeInit
<1>2. Booked
  BY <1>1, BookedFirst
<1>3. \A f : PlacesOf(CodeOf(rule), rule, f) => Alongside(CodeOf(rule), f)
  BY <1>1, AlongsideFirst
<1> QED
  BY <1>1, <1>2, <1>3 DEF Prepared

\* A step of the tree walk takes the code along; no step of the machine changes the walk.
LEMMA PreparedNext == Prepared /\ [Next]_vars => Prepared'
<1> SUFFICES ASSUME Prepared, [Next]_vars PROVE Prepared'
  OBVIOUS
<1>1. CASE TreeNext
  <2>1. rule' = rule /\ limit' = limit
    BY <1>1 DEF TreeNext, ExecuteSimple, NextMetric, CaseFails, CaseMisses, CaseMatches, Default, Finish
  <2>2. Booked'
    BY <1>1, BookedNext DEF Prepared
  <2>3. ASSUME Comparable, Compiles(rule), rule.kind = "metric", NEW f, PlacesOf(CodeOf(rule), rule, f)
        PROVE  Alongside(CodeOf(rule), f)'
    <3>1. Booked /\ limit = 0 /\ Portable(rule) /\ Alongside(CodeOf(rule), f)
      BY <2>3 DEF Prepared, Comparable
    <3>2. PICK z \in Seq(Insts) : z = CodeOf(rule)
      BY <3>1, CodesOfRules DEF Booked
    <3>3. PlacesOf(z, rule, f) /\ Alongside(z, f)
      BY <2>3, <3>1, <3>2
    <3>4. Alongside(z, f)'
      BY <1>1, <2>3, <3>1, <3>3, AlongsideNext
    <3>5. z = CodeOf(rule')
      BY <2>1, <3>2
    <3> QED
      BY <3>4, <3>5
  <2>4. ASSUME limit = 0, rule.kind = "simple", at' = "done" PROVE SimplyWalked'
    <3>1. ~NextMetric /\ ~Finish /\ ~CaseFails /\ ~CaseMisses /\ ~CaseMatches /\ ~Default
      BY <2>4 DEF Prepared, Booked, NextMetric, Finish, CaseFails, CaseMisses, CaseMatches, Default,
                  Matching
    <3>2. ExecuteSimple
      BY <1>1, <3>1 DEF TreeNext
    <3> QED
      BY <2>4, <3>2, SimpleWalk DEF Prepared
  <2> QED
    BY <2>1, <2>2, <2>3, <2>4 DEF Prepared, Comparable
<1>2. CASE UNCHANGED <<rule, limit, treeVars>>
  <2>1. Booked'
    BY <1>2, BookedNext DEF Prepared
  <2>2. UNCHANGED <<rule, limit, at, metric, case, lastError, scores, max, total, fired, verdict>>
    BY <1>2 DEF treeVars
  <2>3. ASSUME NEW z, NEW f, Alongside(z, f) PROVE Alongside(z, f)'
    BY <2>2, <2>3 DEF Alongside, Between, Current
  <2>4. ASSUME NEW f, PlacesOf(CodeOf(rule'), rule', f), Comparable', Compiles(rule'), rule'.kind = "metric"
        PROVE  Alongside(CodeOf(rule), f)'
    <3>1. PlacesOf(CodeOf(rule), rule, f) /\ Comparable /\ Compiles(rule) /\ rule.kind = "metric"
      BY <2>2, <2>4 DEF Comparable
    <3>2. Alongside(CodeOf(rule), f)
      BY <3>1 DEF Prepared
    <3>3. PICK z : z = CodeOf(rule)
      OBVIOUS
    <3>4. Alongside(z, f)'
      BY <2>3, <3>2, <3>3
    <3>5. z = CodeOf(rule')
      BY <2>2, <3>3
    <3> QED
      BY <3>4, <3>5
  <2>5. SimplyWalked => SimplyWalked'
    BY <2>2 DEF SimplyWalked
  <2> QED
    BY <2>1, <2>2, <2>4, <2>5 DEF Prepared
<1>3. TreeNext \/ UNCHANGED <<rule, limit, treeVars>>
  BY DEF Next, Walk, Ended, vars
<1> QED
  BY <1>1, <1>2, <1>3

\* The machine has the answer before it, or has given it.
Answering ==
  /\ error \in BOOLEAN
  /\ mode = "idle" =>
       ip = 1 /\ stack = <<>> /\ ~error /\ result = Void /\ results = <<>> /\ triggered = <<>>
  /\ Comparable =>
       /\ mode = "run" => code = CodeOf(rule)
                          /\ \E c : c.mode = "stopped" /\ Answers(c) /\ Goes(code, Here, c)
       /\ mode = "stopped" => Answers(Here)
       /\ mode = "reported" => Agreement

\* The machine has not begun.
LEMMA AnsweringFirst == Init => Answering
  BY DEF Init, Answering

\* error_state is set or not.
LEMMA ErrorsAreSetOrNot == error \in BOOLEAN /\ [Next]_vars => error' \in BOOLEAN
<1> SUFFICES ASSUME error \in BOOLEAN, [Next]_vars PROVE error' \in BOOLEAN
  OBVIOUS
<1>1. ASSUME NEW s, NEW v, NEW failing, PushOn(s, v, failing), failing \in BOOLEAN
      PROVE  error' \in BOOLEAN
  BY <1>1 DEF PushOn, Abort
<1>2. CASE Walk \/ Ended \/ UNCHANGED vars
  BY <1>2 DEF Walk, machine, Ended, vars
<1>3. CASE ExecPush
  BY <1>1, <1>3 DEF ExecPush
<1>4. CASE ExecArray
  BY <1>1, <1>4 DEF ExecArray
<1>5. CASE ExecOperate
  BY <1>1, <1>5 DEF ExecOperate, Abort
<1>6. CASE ExecCall
  <2>1. PICK s, v, failing : PushOn(s, v, error \/ failing)
    BY <1>6, Zenon DEF ExecCall
  <2> QED
    BY <1>1, <2>1
<1>7. CASE OverQuota \/ ExecPop \/ ExecAction \/ ExecJump \/ ExecMetricStart \/ ExecSetScore
           \/ ExecFailMetric \/ ExecRuleEnd \/ ExecRet
  BY <1>7 DEF OverQuota, Abort, ExecPop, ExecAction, ExecJump, ExecMetricStart, ExecSetScore,
              ExecFailMetric, ExecRuleEnd, ExecRet
<1>8. CASE Compile \/ FallBack \/ ReportFailure \/ ReportSimple \/ ReportMetrics
  BY <1>8 DEF Compile, FallBack, ReportFailure, ReportSimple, ReportMetrics
<1> QED
  BY <1>2, <1>3, <1>4, <1>5, <1>6, <1>7, <1>8 DEF Next, Execute

\* The machine is started with the code of the rule.
LEMMA AnsweringCompiled ==
  ASSUME Prepared, Comparable, Compile, mode = "idle", Answering, UNCHANGED <<rule, limit, treeVars>>
  PROVE  code' = CodeOf(rule) /\ \E c : c.mode = "stopped" /\ Answers(c) /\ Goes(code, Here, c)'
<1>1. at = "done" /\ Compiles(rule) /\ mode' = "run" /\ code' = CodeOf(rule)
      /\ UNCHANGED <<ip, stack, error, result, results, triggered>>
  BY DEF Compile
<1>2. Here' = Start
  <2>1. ip = 1 /\ stack = <<>> /\ error = FALSE /\ result = Void /\ results = <<>> /\ triggered = <<>>
    BY DEF Answering
  <2> QED
    BY <1>1, <2>1 DEF Here, Start, Ready
<1>3. Booked /\ rule \in Rules /\ Portable(rule) /\ limit = 0
  BY DEF Prepared, Booked, Comparable
<1>4. Answered
  <2>1. CASE rule.kind = "simple"
    BY <1>1, <1>3, <2>1, SimpleAnswered DEF Prepared
  <2>2. CASE rule.kind = "metric"
    <3>1. PICK f : PlacesOf(CodeOf(rule), rule, f)
      BY <1>3, <2>2, PlacesExist
    <3>2. Alongside(CodeOf(rule), f)
      BY <1>1, <2>2, <3>1 DEF Prepared
    <3> QED
      BY <1>1, <1>3, <2>2, <3>1, <3>2, MetricsAnswered
  <2> QED
    BY <1>3, <2>1, <2>2, RulesAssumption
<1> QED
  BY <1>1, <1>2, <1>4 DEF Answered

\* An answer stays one while the tree walk's state stays.
LEMMA AnswersStay ==
  ASSUME UNCHANGED <<rule, limit, treeVars>>, NEW c, Answers(c)
  PROVE  Answers(c)'
<1>1. UNCHANGED <<rule, scores, max, total, vetoed, fired, verdict>>
  BY DEF treeVars
<1>2. \A n : Ledger(n) => Ledger(n)'
  BY <1>1 DEF Ledger
<1>3. CASE AnswersError(c)
  BY <1>1, <1>3 DEF AnswersError, Answers
<1>4. CASE AnswersSimply(c)
  BY <1>1, <1>4 DEF AnswersSimply, Answers
<1>5. CASE AnswersMetrics(c)
  <2>1. Ledger(Len(rule.metrics))'
    BY <1>1, <1>2, <1>5 DEF AnswersMetrics
  <2> QED
    BY <1>1, <1>5, <2>1 DEF AnswersMetrics, Answers
<1> QED
  BY <1>3, <1>4, <1>5 DEF Answers

\* An execution that is started goes on to its answer.
LEMMA AnsweringOn ==
  ASSUME Comparable, Answering, mode = "run", Execute, UNCHANGED <<rule, limit, treeVars>>
  PROVE  /\ mode' \in {"run", "stopped"} /\ code' = CodeOf(rule)
         /\ mode' = "run" => \E c : c.mode = "stopped" /\ Answers(c) /\ Goes(code, Here, c)'
         /\ mode' = "stopped" => \E c : Answers(c) /\ c = Here'
<1>1. code = CodeOf(rule) /\ error \in BOOLEAN /\ limit = 0
  BY DEF Answering, Comparable
<1>2. PICK c : c.mode = "stopped" /\ Answers(c) /\ Goes(code, Here, c)
  BY DEF Answering
<1>3. Here' = Stepped(code, Here) /\ code' = code
  BY <1>1, Executions
<1>4. Here.mode = mode /\ Here'.mode = mode'
  BY DEF Here, Config
<1>5. Goes(code, Stepped(code, Here), c)
  <2>1. Here # c
    BY <1>2, <1>4
  <2> QED
    BY <1>2, <2>1, Beyond
<1>6. Goes(code', Here', c)
  BY <1>3, <1>5
<1>7. CASE mode' = "run"
  <2>1. Goes(code, Here, c)'
    BY <1>6
  <2> QED
    BY <1>1, <1>2, <1>3, <1>7, <2>1
<1>8. CASE mode' # "run"
  <2>1. c = Here'
    <3> DEFINE a == Here'
    <3>1. a.mode # "run" /\ Goes(code, a, c)
      BY <1>3, <1>4, <1>5, <1>8
    <3> HIDE DEF a
    <3>2. c = a
      BY <3>1, Stopping
    <3> QED
      BY <3>2 DEF a
  <2>2. mode' = "stopped"
    BY <1>2, <1>4, <2>1
  <2> QED
    BY <1>1, <1>2, <1>3, <2>1, <2>2
<1> QED
  BY <1>7, <1>8

\* The report gives the answer: after an error,
LEMMA FailureAgrees ==
  ASSUME ReportFailure, Answers(Here), UNCHANGED <<rule, limit, treeVars>>
  PROVE  Agreement'
<1>1. Here.error = error /\ Here.results = results /\ Here.result = result
  BY DEF Here, Config
<1>2. /\ error \/ (results = <<>> /\ result.type # "BOOL")
      /\ report' = Summary("ERROR", 0, 0) /\ verdict' = verdict
  BY DEF ReportFailure, treeVars
<1>3. CASE AnswersError(Here)
  BY <1>2, <1>3 DEF AnswersError, Agreement, Summary
<1>4. ~AnswersSimply(Here)
  <2> SUFFICES ASSUME AnswersSimply(Here) PROVE FALSE
    OBVIOUS
  <2>1. ~error /\ result \in Truths
    BY <1>1 DEF AnswersSimply
  <2>2. result.type = "BOOL"
    BY <2>1 DEF Truths, Bool, Value
  <2> QED
    BY <1>2, <2>1, <2>2
<1>5. ~AnswersMetrics(Here)
  <2> SUFFICES ASSUME AnswersMetrics(Here) PROVE FALSE
    OBVIOUS
  <2>1. ~error /\ Len(results) = Len(rule.metrics) /\ rule \in Rules /\ rule.kind = "metric"
    BY <1>1 DEF AnswersMetrics, SameMarks
  <2>2. results = <<>>
    BY <1>2, <2>1
  <2>3. Len(results) = 0
    BY <2>2, NothingOn
  <2>4. Len(rule.metrics) \in Nat \ {0}
    BY <2>1, MetricsAre
  <2> QED
    BY <2>1, <2>3, <2>4
<1> QED
  BY <1>3, <1>4, <1>5 DEF Answers

\* of a simple rule,
LEMMA SimpleAgrees ==
  ASSUME ReportSimple, Answers(Here), UNCHANGED <<rule, limit, treeVars>>
  PROVE  Agreement'
<1> DEFINE n == IF IsTrue(result) THEN 0 ELSE 100
<1>1. /\ Here.error = error /\ Here.results = results /\ Here.result = result
      /\ Here.triggered = triggered
  BY DEF Here, Config
<1>2. /\ ~error /\ results = <<>> /\ results' = <<Scored(n, NoReason)>>
      /\ report' = Summary(IF IsTrue(result) THEN "FAILED" ELSE "PASSED", n, 100)
      /\ triggered' = triggered
      /\ UNCHANGED <<verdict, scores, total, max, fired>>
  BY DEF ReportSimple, treeVars
<1>3. ~AnswersError(Here)
  BY <1>1, <1>2 DEF AnswersError
<1>4. ~AnswersMetrics(Here)
  <2> SUFFICES ASSUME AnswersMetrics(Here) PROVE FALSE
    OBVIOUS
  <2>1. Len(results) = Len(rule.metrics) /\ rule \in Rules /\ rule.kind = "metric"
    BY <1>1 DEF AnswersMetrics, SameMarks
  <2>2. Len(results) = 0
    BY <1>2, NothingOn
  <2>3. Len(rule.metrics) \in Nat \ {0}
    BY <2>1, MetricsAre
  <2> QED
    BY <2>1, <2>2, <2>3
<1>5. AnswersSimply(Here)
  BY <1>3, <1>4 DEF Answers
<1>6. /\ triggered = fired /\ max = 100 /\ total = n /\ scores = <<Scored(n, NoReason)>>
      /\ verdict = (IF IsTrue(result) THEN "FAILED" ELSE "PASSED")
  BY <1>1, <1>5 DEF AnswersSimply
<1> HIDE DEF n
<1>7. results' = scores' /\ SameScores'
  <2>1. results' = scores'
    BY <1>2, <1>6
  <2> QED
    BY <2>1 DEF SameScores
<1>8. report'.status = verdict' /\ report'.total = total' /\ report'.max = max'
  BY <1>2, <1>6 DEF Summary
<1>9. triggered' = fired'
  BY <1>2, <1>6
<1> QED
  BY <1>7, <1>8, <1>9 DEF Agreement

\* A reason does not change a score.
LEMMA ExplainedIs ==
  ASSUME NEW x, IsScored(x)
  PROVE  Explained(x).score = x.score /\ Explained(x).passed = x.passed
<1>1. x = Scored(x.score, x.reason)
  BY DEF IsScored
<1>2. PICK n, y : x = [score |-> n, passed |-> n > 0, reason |-> y]
  BY <1>1 DEF Scored
<1> QED
  BY <1>2 DEF Explained

\* and of a metric rule.
LEMMA MetricsAgree ==
  ASSUME ReportMetrics, Answers(Here), UNCHANGED <<rule, limit, treeVars>>
  PROVE  Agreement'
<1> DEFINE N == Len(rule.metrics)
           t == Total([i \in DOMAIN results |-> results[i].score])
           m == Total([i \in DOMAIN results |-> rule.metrics[i].weight])
           veto == \E i \in DOMAIN results : rule.metrics[i].critical /\ ~results[i].passed
<1>1. /\ Here.error = error /\ Here.results = results /\ Here.result = result
      /\ Here.triggered = triggered
  BY DEF Here, Config
<1>2. /\ ~error /\ results # <<>> /\ triggered' = triggered
      /\ results' = [i \in DOMAIN results |-> Explained(results[i])]
      /\ report' = Summary(Status(t, veto, Threshold(rule.pass, 80), Threshold(rule.partial, 60)), t, m)
      /\ UNCHANGED <<verdict, scores, total, max, fired>>
  BY DEF ReportMetrics, treeVars
<1>3. ~AnswersError(Here) /\ ~AnswersSimply(Here)
  BY <1>1, <1>2 DEF AnswersError, AnswersSimply
<1>4. AnswersMetrics(Here)
  BY <1>3 DEF Answers
<1>5. /\ SameMarks(results, scores) /\ triggered = fired
      /\ rule \in Rules /\ rule.kind = "metric" /\ rule.pass > 0 /\ rule.partial > 0
      /\ Len(scores) = N /\ Ledger(N) /\ max = Weighed(rule, N)
      /\ verdict = Status(total, vetoed, rule.pass, rule.partial)
  BY <1>1, <1>4 DEF AnswersMetrics
<1>6. N \in Nat
  BY <1>5, MetricsAre
<1> HIDE DEF N, t, m, veto
<1>7. /\ Len(results) = N /\ DOMAIN results = 1 .. N /\ DOMAIN scores = 1 .. N
      /\ \A i \in 1 .. N :
           results[i].score = scores[i].score /\ results[i].passed = scores[i].passed
           /\ IsScored(results[i])
  BY <1>5, LenProperties DEF SameMarks, IsStack
<1>8. t = total
  <2>1. t = Earned(results, N)
    BY <1>7 DEF t, Earned
  <2>2. \A i \in 1 .. N : results[i].score = scores[i].score
    BY <1>7
  <2>3. Earned(results, N) = Earned(scores, N)
    BY <1>6, <2>2, EarnedAlike
  <2> QED
    BY <1>5, <2>1, <2>3 DEF Ledger
<1>9. m = max
  BY <1>5, <1>7 DEF m, Weighed
<1>10. veto <=> vetoed
  BY <1>5, <1>7 DEF veto, Ledger, Refused
<1>11. Threshold(rule.pass, 80) = rule.pass /\ Threshold(rule.partial, 60) = rule.partial
  BY <1>5 DEF Threshold
<1>12. Status(t, veto, rule.pass, rule.partial) = verdict
  BY <1>5, <1>8, <1>10 DEF Status
<1>13. report' = Summary(verdict, total, max)
  BY <1>2, <1>8, <1>9, <1>11, <1>12
<1>14. SameScores'
  <2>1. results' \in [1 .. N -> {Explained(results[i]) : i \in 1 .. N}]
    BY <1>2, <1>7
  <2>2. Len(results') = N
    <3> DEFINE V == {Explained(results[i]) : i \in 1 .. N}
               s == results'
    <3>1. s \in [1 .. N -> V]
      BY <2>1
    <3> HIDE DEF V, s
    <3>2. s \in Seq(V)
      BY <1>6, <3>1, IsASeq
    <3>3. Len(s) = N
      BY <1>6, <3>1, <3>2, LenProperties
    <3> QED
      BY <3>3 DEF s
  <2>3. \A i \in 1 .. N : results'[i] = Explained(results[i])
    BY <1>2, <1>7
  <2>4. \A i \in 1 .. N : results'[i].score = scores[i].score /\ results'[i].passed = scores[i].passed
    BY <1>7, <2>3, ExplainedIs
  <2> QED
    BY <1>2, <1>5, <1>7, <2>2, <2>4 DEF SameScores
<1> QED
  BY <1>2, <1>5, <1>13, <1>14 DEF Agreement, Summary

\* A rule that does not compile has its tree walked.
LEMMA FallBackAgrees ==
  ASSUME FallBack, UNCHANGED <<rule, limit, treeVars>>
  PROVE  Agreement'
<1>1. /\ results' = scores /\ triggered' = fired /\ report' = Summary(verdict, total, max)
      /\ UNCHANGED <<verdict, scores, total, max, fired>>
  BY DEF FallBack, treeVars
<1>2. results' = scores'
  BY <1>1
<1> QED
  BY <1>1, <1>2 DEF Agreement, SameScores, Summary

\* Compiling the rule gives the machine the answer to come to, its steps keep that answer
\* before it, and the report gives it.
LEMMA AnsweringNext ==
  Resting /\ Prepared /\ Answering /\ [Next]_vars => Answering'
<1> SUFFICES ASSUME Resting, Prepared, Answering, [Next]_vars PROVE Answering'
  OBVIOUS
<1>1. error' \in BOOLEAN
  BY ErrorsAreSetOrNot DEF Answering
<1>2. CASE Walk
  <2>1. at # "done"
    BY <1>2 DEF Walk, TreeNext, ExecuteSimple, NextMetric, CaseFails, CaseMisses, CaseMatches,
                Default, Finish, Matching
  <2>2. mode = "idle"
    BY <2>1 DEF Resting
  <2>3. UNCHANGED <<mode, ip, stack, error, result, results, triggered>>
    BY <1>2 DEF Walk, machine
  <2> QED
    BY <2>2, <2>3 DEF Answering
<1>3. CASE Execute /\ UNCHANGED <<rule, limit, treeVars>>
  <2>1. Comparable' <=> Comparable
    BY <1>3 DEF Comparable
  <2>2. CASE mode = "idle"
    <3>1. Compile \/ FallBack
      BY <1>3, <2>2 DEF Execute, OverQuota, ExecPush, ExecArray, ExecPop, ExecOperate, ExecCall,
           ExecAction, ExecJump, ExecMetricStart, ExecSetScore, ExecFailMetric, ExecRuleEnd, ExecRet,
           Executing, ReportFailure, ReportSimple, ReportMetrics
    <3>2. CASE Compile
      <4>1. mode' = "run"
        BY <3>2 DEF Compile
      <4>2. ASSUME Comparable
            PROVE  code' = CodeOf(rule) /\ \E c : c.mode = "stopped" /\ Answers(c) /\ Goes(code, Here, c)'
        BY <1>3, <2>2, <3>2, <4>2, AnsweringCompiled
      <4>3. rule' = rule
        BY <1>3
      <4>4. ASSUME Comparable
            PROVE  \E c : c.mode = "stopped" /\ Answers(c)' /\ Goes(code, Here, c)'
        <5>1. PICK c : c.mode = "stopped" /\ Answers(c) /\ Goes(code, Here, c)'
          BY <4>2, <4>4
        <5>2. Answers(c)'
          BY <1>3, <5>1, AnswersStay
        <5> QED
          BY <5>1, <5>2
      <4> QED
        BY <1>1, <2>1, <4>1, <4>2, <4>3, <4>4 DEF Answering
    <3>3. CASE FallBack
      <4>1. mode' = "reported"
        BY <3>3 DEF FallBack
      <4>2. Agreement'
        BY <1>3, <3>3, FallBackAgrees
      <4> QED
        BY <1>1, <4>1, <4>2 DEF Answering
    <3> QED
      BY <3>1, <3>2, <3>3
  <2>3. CASE mode = "run"
    <3>1. mode' # "idle"
      <4>1. ASSUME NEW s, NEW v, NEW failing, PushOn(s, v, failing) PROVE mode' # "idle"
        BY <2>3, <4>1 DEF PushOn, Abort
      <4>2. CASE ExecPush
        BY <4>1, <4>2 DEF ExecPush
      <4>3. CASE ExecArray
        BY <4>1, <4>3 DEF ExecArray
      <4>4. CASE ExecOperate
        BY <4>1, <4>4 DEF ExecOperate, Abort
      <4>5. CASE ExecCall
        <5>1. PICK s, v, failing : PushOn(s, v, failing)
          BY <4>5, Zenon DEF ExecCall
        <5> QED
          BY <4>1, <5>1
      <4>6. CASE OverQuota \/ ExecPop \/ ExecAction \/ ExecJump \/ ExecMetricStart \/ ExecSetScore
                 \/ ExecFailMetric \/ ExecRuleEnd \/ ExecRet
        BY <2>3, <4>6 DEF OverQuota, Abort, ExecPop, ExecAction, ExecJump, ExecMetricStart,
                          ExecSetScore, ExecFailMetric, ExecRuleEnd, ExecRet
      <4>7. CASE Compile \/ FallBack \/ ReportFailure \/ ReportSimple \/ ReportMetrics
        BY <2>3, <4>7 DEF Compile, FallBack, ReportFailure, ReportSimple, ReportMetrics
      <4> QED
        BY <1>3, <4>2, <4>3, <4>4, <4>5, <4>6, <4>7 DEF Execute
    <3>2. CASE ~Comparable
      BY <1>1, <2>1, <3>1, <3>2 DEF Answering
    <3>3. CASE Comparable
      <4>1. /\ mode' \in {"run", "stopped"} /\ code' = CodeOf(rule)
            /\ mode' = "run" => \E c : c.mode = "stopped" /\ Answers(c) /\ Goes(code, Here, c)'
            /\ mode' = "stopped" => \E c : Answers(c) /\ c = Here'
        BY <1>3, <2>3, <3>3, AnsweringOn
      <4>2. code' = CodeOf(rule')
        BY <1>3, <4>1
      <4>3. ASSUME mode' = "run"
            PROVE  \E c : c.mode = "stopped" /\ Answers(c)' /\ Goes(code, Here, c)'
        <5>1. PICK c : c.mode = "stopped" /\ Answers(c) /\ Goes(code, Here, c)'
          BY <4>1, <4>3
        <5>2. Answers(c)'
          BY <1>3, <5>1, AnswersStay
        <5> QED
          BY <5>1, <5>2
      <4>4. ASSUME mode' = "stopped" PROVE Answers(Here)'
        <5>1. PICK c : Answers(c) /\ c = Here'
          BY <4>1, <4>4
        <5>2. Answers(c)'
          BY <1>3, <5>1, AnswersStay
        <5> QED
          BY <5>1, <5>2
      <4> QED
        BY <1>1, <3>1, <4>1, <4>2, <4>3, <4>4 DEF Answering
    <3> QED
      BY <3>2, <3>3
  <2>4. CASE mode = "stopped"
    <3>1. ReportFailure \/ ReportSimple \/ ReportMetrics
      BY <1>3, <2>4 DEF Execute, OverQuota, ExecPush, ExecArray, ExecPop, ExecOperate, ExecCall,
           ExecAction, ExecJump, ExecMetricStart, ExecSetScore, ExecFailMetric, ExecRuleEnd, ExecRet,
           Executing, Compile, FallBack
    <3>2. mode' = "reported"
      BY <3>1 DEF ReportFailure, ReportSimple, ReportMetrics
    <3>3. ASSUME Comparable PROVE Agreement'
      <4>1. Answers(Here)
        BY <2>4, <3>3 DEF Answering
      <4> QED
        BY <1>3, <3>1, <4>1, FailureAgrees, SimpleAgrees, MetricsAgree
    <3> QED
      BY <1>1, <2>1, <3>2, <3>3 DEF Answering
  <2>5. mode # "reported"
    BY <1>3 DEF Execute, OverQuota, ExecPush, ExecArray, ExecPop, ExecOperate, ExecCall,
         ExecAction, ExecJump, ExecMetricStart, ExecSetScore, ExecFailMetric, ExecRuleEnd, ExecRet,
         Executing, Compile, FallBack, ReportFailure, ReportSimple, ReportMetrics
  <2> QED
    BY <2>2, <2>3, <2>4, <2>5 DEF Resting
<1>4. CASE UNCHANGED vars
  <2>1. UNCHANGED <<rule, limit, treeVars>> /\ UNCHANGED machine
    BY <1>4 DEF vars
  <2>2. /\ UNCHANGED <<rule, limit, verdict, scores, total, max, fired>>
        /\ UNCHANGED <<mode, code, ip, stack, error, result, results, triggered, report>>
    BY <2>1 DEF treeVars, machine
  <2>3. Comparable' <=> Comparable
    BY <2>2 DEF Comparable
  <2>4. Here' = Here /\ CodeOf(rule') = CodeOf(rule)
    BY <2>2 DEF Here
  <2>5. ASSUME Comparable, mode = "run"
        PROVE  code' = CodeOf(rule') /\ \E c : c.mode = "stopped" /\ Answers(c)' /\ Goes(code, Here, c)'
    <3>1. PICK c : c.mode = "stopped" /\ Answers(c) /\ Goes(code, Here, c)
      BY <2>5 DEF Answering
    <3>2. Answers(c)'
      BY <2>1, <3>1, AnswersStay
    <3>3. Goes(code', Here', c)
      BY <2>2, <2>4, <3>1
    <3>4. code' = CodeOf(rule')
      BY <2>2, <2>4, <2>5 DEF Answering
    <3> QED
      BY <3>1, <3>2, <3>3, <3>4
  <2>6. ASSUME Comparable, mode = "stopped" PROVE Answers(Here)'
    <3>1. PICK c : c = Here
      OBVIOUS
    <3>2. Answers(c)
      BY <2>6, <3>1 DEF Answering
    <3>3. Answers(c)'
      BY <2>1, <3>2, AnswersStay
    <3>4. c = Here'
      BY <2>4, <3>1
    <3> QED
      BY <3>3, <3>4
  <2>7. Agreement => Agreement'
    BY <2>2 DEF Agreement, SameScores
  <2>8. ip' = ip /\ stack' = stack /\ error' = error /\ result' = result /\ results' = results
        /\ triggered' = triggered /\ mode' = mode
    BY <2>2
  <2> QED
    BY <1>1, <2>3, <2>5, <2>6, <2>7, <2>8 DEF Answering
<1> QED
  BY <1>2, <1>3, <1>4 DEF Next, Ended

\* The bytecode of a rule that both executions understand reports what the tree walk
\* reports: the status, and without an error the scores, the totals and the callbacks
\* (compile_expr and bc_run_instructions against cdsl_eval_expr_internal,
\* execute_simple_rule and execute_metric_rule), for all such rules, contexts and
\* functions.
THEOREM PortableAgree == Spec => []PortableRulesAgree
<1>1. Init => Resting /\ Prepared /\ Answering
  BY RestingFirst, PreparedFirst, AnsweringFirst
<1>2. Resting /\ Prepared /\ Answering /\ [Next]_vars => (Resting /\ Prepared /\ Answering)'
  BY RestingNext, PreparedNext, AnsweringNext
<1>3. Answering => PortableRulesAgree
  BY DEF Answering, PortableRulesAgree, Comparable
<1> QED
  BY <1>1, <1>2, <1>3, PTL DEF Spec
=============================================================================
