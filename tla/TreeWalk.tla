------------------------------- MODULE TreeWalk -------------------------------
(***************************************************************************)
(* cdsl_vm_execute: a rule is executed by walking its tree                 *)
(* (execute_simple_rule and execute_metric_rule in src/src/vm/eval.c).     *)
(*                                                                         *)
(* One action evaluates one condition, with what follows from it: the      *)
(* callback that is triggered and the score that is given.  The only       *)
(* state an evaluation shares with the next one is the instruction count   *)
(* and error_state.                                                        *)
(***************************************************************************)
EXTENDS Expressions

CONSTANTS
  Rules,       \* the rules that may be executed
  Limits,      \* the instruction limits that may be set; 0 is no limit
  Registered,  \* the actions with a callback
  NoReason     \* violation_reason = NULL

DefaultReason == "default_condition_triggered"

(***************************************************************************)
(* Rules.  A simple rule has a condition and an action, a metric rule      *)
(* metrics with cases and a default.  Thresholds and weights are numbers:  *)
(* what cdsl_meta_get_int returns for them.                                *)
(***************************************************************************)
Action(name, args) == [name |-> name, args |-> args]
Case(e, a) == [condition |-> e, action |-> a]
Metric(w, critical, cases, a) ==
  [weight |-> w, critical |-> critical, cases |-> cases, default |-> a]
SimpleRule(e, a) == [kind |-> "simple", when |-> e, then |-> a]
MetricRule(ms, pass, partial) ==
  [kind |-> "metric", metrics |-> ms, pass |-> pass, partial |-> partial]

ActionsOf(r) ==
  IF r.kind = "simple" THEN {r.then}
  ELSE UNION {{m.default} \cup {c.action : c \in ToSet(m.cases)} : m \in ToSet(r.metrics)}

ConditionsOf(r) ==
  IF r.kind = "simple" THEN {r.when}
  ELSE UNION {{c.condition : c \in ToSet(m.cases)} : m \in ToSet(r.metrics)}

IsAction(a) == a = Action(a.name, a.args) /\ a.args \in Seq(Exprs)

IsCase(c) == c = Case(c.condition, c.action) /\ c.condition \in Exprs /\ IsAction(c.action)

IsMetric(m) ==
  /\ m = Metric(m.weight, m.critical, m.cases, m.default)
  /\ m.weight \in Int /\ m.critical \in BOOLEAN /\ IsAction(m.default)
  /\ m.cases \in Seq(Range(m.cases)) /\ \A c \in Range(m.cases) : IsCase(c)

\* A rule is the one or the other, made of actions, cases and metrics: it is a
\* metric rule if it has metrics.
ASSUME RulesAssumption ==
  \A r \in Rules :
    \/ r.kind = "simple" /\ r = SimpleRule(r.when, r.then)
         /\ r.when \in Exprs /\ IsAction(r.then)
    \/ r.kind = "metric" /\ r = MetricRule(r.metrics, r.pass, r.partial)
         /\ {r.pass, r.partial} \subseteq Int /\ r.metrics # <<>>
         /\ r.metrics \in Seq(Range(r.metrics)) /\ \A m \in Range(r.metrics) : IsMetric(m)

ASSUME LimitsAssumption == Limits \subseteq Nat

VARIABLES
  rule,      \* the rule that is executed
  limit,     \* vm->instruction_limit
  at,        \* "begin", "metric", "case", "finish" or "done"
  metric,    \* the metric that is evaluated
  case,      \* the case that is evaluated
  count,     \* vm->instruction_count
  lastError, \* vm->last_error: "NONE" while vm->error_state is clear
  scores,    \* report->metrics: the results so far
  max,       \* total_max
  total,     \* total_obtained
  vetoed,    \* any_critical_failed
  fired,     \* the actions whose callbacks were called, in order
  verdict    \* report->status, "NONE" until the report is handed back

treeVars == <<at, metric, case, count, lastError, scores, max, total, vetoed, fired,
              verdict>>

Scored(n, reason) == [score |-> n, passed |-> n > 0, reason |-> reason]

TreeInit ==
  /\ rule \in Rules
  /\ limit \in Limits
  /\ at = "begin"
  /\ metric = 0
  /\ case = 0
  /\ count = 0
  /\ lastError = "NONE"
  /\ scores = <<>>
  /\ max = 0
  /\ total = 0
  /\ vetoed = FALSE
  /\ fired = <<>>
  /\ verdict = "NONE"

\* What the instruction limit leaves of an evaluation.
Limited(w, n) ==
  LET exceeded == limit > 0 /\ n + w.nodes > limit IN
  Walked(IF exceeded THEN Void ELSE w.value, n + w.nodes,
         IF exceeded THEN "QUOTA" ELSE w.error)

\* An evaluation that starts with n instructions counted.
WalkFrom(e, n) == Limited(Evaluate(e, 0), n)

Triggered(log, a) == IF a.name \in Registered THEN Append(log, a.name) ELSE log

\* A condition holds when it is BOOL and true.
Fires(v) == v.type = "BOOL" /\ IsTrue(v)

(***************************************************************************)
(* A simple rule: what its condition says is the verdict.                  *)
(***************************************************************************)
ExecuteSimple ==
  /\ at = "begin" /\ rule.kind = "simple"
  /\ LET w == WalkFrom(rule.when, 0)
         fires == ~Failed(w) /\ Fires(w.value)
     IN /\ lastError' = w.error
        /\ count' = w.nodes
        /\ fired' = IF fires THEN Triggered(fired, rule.then) ELSE fired
        /\ scores' = <<Scored(IF fires \/ Failed(w) THEN 0 ELSE 100, NoReason)>>
        /\ max' = IF Failed(w) THEN 0 ELSE 100
        /\ total' = IF fires \/ Failed(w) THEN 0 ELSE 100
        /\ verdict' = IF Failed(w) THEN "ERROR"
                      ELSE IF fires THEN "FAILED" ELSE "PASSED"
  /\ at' = "done"
  /\ UNCHANGED <<rule, limit, metric, case, vetoed>>

(***************************************************************************)
(* A metric rule.                                                          *)
(***************************************************************************)
Current == rule.metrics[metric]

\* The loop over the metrics, which a set error_state ends.
NextMetric ==
  /\ at \in {"begin", "metric"} /\ rule.kind = "metric"
  /\ IF metric < Len(rule.metrics) /\ lastError = "NONE"
       THEN /\ metric' = metric + 1
            /\ max' = max + rule.metrics[metric + 1].weight
            /\ case' = 1
            /\ scores' = Append(scores, Scored(0, NoReason))
            /\ at' = "case"
       ELSE /\ at' = "finish"
            /\ UNCHANGED <<metric, max, case, scores>>
  /\ UNCHANGED <<rule, limit, count, lastError, total, vetoed, fired, verdict>>

Condition == WalkFrom(Current.cases[case].condition, count)

Matching == at = "case" /\ case <= Len(Current.cases)

CaseFails ==
  /\ Matching
  /\ Failed(Condition)
  /\ count' = Condition.nodes
  /\ lastError' = Condition.error
  /\ at' = "finish"
  /\ UNCHANGED <<rule, limit, metric, case, scores, max, total, vetoed, fired,
                 verdict>>

CaseMisses ==
  /\ Matching
  /\ ~Failed(Condition) /\ ~Fires(Condition.value)
  /\ count' = Condition.nodes
  /\ case' = case + 1
  /\ UNCHANGED <<rule, limit, at, metric, lastError, scores, max, total, vetoed, fired,
                 verdict>>

\* What an action gives: a score, perhaps a reason, and whether an evaluation
\* it needed failed.  Other actions give the weight, or nothing as a default.
Given(n, reason, w) == [score |-> n, reason |-> reason, walked |-> w]

Giving(a, otherwise, n) ==
  CASE a.name = "score" /\ a.args # <<>> ->
         LET w == WalkFrom(a.args[1], n) IN
         Given(IF w.value.type = "INT" THEN w.value.data ELSE 0, NoReason, w)
    [] a.name = "fail_metric" /\ Len(a.args) > 1 ->
         LET w == WalkFrom(a.args[2], n) IN
         Given(0, IF ~Failed(w) /\ w.value.type = "STRING"
                    THEN w.value.data ELSE NoReason, w)
    [] a.name = "fail_metric" /\ Len(a.args) <= 1 ->
         Given(0, NoReason, Walked(Void, n, "NONE"))
    [] OTHER ->
         Given(otherwise, NoReason, Walked(Void, n, "NONE"))

\* The result of a metric, added to the totals.
Tally(result) ==
  /\ scores' = [scores EXCEPT ![metric] = result]
  /\ total' = total + result.score
  /\ vetoed' = (vetoed \/ (Current.critical /\ ~result.passed))

CaseMatches ==
  /\ Matching
  /\ ~Failed(Condition) /\ Fires(Condition.value)
  /\ LET a == Current.cases[case].action
         given == Giving(a, Current.weight, Condition.nodes)
     IN /\ fired' = Triggered(fired, a)
        /\ count' = given.walked.nodes
        /\ lastError' = given.walked.error
        /\ IF Failed(given.walked)
             THEN /\ at' = "finish"
                  /\ scores' = [scores EXCEPT ![metric].score = given.score]
                  /\ UNCHANGED <<total, vetoed>>
             ELSE /\ at' = "metric"
                  /\ Tally(Scored(given.score, given.reason))
  /\ UNCHANGED <<rule, limit, metric, case, max, verdict>>

Default ==
  /\ at = "case" /\ case > Len(Current.cases)
  /\ LET given == Giving(Current.default, 0, count)
         reason == IF given.reason = NoReason /\ given.score <= 0
                     THEN DefaultReason ELSE given.reason
     IN /\ count' = given.walked.nodes
        /\ lastError' = given.walked.error
        /\ Tally(Scored(given.score, reason))
  /\ fired' = Triggered(fired, Current.default)
  /\ at' = "metric"
  /\ UNCHANGED <<rule, limit, metric, case, max, verdict>>

Status(t, veto, pass, partial) ==
  IF veto THEN "FAILED"
  ELSE IF t >= pass THEN "PASSED"
  ELSE IF t >= partial THEN "PARTIALLY_PASSED" ELSE "FAILED"

Finish ==
  /\ at = "finish"
  /\ verdict' = IF lastError # "NONE" THEN "ERROR"
                ELSE Status(total, vetoed, rule.pass, rule.partial)
  /\ at' = "done"
  /\ UNCHANGED <<rule, limit, metric, case, count, lastError, scores, max, total,
                 vetoed, fired>>

TreeNext ==
  \/ ExecuteSimple \/ NextMetric
  \/ CaseFails \/ CaseMisses \/ CaseMatches \/ Default \/ Finish
=============================================================================
