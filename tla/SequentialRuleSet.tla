-------------------------- MODULE SequentialRuleSet --------------------------
(***************************************************************************)
(* cdsl_vm_execute_ruleset: the calling thread executes the rules of the   *)
(* set one after the other on its VM.  This is also what the parallel      *)
(* execution does when it is asked for one thread or the set has one rule: *)
(* BatchExecution puts the two together.                                   *)
(*                                                                         *)
(* The rule bodies are those of ParallelRuleSet: a condition calls at most *)
(* one registered function, a violated rule triggers one action, and both  *)
(* callbacks may register functions on the VM that executes the rule.      *)
(* Between two rules, and while a rule runs, other threads may register    *)
(* functions on the VM too, under its lock.                                *)
(***************************************************************************)
EXTENDS Integers, FiniteSets

CONSTANTS
  RuleCount,    \* set->count; the rules are numbered in the order of the list
  Functions,    \* names of registrable functions
  Actions,      \* names of registered actions
  NoName,       \* a rule that calls nothing, or triggers nothing
  Initial,      \* the functions registered when the execution starts
  Others,       \* the functions other threads may register meanwhile
  Calls,        \* Calls[r]: the function the condition of rule r calls
  Triggers,     \* Triggers[r]: the action of rule r
  Verdict,      \* Verdict[r]: the status of rule r when Calls[r] is found
  FnRegisters,  \* FnRegisters[f]: what the callback of function f registers
  ActRegisters, \* ActRegisters[a]: what the callback of action a registers
  MaxFaults,    \* bound: places in one call where memory runs out
  NoReport      \* rule_reports[i] is NULL after the execution

Rules == 1 .. RuleCount
Status == {"PASSED", "PARTIALLY_PASSED", "FAILED", "ERROR"}
NotRun == "NOT_RUN"

VARIABLES
  batch,      \* "building", "running", "reported", or "refused"
  next,       \* idx: the rule that is executed next
  pc,         \* its step: "call", "callback", "trigger" or "finish"
  status,     \* the status its execution has reached
  functions,  \* vm->functions
  lost,       \* history: lost[r]: what the action of rule r failed to register
  reports,    \* batch->rule_reports
  tally,      \* the counters of the report
  faults

vars == <<batch, next, pc, status, functions, lost, reports, tally, faults>>

Init ==
  /\ batch = "building"
  /\ next = 1
  /\ pc = "call"
  /\ status = "PASSED"
  /\ functions = Initial
  /\ lost = [r \in Rules |-> {}]
  /\ reports = [r \in Rules |-> NotRun]
  /\ tally = [s \in Status |-> 0]
  /\ faults = 0

Fault == faults < MaxFaults /\ faults' = faults + 1

\* cdsl_vm_register_function says nothing when it finds no memory for the entry:
\* of what a callback registers, only got is there.
Obtain(got, new) == IF got = new THEN faults' = faults ELSE Fault

\* The report and its array are allocated, or NULL is returned.
Build ==
  /\ batch = "building"
  /\ \/ batch' = "running" /\ faults' = faults
     \/ batch' = "refused" /\ Fault
  /\ UNCHANGED <<next, pc, status, functions, lost, reports, tally>>

Executing == batch = "running" /\ next \in Rules

\* Mutant: the functions are looked up as they were when the batch started.
EvaluateConditionFromStart ==
  /\ Executing /\ pc = "call"
  /\ pc' = IF Calls[next] \in Initial THEN "callback" ELSE "trigger"
  /\ status' = IF Calls[next] \in Initial \cup {NoName}
                 THEN Verdict[next] ELSE "PASSED"
  /\ UNCHANGED <<batch, next, functions, lost, reports, tally, faults>>

\* A call of a function that is not registered yields VOID: the rule passes.
\* When the report cannot be allocated nothing is evaluated.
EvaluateCondition ==
  /\ Executing /\ pc = "call"
  /\ \/ /\ pc' = IF Calls[next] \in functions THEN "callback" ELSE "trigger"
        /\ status' = IF Calls[next] \in functions \cup {NoName}
                       THEN Verdict[next] ELSE "PASSED"
        /\ faults' = faults
     \/ /\ Fault
        /\ status' = "ERROR"
        /\ pc' = "finish"
  /\ UNCHANGED <<batch, next, functions, lost, reports, tally>>

FunctionCallback ==
  /\ Executing /\ pc = "callback"
  /\ LET new == FnRegisters[Calls[next]] IN
     \E got \in SUBSET new : functions' = functions \cup got /\ Obtain(got, new)
  /\ pc' = "trigger"
  /\ UNCHANGED <<batch, next, status, lost, reports, tally>>

\* What the action of the rule registers, if it is violated and has one.
Registering ==
  IF status = "FAILED" /\ Triggers[next] \in Actions THEN ActRegisters[Triggers[next]] ELSE {}

\* The action of a violated rule is called.
TriggerAction ==
  /\ Executing /\ pc = "trigger"
  /\ \E got \in SUBSET Registering :
       /\ functions' = functions \cup got
       /\ lost' = [lost EXCEPT ![next] = Registering \ got]
       /\ Obtain(got, Registering)
  /\ pc' = "finish"
  /\ UNCHANGED <<batch, next, status, reports, tally>>

\* Mutant: the slot of the report is the number of reports made so far, and a
\* missing report takes none.
FinishRulePacked ==
  LET slot == Cardinality({r \in Rules : reports[r] \in Status}) + 1 IN
  /\ Executing /\ pc = "finish"
  /\ \/ /\ reports' = [reports EXCEPT ![slot] = status]
        /\ tally' = [tally EXCEPT ![status] = @ + 1]
        /\ faults' = faults
     \/ /\ Fault
        /\ UNCHANGED <<reports, tally>>
  /\ next' = next + 1
  /\ pc' = "call"
  /\ UNCHANGED <<batch, status, functions, lost>>

\* The report goes to its slot and is tallied.  A report that cannot be completed is replaced by one that says
\* ERROR, and the slot stays NULL when there is no memory for that one either.
FinishRule ==
  /\ Executing /\ pc = "finish"
  /\ \E out \in {status, "ERROR", NoReport} :
       /\ reports' = [reports EXCEPT ![next] = out]
       /\ tally' = [s \in Status |-> IF s = out THEN tally[s] + 1 ELSE tally[s]]
       /\ IF out = status THEN faults' = faults ELSE Fault
  /\ next' = next + 1
  /\ pc' = "call"
  /\ UNCHANGED <<batch, status, functions, lost>>

Report ==
  /\ batch = "running" /\ next = RuleCount + 1
  /\ batch' = "reported"
  /\ UNCHANGED <<next, pc, status, functions, lost, reports, tally, faults>>

\* cdsl_vm_register_function, called by another thread.  A call that finds no
\* memory changes nothing.
RegisterByOther ==
  /\ \E f \in Others \ functions : functions' = functions \cup {f}
  /\ UNCHANGED <<batch, next, pc, status, lost, reports, tally, faults>>

Returned == batch \in {"reported", "refused"} /\ UNCHANGED vars

\* The steps of the caller.
CallerStep ==
  Build \/ EvaluateCondition \/ FunctionCallback \/ TriggerAction \/ FinishRule \/ Report

Next == CallerStep \/ RegisterByOther \/ Returned

Spec == Init /\ [][Next]_vars

-----------------------------------------------------------------------------
(***************************************************************************)
(* Properties.                                                             *)
(***************************************************************************)

\* What an earlier rule registered is there for every later one: once a rule
\* has called an action that registers f, no later rule that calls f is passed
\* for want of it, unless the registration itself ran out of memory.
EarlierRegistrationsAreSeen ==
  \A r, s \in Rules :
    /\ r < s
    /\ reports[r] = "FAILED" /\ reports[s] \in Status
    /\ Triggers[r] \in Actions
    /\ Calls[s] \in ActRegisters[Triggers[r]] \ lost[r]
    => reports[s] \in {Verdict[s], "ERROR"}

(***************************************************************************)
(* The execution implements RuleBatch.  The running totals are no part of  *)
(* a report until it is handed back.                                       *)
(***************************************************************************)
Executed == {r \in Rules : reports[r] # NotRun}

Abstract == INSTANCE RuleBatch WITH
  Verdicts <- [r \in Rules |-> {Verdict[r], "PASSED", "ERROR"}],
  phase <- IF batch = "building" THEN "running" ELSE batch,
  verdict <- [r \in Executed |-> reports[r]],
  tally <- IF batch = "reported" THEN tally ELSE [s \in Status |-> 0]

\* One rule after the other, whatever other threads register meanwhile: each
\* rule runs once, and the totals counted on the way are those of the reports.
ImplementsRuleBatch == Abstract!Spec
=============================================================================
