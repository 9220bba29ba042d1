---------------------------- MODULE BatchExecution ----------------------------
(***************************************************************************)
(* A call of cdsl_vm_execute_ruleset_parallel from its first line on: with *)
(* one thread, or with a set of at most one rule, the rules are executed   *)
(* one after the other by the caller (SequentialRuleSet), otherwise by the *)
(* caller and the workers (ParallelRuleSet).  The same rules and callbacks *)
(* are given to both, and both have to be the RuleBatch they promise.      *)
(***************************************************************************)
EXTENDS ParallelRuleSet

CONSTANT Others        \* the functions other threads may register meanwhile

VARIABLES
  threadCount,       \* the argument thread_count
  phase, next, step, outcome, registered, lost, made, totals, failed

sequentialVars == <<phase, next, step, outcome, registered, lost, made, totals, failed>>
allVars == <<threadCount, sequentialVars, vars>>

Sequential == INSTANCE SequentialRuleSet WITH
  batch <- phase, pc <- step, status <- outcome, functions <- registered,
  reports <- made, tally <- totals, faults <- failed

BatchInit ==
  /\ threadCount \in {0, 1, Cardinality(Threads)}
  /\ Init
  /\ Sequential!Init

OnCaller == threadCount <= 1 \/ RuleCount <= 1

ExecuteSequentially == OnCaller /\ Sequential!Next /\ UNCHANGED <<threadCount, vars>>
ExecuteInParallel == ~OnCaller /\ Next /\ UNCHANGED <<threadCount, sequentialVars>>

\* The calling thread and the workers are scheduled.
CallerRuns ==
  \/ OnCaller /\ Sequential!CallerStep /\ UNCHANGED <<threadCount, vars>>
  \/ ~OnCaller /\ MainStep /\ UNCHANGED <<threadCount, sequentialVars>>
WorkerRuns(w) == ~OnCaller /\ WorkerStep(w) /\ UNCHANGED <<threadCount, sequentialVars>>

BatchNext == ExecuteSequentially \/ ExecuteInParallel

BatchSpec ==
  /\ BatchInit /\ [][BatchNext]_allVars
  /\ WF_allVars(CallerRuns)
  /\ \A w \in Workers : WF_allVars(WorkerRuns(w))

-----------------------------------------------------------------------------
(***************************************************************************)
(* Properties.                                                             *)
(***************************************************************************)
\* What an earlier rule of a sequential execution registered is there for every
\* later one (cdsl_vm_execute_ruleset hands each rule the VM as the one before
\* left it), unless the registration itself ran out of memory.
EarlierRegistrationsAreSeen == Sequential!EarlierRegistrationsAreSeen

\* One rule after the other, whatever other threads register meanwhile: each
\* rule runs once, and the totals counted on the way are those of the reports.
SequentialImplementsRuleBatch == Sequential!ImplementsRuleBatch

\* The call returns, whatever fails on the way and whatever the callbacks
\* register, provided that each of its threads is scheduled: no thread waits for
\* ever for the lock or for another thread.
CallReturns ==
  <>(IF OnCaller THEN phase \in {"reported", "refused"} ELSE pc[Main] = "returned")
=============================================================================
