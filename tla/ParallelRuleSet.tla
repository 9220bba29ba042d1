--------------------------- MODULE ParallelRuleSet ---------------------------
(***************************************************************************)
(* cdsl_vm_execute_ruleset_parallel: the calling thread copies the parent  *)
(* VM's registrations, starts worker threads with a private VM each, and   *)
(* all of them, the caller included, claim rules from one atomic counter.  *)
(* The caller joins the workers, adds their statistics to the parent VM    *)
(* and tallies the reports.                                                *)
(*                                                                         *)
(* The rule bodies are the WHEN ... THEN form: the condition calls at most *)
(* one registered function and a violated rule triggers one action.  A     *)
(* function callback is handed the VM that executes the rule; an action    *)
(* callback is handed user_data, through which it may know the parent VM.  *)
(* Either may register further functions.                                  *)
(*                                                                         *)
(* The rwlock of the parent VM is modelled as a lock with one holder: the  *)
(* caller is the only thread that takes it for reading.  A worker's own    *)
(* lock is never contended and has no steps.                               *)
(***************************************************************************)
EXTENDS Integers, FiniteSets

CONSTANTS
  RuleCount,    \* set->count
  Workers,      \* one worker slot per started thread (nthreads)
  Main,         \* the calling thread, which executes on the parent VM
  Functions,    \* names of registrable functions
  Actions,      \* names of registrable actions
  NoName,       \* a rule that calls nothing, or triggers nothing
  Initial,      \* the functions registered when the batch starts
  InitialActions,
  Calls,        \* Calls[r]: the function the condition of rule r calls
  Triggers,     \* Triggers[r]: the action of rule r
  Verdict,      \* Verdict[r]: the status of rule r when Calls[r] is found
  FnRegisters,  \* FnRegisters[f]: what the callback of function f registers
  ActRegisters, \* ActRegisters[a]: what the callback of action a registers
  MaxFaults,    \* bound: places in one call where memory or threads run out
  Free,         \* the lock has no holder
  NoReport      \* rule_reports[i] is NULL after the execution

Rules == 1 .. RuleCount
Threads == Workers \cup {Main}
Open == "open"       \* the section of a lock that is free
NotRun == "NOT_RUN"  \* the slot of a rule that has not been executed: NULL
Status == {"PASSED", "PARTIALLY_PASSED", "FAILED", "ERROR"}

ASSUME SizeAssumption ==
  /\ RuleCount \in Nat
  /\ MaxFaults \in Nat
  /\ IsFiniteSet(Workers)
ASSUME NameAssumption ==
  /\ Main \notin Workers
  /\ Free \notin Threads
  /\ NoReport \notin Status \cup {NotRun}
  /\ NoName \notin Functions \cup Actions
ASSUME RuleAssumption ==
  /\ Initial \subseteq Functions
  /\ InitialActions \subseteq Actions
  /\ Calls \in [Rules -> Functions \cup {NoName}]
  /\ Triggers \in [Rules -> Actions \cup {NoName}]
  /\ Verdict \in [Rules -> Status]
  /\ FnRegisters \in [Functions -> SUBSET Functions]
  /\ ActRegisters \in [Actions -> SUBSET Functions]

VARIABLES
  pc,         \* what each thread does next
  lock,       \* holder of the parent VM's rwlock
  section,    \* the step it has taken the lock for
  functions,  \* vm->functions of the parent, as the set of names
  callbacks,  \* vm->callbacks of the parent
  snapshot,   \* the copies handed to the workers, and whether they are allocated
  local,      \* names a function callback registered on a worker's own VM
  unstarted,  \* workers the creation loop has not come to
  created,    \* created[t]: workers whose thread was started
  added,      \* workers whose statistics the caller has added up
  nextIdx,    \* the shared atomic counter next_idx (rules are numbered from 1)
  mine,       \* the rule a thread has claimed
  status,     \* the status the thread's execution has reached
  reports,    \* batch->rule_reports
  runs,       \* history: how often each rule was executed
  acted,      \* history: the rules whose action callback was called
  vmStats,    \* wvm->stats of each worker
  argStats,   \* args[t].worker_stats
  stats,      \* vm->stats of the parent
  tally,      \* the counters of the batch report
  batch,      \* "building", "reported", or "refused" when NULL is returned
  faults      \* allocations and thread creations that have failed

lockVars == <<lock, section>>
batchVars == <<reports, runs, acted, tally, batch>>
statVars == <<vmStats, argStats, stats>>
vmVars == <<functions, callbacks, snapshot, local>>
poolVars == <<unstarted, created, added>>
runVars == <<nextIdx, mine, status>>
vars == <<pc, lockVars, vmVars, poolVars, runVars, batchVars, statVars, faults>>

NoStats == [executions |-> 0, actions |-> 0]
OneExecution == [executions |-> 1, actions |-> 0]
OneAction == [executions |-> 0, actions |-> 1]
PlusStats(s, t) == [executions |-> s.executions + t.executions,
                    actions |-> s.actions + t.actions]


Init ==
  /\ pc = [t \in Threads |-> IF t = Main THEN "snapshot" ELSE "unstarted"]
  /\ lock = Free
  /\ section = Open
  /\ functions = Initial
  /\ callbacks = InitialActions
  /\ snapshot = [live |-> FALSE, functions |-> {}, callbacks |-> {}]
  /\ local = [w \in Workers |-> {}]
  /\ unstarted = Workers
  /\ created = {}
  /\ added = {}
  /\ nextIdx = 1
  /\ mine = [t \in Threads |-> 0]
  /\ status = [t \in Threads |-> "PASSED"]
  /\ reports = [r \in Rules |-> NotRun]
  /\ runs = [r \in Rules |-> 0]
  /\ acted = {}
  /\ vmStats = [w \in Workers |-> NoStats]
  /\ argStats = [w \in Workers |-> NoStats]
  /\ stats = NoStats
  /\ tally = [s \in Status |-> 0]
  /\ batch = "building"
  /\ faults = 0

-----------------------------------------------------------------------------
(***************************************************************************)
(* The parent VM's lock.  A thread whose next step is a critical section   *)
(* first acquires the lock; the section itself gives it back.  The lock is *)
(* not recursive: a thread that still held it from one section could not   *)
(* enter the next one.                                                     *)
(***************************************************************************)
NeedsLock(t) ==
  \/ pc[t] = "actRegister"
  \/ t = Main /\ pc[t] \in 
       {"snapshot", "call", "fnRegister", "trigger", "record", "aggregate"}

Acquire(t) ==
  /\ NeedsLock(t)
  /\ lock = Free
  /\ lock' = t /\ section' = pc[t]
  /\ UNCHANGED <<pc, vmVars, poolVars, runVars, batchVars, statVars, faults>>

Locked(t) == NeedsLock(t) => lock = t /\ section = pc[t]
Unlock(t) == IF NeedsLock(t) THEN lock' = Free /\ section' = Open ELSE UNCHANGED lockVars
Goto(t, label) == pc' = [pc EXCEPT ![t] = label]

Fault == faults < MaxFaults /\ faults' = faults + 1

\* cdsl_vm_register_function says nothing when it finds no memory for the entry:
\* of what a callback registers, only got is there.
Obtain(got, new) == IF got = new THEN faults' = faults ELSE Fault

-----------------------------------------------------------------------------
(***************************************************************************)
(* The calling thread sets the batch up.                                   *)
(***************************************************************************)

\* The copy of each list ends early when an allocation fails: the batch goes
\* on with the entries copied so far.
TakeSnapshot ==
  /\ pc[Main] = "snapshot" /\ Locked(Main)
  /\ \E fns \in SUBSET functions, cbs \in SUBSET callbacks :
       /\ IF fns = functions /\ cbs = callbacks THEN faults' = faults ELSE Fault
       /\ snapshot' = [live |-> TRUE, functions |-> fns, callbacks |-> cbs]
  /\ Goto(Main, "arrays")
  /\ Unlock(Main)
  /\ UNCHANGED <<functions, callbacks, local, poolVars, runVars, batchVars, statVars>>

BuildArrays ==
  /\ pc[Main] = "arrays"
  /\ Goto(Main, "spawn")
  /\ UNCHANGED <<lockVars, vmVars, poolVars, runVars, batchVars, statVars, faults>>

\* The report (before the copy), or entry_arr, args, threads or created (after
\* it) cannot be allocated: NULL is returned.
RefuseBatch ==
  /\ \/ pc[Main] = "arrays"
     \/ pc[Main] = "snapshot" /\ lock = Free
  /\ Fault
  /\ snapshot' = [snapshot EXCEPT !.live = FALSE]
  /\ batch' = "refused"
  /\ Goto(Main, "returned")
  /\ UNCHANGED <<lockVars, functions, callbacks, local, poolVars, runVars,
                 reports, runs, acted, tally, statVars>>

StartWorker(w) ==
  /\ pc[Main] = "spawn"
  /\ w \in unstarted
  /\ unstarted' = unstarted \ {w}
  /\ created' = created \cup {w}
  /\ Goto(w, "init")
  /\ UNCHANGED <<lockVars, vmVars, added, runVars, batchVars, statVars, faults>>

\* CDSL_THREAD_CREATE fails: the slot stays without a thread.
StartFails(w) ==
  /\ pc[Main] = "spawn"
  /\ w \in unstarted
  /\ Fault
  /\ unstarted' = unstarted \ {w}
  /\ UNCHANGED <<pc, lockVars, vmVars, created, added, runVars, batchVars,
                 statVars>>

\* Mutant: the caller only waits, and leaves the rules to the workers.
AllSpawnedCallerIdle ==
  /\ pc[Main] = "spawn"
  /\ unstarted = {}
  /\ Goto(Main, "join")
  /\ UNCHANGED <<lockVars, vmVars, poolVars, runVars, batchVars, statVars, faults>>

AllSpawned ==
  /\ pc[Main] = "spawn"
  /\ unstarted = {}
  /\ Goto(Main, "claim")
  /\ UNCHANGED <<lockVars, vmVars, poolVars, runVars, batchVars, statVars, faults>>

-----------------------------------------------------------------------------
(***************************************************************************)
(* The life of a worker outside of the rules it executes.                  *)
(***************************************************************************)

InitWorker(w) ==
  /\ pc[w] = "init"
  /\ Goto(w, "claim")
  /\ UNCHANGED <<lockVars, vmVars, poolVars, runVars, batchVars, statVars, faults>>

\* calloc or cdsl_vm_init_worker fails: the thread ends without a claim.
InitFails(w) ==
  /\ pc[w] = "init"
  /\ Fault
  /\ Goto(w, "done")
  /\ UNCHANGED <<lockVars, vmVars, poolVars, runVars, batchVars, statVars>>

\* Mutant: the worker's statistics are not handed back.
ReleaseWorkerForgetsStats(w) ==
  /\ pc[w] = "release"
  /\ local' = [local EXCEPT ![w] = {}]
  /\ Goto(w, "done")
  /\ UNCHANGED <<lockVars, functions, callbacks, snapshot, poolVars, runVars,
                 batchVars, statVars, faults>>

\* The statistics go to args[t]; the worker VM, and what was registered on it,
\* is released.
ReleaseWorker(w) ==
  /\ pc[w] = "release"
  /\ argStats' = [argStats EXCEPT ![w] = vmStats[w]]
  /\ local' = [local EXCEPT ![w] = {}]
  /\ Goto(w, "done")
  /\ UNCHANGED <<lockVars, functions, callbacks, snapshot, poolVars, runVars,
                 batchVars, vmStats, stats, faults>>

-----------------------------------------------------------------------------
(***************************************************************************)
(* The execution of rules, by workers and by the caller.                   *)
(***************************************************************************)

\* Mutant: the caller reads the counter and does not advance it.
ClaimWithoutAdd(t) ==
  /\ pc[t] = "claim"
  /\ nextIdx' = IF t = Main THEN nextIdx ELSE nextIdx + 1
  /\ IF nextIdx \in Rules
       THEN /\ mine' = [mine EXCEPT ![t] = nextIdx]
            /\ Goto(t, "call")
       ELSE /\ Goto(t, IF t = Main THEN "join" ELSE "release")
            /\ UNCHANGED mine
  /\ UNCHANGED <<lockVars, vmVars, poolVars, status, batchVars, statVars, faults>>

\* Mutant: a worker that finds no rule left keeps looking.
ClaimSpins(t) ==
  /\ pc[t] = "claim"
  /\ IF nextIdx \in Rules
       THEN /\ nextIdx' = nextIdx + 1
            /\ mine' = [mine EXCEPT ![t] = nextIdx]
            /\ Goto(t, "call")
       ELSE /\ Goto(t, IF t = Main THEN "join" ELSE "claim")
            /\ UNCHANGED <<nextIdx, mine>>
  /\ UNCHANGED <<lockVars, vmVars, poolVars, status, batchVars, statVars, faults>>

\* FETCH_ADD on next_idx; an index past the end sends the thread out of its loop.
ClaimRule(t) ==
  /\ pc[t] = "claim"
  /\ nextIdx' = nextIdx + 1
  /\ IF nextIdx \in Rules
       THEN /\ mine' = [mine EXCEPT ![t] = nextIdx]
            /\ Goto(t, "call")
       ELSE /\ Goto(t, IF t = Main THEN "join" ELSE "release")
            /\ UNCHANGED mine
  /\ UNCHANGED <<lockVars, vmVars, poolVars, status, batchVars, statVars, faults>>

\* Mutant: what a callback registers on a worker's VM hides the shared copy.
VisibleFunctionsHidden(t) ==
  IF t = Main THEN functions
  ELSE IF local[t] # {} THEN local[t] ELSE snapshot.functions

VisibleFunctions(t) ==
  IF t = Main THEN functions ELSE local[t] \cup snapshot.functions
VisibleActions(t) == IF t = Main THEN callbacks ELSE snapshot.callbacks

\* The condition is evaluated up to its function call.  A call of a function
\* that is not registered yields VOID, which no condition counts as a match:
\* the rule passes.  When the report cannot be allocated nothing is evaluated.
EvaluateCondition(t) ==
  LET f == Calls[mine[t]]
      v == IF f \in VisibleFunctions(t) \cup {NoName} THEN Verdict[mine[t]]
                                                     ELSE "PASSED"
  IN
  /\ pc[t] = "call" /\ Locked(t)
  /\ \/ /\ status' = [status EXCEPT ![t] = v]
        /\ Goto(t, IF f \in VisibleFunctions(t) THEN "callback" ELSE "decided")
        /\ faults' = faults
     \/ /\ Fault
        /\ status' = [status EXCEPT ![t] = "ERROR"]
        /\ Goto(t, "decided")
  /\ Unlock(t)
  /\ UNCHANGED <<vmVars, poolVars, nextIdx, mine, batchVars, statVars>>

\* The function's callback runs outside of the lock, on the executing VM: what
\* it registers goes to the parent VM only when the caller executes the rule.
FunctionCallback(t) ==
  LET new == FnRegisters[Calls[mine[t]]] IN
  /\ pc[t] = "callback"
  /\ IF t # Main
       THEN /\ \E got \in SUBSET new :
                 local' = [local EXCEPT ![t] = @ \cup got] /\ Obtain(got, new)
            /\ Goto(t, "decided")
       ELSE /\ Goto(t, IF new = {} THEN "decided" ELSE "fnRegister")
            /\ UNCHANGED <<local, faults>>
  /\ UNCHANGED <<lockVars, functions, callbacks, snapshot, poolVars, runVars,
                 batchVars, statVars>>

Decide(t) ==
  /\ pc[t] = "decided"
  /\ Goto(t, IF status[t] = "FAILED" THEN "trigger" ELSE "record")
  /\ UNCHANGED <<lockVars, vmVars, poolVars, runVars, batchVars, statVars, faults>>

CountAction(t) ==
  IF t = Main
    THEN /\ stats' = PlusStats(stats, OneAction)
         /\ UNCHANGED vmStats
    ELSE /\ vmStats' = [vmStats EXCEPT ![t] = PlusStats(@, OneAction)]
         /\ UNCHANGED stats

\* The action is looked up and its callback, if there is one, is called.
TriggerAction(t) ==
  LET a == Triggers[mine[t]]
      found == a \in VisibleActions(t)
  IN
  /\ pc[t] = "trigger" /\ Locked(t)
  /\ IF found THEN CountAction(t) /\ acted' = acted \cup {mine[t]}
              ELSE UNCHANGED <<vmStats, stats, acted>>
  /\ Goto(t, IF found /\ ActRegisters[a] # {} THEN "actRegister" ELSE "record")
  /\ Unlock(t)
  /\ UNCHANGED <<vmVars, poolVars, runVars, reports, runs, tally, batch,
                 argStats, faults>>

\* cdsl_vm_register_function on the parent VM: called by the function callback
\* of a rule the caller executes, before the verdict ...
RegisterFromFunction ==
  /\ pc[Main] = "fnRegister" /\ Locked(Main)
  /\ LET new == FnRegisters[Calls[mine[Main]]] IN
     \E got \in SUBSET new : functions' = functions \cup got /\ Obtain(got, new)
  /\ Goto(Main, "decided")
  /\ Unlock(Main)
  /\ UNCHANGED <<callbacks, snapshot, local, poolVars, runVars, batchVars, statVars>>

\* ... or by the action callback of a violated rule, on any thread.
RegisterFromAction(t) ==
  /\ pc[t] = "actRegister" /\ Locked(t)
  /\ LET new == ActRegisters[Triggers[mine[t]]] IN
     \E got \in SUBSET new : functions' = functions \cup got /\ Obtain(got, new)
  /\ Goto(t, "record")
  /\ Unlock(t)
  /\ UNCHANGED <<callbacks, snapshot, local, poolVars, runVars, batchVars, statVars>>

CountExecution(t) ==
  IF t = Main
    THEN /\ stats' = PlusStats(stats, OneExecution)
         /\ UNCHANGED vmStats
    ELSE /\ vmStats' = [vmStats EXCEPT ![t] = PlusStats(@, OneExecution)]
         /\ UNCHANGED stats

\* The execution is counted and its report stored in the slot of the rule.  A
\* report that cannot be completed is freed and replaced by one that says ERROR,
\* and the slot stays NULL when there is no memory for that one either.
RecordReport(t) ==
  LET r == mine[t] IN
  /\ pc[t] = "record" /\ Locked(t)
  /\ \E out \in {status[t], "ERROR", NoReport} :
       /\ reports' = [reports EXCEPT ![r] = out]
       /\ IF out = status[t] THEN faults' = faults ELSE Fault
  /\ runs' = [runs EXCEPT ![r] = @ + 1]
  /\ CountExecution(t)
  /\ Goto(t, "claim")
  /\ Unlock(t)
  /\ UNCHANGED <<vmVars, poolVars, runVars, acted, tally, batch, argStats>>

-----------------------------------------------------------------------------
(***************************************************************************)
(* The calling thread finishes the batch.                                  *)
(***************************************************************************)

\* Mutant: the joins are missing.
JoinNobody ==
  /\ pc[Main] = "join"
  /\ Goto(Main, "aggregate")
  /\ UNCHANGED <<lockVars, vmVars, poolVars, runVars, batchVars, statVars, faults>>

JoinWorkers ==
  /\ pc[Main] = "join"
  /\ \A w \in created : pc[w] = "done"
  /\ Goto(Main, "aggregate")
  /\ UNCHANGED <<lockVars, vmVars, poolVars, runVars, batchVars, statVars, faults>>

\* One turn of the summing loop, under the write lock.
AddWorkerStats(w) ==
  /\ pc[Main] = "aggregate" /\ Locked(Main)
  /\ w \in created \ added
  /\ stats' = PlusStats(stats, argStats[w])
  /\ added' = added \cup {w}
  /\ UNCHANGED <<pc, lockVars, vmVars, unstarted, created, runVars, batchVars,
                 vmStats, argStats, faults>>

\* Mutant: a missing report is counted as an error.
TallyNullAsError(reported) ==
  [s \in Status |-> Cardinality({r \in Rules :
     reported[r] = s \/ (s = "ERROR" /\ reported[r] = NoReport)})]

Tally(reported) ==
  [s \in Status |-> Cardinality({r \in Rules : reported[r] = s})]

TallyReports ==
  /\ pc[Main] = "aggregate" /\ Locked(Main)
  /\ added = created
  /\ tally' = Tally(reports)
  /\ batch' = "reported"
  /\ Goto(Main, "free")
  /\ Unlock(Main)
  /\ UNCHANGED <<vmVars, poolVars, runVars, reports, runs, acted, statVars,
                 faults>>

FreeSnapshots ==
  /\ pc[Main] = "free"
  /\ snapshot' = [snapshot EXCEPT !.live = FALSE]
  /\ Goto(Main, "returned")
  /\ UNCHANGED <<lockVars, functions, callbacks, local, poolVars, runVars,
                 batchVars, statVars, faults>>

\* The call has returned: the workers have ended and nothing happens.
Returned ==
  /\ pc[Main] = "returned"
  /\ UNCHANGED vars

-----------------------------------------------------------------------------
Setup == TakeSnapshot \/ BuildArrays \/ RefuseBatch \/ AllSpawned
Finish == JoinWorkers \/ TallyReports \/ FreeSnapshots
PerWorker(w) == StartWorker(w) \/ StartFails(w) \/ AddWorkerStats(w)
WorkerLife(w) == InitWorker(w) \/ InitFails(w) \/ ReleaseWorker(w)
Execute(t) ==
  \/ ClaimRule(t)
  \/ EvaluateCondition(t)
  \/ FunctionCallback(t)
  \/ Decide(t)
  \/ TriggerAction(t)
  \/ RegisterFromAction(t)
  \/ RecordReport(t)

Next ==
  \/ Setup
  \/ Finish
  \/ RegisterFromFunction
  \/ \E w \in Workers : PerWorker(w) \/ WorkerLife(w)
  \/ \E t \in Threads : Acquire(t) \/ Execute(t)
  \/ Returned

\* The operating system keeps running every thread of the process, and a lock
\* that is given back is eventually granted: only finitely many sections
\* compete for it, so weak fairness of each thread is enough.
MainStep ==
  \/ Setup
  \/ Finish
  \/ RegisterFromFunction
  \/ Acquire(Main)
  \/ Execute(Main)
  \/ \E w \in Workers : PerWorker(w)
WorkerStep(w) == WorkerLife(w) \/ Acquire(w) \/ Execute(w)

Spec == Init /\ [][Next]_vars

-----------------------------------------------------------------------------
(***************************************************************************)
(* Properties.                                                             *)
(***************************************************************************)

Stats == [executions : Nat, actions : Nat]
Executing ==
  {"call", "callback", "fnRegister", "decided", "trigger", "actRegister", "record"}
Labels ==
  Executing \cup {"unstarted", "init", "claim", "release", "done", "snapshot",
                  "arrays", "spawn", "join", "aggregate", "free",
                  "returned"}

\* The types of all the variables.
TypeOK ==
  /\ pc \in [Threads -> Labels]
  /\ lock \in Threads \cup {Free}
  /\ section \in Executing \cup {"snapshot", "aggregate", Open}
  /\ functions \in SUBSET Functions
  /\ callbacks \in SUBSET Actions
  /\ snapshot \in [live : BOOLEAN, functions : SUBSET Functions,
                   callbacks : SUBSET Actions]
  /\ local \in [Workers -> SUBSET Functions]
  /\ unstarted \in SUBSET Workers
  /\ created \in SUBSET Workers
  /\ added \in SUBSET created
  /\ nextIdx \in Nat \ {0}
  /\ mine \in [Threads -> Rules \cup {0}]
  /\ status \in [Threads -> Status]
  /\ reports \in [Rules -> Status \cup {NoReport, NotRun}]
  /\ runs \in [Rules -> Nat]
  /\ acted \in SUBSET Rules
  /\ vmStats \in [Workers -> Stats]
  /\ argStats \in [Workers -> Stats]
  /\ stats \in Stats
  /\ tally \in [Status -> Nat]
  /\ batch \in {"building", "reported", "refused"}
  /\ faults \in 0 .. MaxFaults

\* A rule is never executed twice, and no two threads ever hold the same rule,
\* however the claims of the caller and of the workers interleave
\* (CDSL_ATOMIC_FETCH_ADD in parallel_worker and in the caller's own loop).
NoRuleRunsTwice ==
  /\ \A r \in Rules : runs[r] <= 1
  /\ \A t \in Threads : pc[t] \in Executing => runs[mine[t]] = 0
  /\ \A t, u \in Threads :
       t # u /\ pc[t] \in Executing /\ pc[u] \in Executing => mine[t] # mine[u]

\* Whichever threads could not be started or initialised, a batch that is
\* handed back has executed every rule, and its counters are the counts of
\* exactly the reports it holds.
BatchIsComplete ==
  batch = "reported" =>
    /\ \A r \in Rules : runs[r] = 1 /\ reports[r] # NotRun
    /\ tally = Tally(reports)

\* The callback lists the workers read are freed only after the last worker has
\* stopped using them (free_snapshots comes after the joins).
SnapshotOutlivesWorkers ==
  \A w \in Workers :
    pc[w] \in Executing \cup {"init", "claim", "release"} => snapshot.live

\* No execution and no triggered action is missing from the statistics of the
\* parent VM, or counted twice, once the batch is reported, whichever thread
\* executed the rule (the aggregation under the write lock).
StatsAreConserved ==
  batch = "reported" =>
    stats = [executions |-> RuleCount, actions |-> Cardinality(acted)]

\* A function that was registered before the call is found by every rule of
\* the batch, on whichever thread the rule runs, unless the copy was cut short:
\* no rule is passed for want of a function the application had registered.
EarlyRegistrationsAreSeen ==
  snapshot.functions = Initial =>
    \A r \in Rules :
      reports[r] \in Status /\ Calls[r] \in Initial \cup {NoName} =>
        reports[r] \in {Verdict[r], "ERROR"}

-----------------------------------------------------------------------------
(***************************************************************************)
(* The batch implements RuleBatch: its abstract verdicts are the slots     *)
(* filled so far.                                                          *)
(***************************************************************************)
Executed == {r \in Rules : reports[r] # NotRun}
PhaseOf(b) == IF b = "building" THEN "running" ELSE b

Abstract == INSTANCE RuleBatch WITH
  Verdicts <- [r \in Rules |-> {Verdict[r], "PASSED", "ERROR"}],
  phase <- PhaseOf(batch),
  verdict <- [r \in Executed |-> reports[r]]

\* Every step of the threads is a step of the promised batch, or invisible.
ImplementsRuleBatch == Abstract!Spec
=============================================================================
