------------------------ MODULE BatchExecutionProofs ------------------------
(***************************************************************************)
(* Proofs about the batch, for every number of rules and of threads, every *)
(* rule set, callbacks and failures.                                       *)
(*                                                                         *)
(* First the parallel execution: its inductive invariant IInv has one part *)
(* per question: who may be in which phase (Phases), which rules have been *)
(* claimed, by whom, and which of them are finished (Claims), what the     *)
(* conditions have come to (Judged), and what the batch report holds       *)
(* (Batch).  Then its statistics (Accounted), a measure that every step    *)
(* lowers (Descent), the refinement of RuleBatch,                          *)
(* the sequential execution with its own invariant (Sound), and the call   *)
(* that takes one or the other, to which the theorems carry over since     *)
(* neither half touches the state of the other.                            *)
(***************************************************************************)
EXTENDS BatchExecution, FiniteSetTheorems, TLAPS

MainLabels ==
  Executing \cup {"snapshot", "arrays", "spawn", "claim", "join", "aggregate",
                  "free", "returned"}
WorkerLabels == Executing \cup {"unstarted", "init", "claim", "release", "done"}

\* Where the caller and the workers can be, relative to each other.
Phases ==
  /\ pc[Main] \in MainLabels
  /\ \A w \in Workers : pc[w] \in WorkerLabels
  /\ created \cap unstarted = {}
  /\ \A w \in Workers : pc[w] = "unstarted" <=> w \notin created
  /\ pc[Main] \in {"snapshot", "arrays"} => created = {}
  /\ pc[Main] \in {"aggregate", "free", "returned"} =>
       \A w \in created : pc[w] = "done"
  /\ pc[Main] \notin {"snapshot", "returned"} => snapshot.live

\* Which rules are claimed, and what has become of them.
Claims ==
  /\ pc[Main] \in {"snapshot", "arrays"} => nextIdx = 1
  /\ pc[Main] \in {"join", "aggregate", "free"} => nextIdx > RuleCount
  /\ \A t \in Threads : pc[t] \in Executing =>
       mine[t] \in Rules /\ mine[t] < nextIdx /\ runs[mine[t]] = 0
  /\ \A t, u \in Threads :
       t # u /\ pc[t] \in Executing /\ pc[u] \in Executing => mine[t] # mine[u]
  /\ \A r \in Rules : runs[r] \in {0, 1}
  /\ \A r \in Rules : runs[r] = 0 <=> reports[r] = NotRun
  /\ \A r \in Rules : r >= nextIdx => runs[r] = 0
  /\ \A r \in Rules : r < nextIdx =>
       runs[r] = 1 \/ \E t \in Threads : pc[t] \in Executing /\ mine[t] = r

\* What the caller may be handed back.
Batch ==
  /\ batch = "building" => pc[Main] \notin {"free", "returned"}
  /\ batch = "reported" => /\ pc[Main] \in {"free", "returned"}
                           /\ \A r \in Rules : runs[r] = 1
                           /\ tally = Tally(reports)
  /\ batch = "refused" => pc[Main] = "returned" /\ \A r \in Rules : runs[r] = 0
  /\ batch # "reported" => tally = [s \in Status |-> 0]
  /\ pc[Main] = "free" => batch = "reported"

\* What the condition of a claimed rule, or of a finished one, has come to.
Evaluated == Executing \ {"call"}
RightVerdict(r, v) ==
  /\ v \in {Verdict[r], "PASSED", "ERROR"}
  /\ snapshot.functions = Initial /\ Calls[r] \in Initial \cup {NoName} =>
       v \in {Verdict[r], "ERROR"}

Judged ==
  /\ Initial \subseteq functions
  /\ \A t \in Threads : pc[t] \in Evaluated => RightVerdict(mine[t], status[t])
  /\ \A r \in Rules : reports[r] \in Status => RightVerdict(r, reports[r])

-----------------------------------------------------------------------------
\* The counters of a batch report are natural numbers: they count members of
\* the finite set of rules.
LEMMA TallyType == \A reported : Tally(reported) \in [Status -> Nat]
<1> TAKE reported
<1> SUFFICES ASSUME NEW s \in Status
             PROVE  Cardinality({r \in Rules : reported[r] = s}) \in Nat
  BY DEF Tally
<1>1. IsFiniteSet(Rules)
  BY SizeAssumption, FS_Interval DEF Rules
<1>2. IsFiniteSet({r \in Rules : reported[r] = s})
  BY <1>1, FS_Subset
<1> QED
  BY <1>2, FS_CardinalityType

\* The names a step uses are the names of a claimed rule: a thread that runs a
\* callback holds a rule whose function, or action, is registrable.
Held ==
  \A t \in Threads :
    /\ pc[t] \in Executing => mine[t] \in Rules
    /\ pc[t] \in {"callback", "fnRegister"} => Calls[mine[t]] \in Functions
    /\ pc[t] = "actRegister" => Triggers[mine[t]] \in Actions

Typed == TypeOK /\ Held

LEMMA PlusStatsType == \A s, u \in Stats : PlusStats(s, u) \in Stats
  BY DEF PlusStats, Stats

\* The two counting operations keep the types of the counters they touch.
LEMMA CountType ==
  ASSUME stats \in Stats, vmStats \in [Workers -> Stats], NEW t \in Threads,
         CountExecution(t) \/ CountAction(t)
  PROVE  stats' \in Stats /\ vmStats' \in [Workers -> Stats]
<1>1. OneExecution \in Stats /\ OneAction \in Stats
  BY DEF OneExecution, OneAction, Stats
<1>2. CASE t = Main
  BY <1>1, <1>2, PlusStatsType DEF CountExecution, CountAction
<1>3. CASE t # Main
  <2>1. t \in Workers
    BY <1>3 DEF Threads
  <2> QED
    BY <1>1, <1>3, <2>1, PlusStatsType DEF CountExecution, CountAction
<1> QED
  BY <1>2, <1>3

\* A registration that fails is one more fault.
LEMMA ObtainType ==
  ASSUME NEW got, NEW new, faults \in 0 .. MaxFaults, Obtain(got, new)
  PROVE  faults' \in 0 .. MaxFaults
  BY SizeAssumption DEF Obtain, Fault

LEMMA TypeInit == Init => Typed
<1> SUFFICES ASSUME Init PROVE Typed
  OBVIOUS
<1>1. TypeOK
  BY SizeAssumption, NameAssumption, RuleAssumption
  DEF Init, TypeOK, Labels, Executing, Stats, NoStats, Status, Threads, NotRun
<1>2. Held
  BY DEF Init, Held, Executing
<1> QED
  BY <1>1, <1>2 DEF Typed

LEMMA TypeStep == Typed /\ [Next]_vars => Typed'
<1> SUFFICES ASSUME Typed, [Next]_vars PROVE Typed'
  OBVIOUS
<1> USE SizeAssumption, NameAssumption, RuleAssumption
    DEF Typed, TypeOK, Held, Threads, Goto, Unlock, Labels, Executing,
        lockVars, batchVars, statVars, vmVars, poolVars, runVars
<1>1. CASE TakeSnapshot
  BY <1>1 DEF TakeSnapshot, Fault
<1>2. CASE BuildArrays
  BY <1>2 DEF BuildArrays
<1>3. CASE RefuseBatch
  <2>1. faults' \in 0 .. MaxFaults
    BY <1>3 DEF RefuseBatch, Fault
  <2>2. snapshot' \in [live : BOOLEAN, functions : SUBSET Functions,
                       callbacks : SUBSET Actions]
    BY <1>3 DEF RefuseBatch
  <2>3. pc' \in [Threads -> Labels] /\ batch' = "refused"
    BY <1>3 DEF RefuseBatch
  <2>4. UNCHANGED <<lockVars, functions, callbacks, local, poolVars, runVars,
                    reports, runs, acted, tally, statVars>>
    BY <1>3 DEF RefuseBatch
  <2>5. \A t \in Threads : pc'[t] = pc[t] \/ pc'[t] = "returned"
    BY <1>3 DEF RefuseBatch
  <2> QED
    BY <2>1, <2>2, <2>3, <2>4, <2>5
<1>4. CASE AllSpawned
  BY <1>4 DEF AllSpawned
<1>5. CASE JoinWorkers
  BY <1>5 DEF JoinWorkers
<1>6. CASE TallyReports
  BY <1>6, TallyType DEF TallyReports
<1>7. CASE FreeSnapshots
  BY <1>7 DEF FreeSnapshots
<1>8. CASE RegisterFromFunction
  <2>1. Calls[mine[Main]] \in Functions
    BY <1>8 DEF RegisterFromFunction
  <2>2. functions' \in SUBSET Functions /\ faults' \in 0 .. MaxFaults
    BY <1>8, <2>1, ObtainType DEF RegisterFromFunction
  <2> QED
    BY <1>8, <2>2 DEF RegisterFromFunction
<1>9. ASSUME NEW w \in Workers, StartWorker(w) PROVE Typed'
  BY <1>9 DEF StartWorker
<1>10. ASSUME NEW w \in Workers, StartFails(w) PROVE Typed'
  BY <1>10 DEF StartFails, Fault
<1>11. ASSUME NEW w \in Workers, AddWorkerStats(w) PROVE Typed'
  BY <1>11, PlusStatsType DEF AddWorkerStats
<1>12. ASSUME NEW w \in Workers, InitWorker(w) PROVE Typed'
  BY <1>12 DEF InitWorker
<1>13. ASSUME NEW w \in Workers, InitFails(w) PROVE Typed'
  BY <1>13 DEF InitFails, Fault
<1>14. ASSUME NEW w \in Workers, ReleaseWorker(w) PROVE Typed'
  BY <1>14 DEF ReleaseWorker
<1>15. ASSUME NEW t \in Threads, Acquire(t) PROVE Typed'
  BY <1>15 DEF Acquire, NeedsLock
<1>16. ASSUME NEW t \in Threads, ClaimRule(t) PROVE Typed'
  BY <1>16 DEF ClaimRule
<1>17. ASSUME NEW t \in Threads, EvaluateCondition(t) PROVE Typed'
  <2> DEFINE f == Calls[mine[t]]
  <2>1. /\ mine[t] \in Rules /\ Verdict[mine[t]] \in Status
        /\ "PASSED" \in Status /\ "ERROR" \in Status
    BY <1>17 DEF EvaluateCondition, Status
  <2>2. status' \in [Threads -> Status] /\ faults' \in 0 .. MaxFaults
    BY <1>17, <2>1 DEF EvaluateCondition, Fault
  <2>3. VisibleFunctions(t) \subseteq Functions
    BY DEF VisibleFunctions
  <2>4. /\ \/ pc' = [pc EXCEPT ![t] = IF f \in VisibleFunctions(t)
                                        THEN "callback" ELSE "decided"]
           \/ pc' = [pc EXCEPT ![t] = "decided"]
        /\ UNCHANGED <<mine, nextIdx, vmVars, poolVars, batchVars, statVars>>
        /\ lock' \in Threads \cup {Free}
        /\ section' \in {section, Open}
    BY <1>17 DEF EvaluateCondition
  <2>5. Held'
    BY <2>1, <2>3, <2>4
  <2> QED
    BY <2>2, <2>4, <2>5
<1>18. ASSUME NEW t \in Threads, FunctionCallback(t) PROVE Typed'
  <2>1. Calls[mine[t]] \in Functions
    BY <1>18 DEF FunctionCallback
  <2>2. local' \in [Workers -> SUBSET Functions] /\ faults' \in 0 .. MaxFaults
    <3>1. CASE t # Main
      <4>1. PICK got \in SUBSET FnRegisters[Calls[mine[t]]] :
              /\ local' = [local EXCEPT ![t] = @ \cup got]
              /\ Obtain(got, FnRegisters[Calls[mine[t]]])
        BY <1>18, <3>1 DEF FunctionCallback
      <4>2. t \in Workers /\ got \in SUBSET Functions
        BY <2>1, <3>1
      <4>3. local[t] \cup got \in SUBSET Functions
        BY <4>2
      <4> QED
        BY <4>1, <4>2, <4>3, ObtainType
    <3>2. CASE t = Main
      BY <1>18, <3>2 DEF FunctionCallback
    <3> QED
      BY <3>1, <3>2
  <2>3. /\ \E label \in {"decided", "fnRegister"} : pc' = [pc EXCEPT ![t] = label]
        /\ UNCHANGED <<lockVars, functions, callbacks, snapshot, poolVars, runVars, batchVars,
                       statVars>>
    BY <1>18 DEF FunctionCallback
  <2>4. Held'
    BY <1>18, <2>1, <2>3 DEF FunctionCallback
  <2> QED
    BY <2>2, <2>3, <2>4
<1>19. ASSUME NEW t \in Threads, Decide(t) PROVE Typed'
  BY <1>19 DEF Decide
<1>20. ASSUME NEW t \in Threads, TriggerAction(t) PROVE Typed'
  <2> DEFINE a == Triggers[mine[t]]
  <2>1. mine[t] \in Rules
    BY <1>20 DEF TriggerAction
  <2>2. stats' \in Stats /\ vmStats' \in [Workers -> Stats] /\ acted' \in SUBSET Rules
    <3>1. \/ CountAction(t) /\ acted' = acted \cup {mine[t]}
          \/ UNCHANGED <<vmStats, stats, acted>>
      BY <1>20 DEF TriggerAction
    <3> QED
      BY <2>1, <3>1, CountType
  <2>3. VisibleActions(t) \subseteq Actions
    BY DEF VisibleActions
  <2>4. /\ pc' = [pc EXCEPT ![t] = IF a \in VisibleActions(t) /\ ActRegisters[a] # {}
                                     THEN "actRegister" ELSE "record"]
        /\ UNCHANGED <<runVars, vmVars, poolVars, reports, runs, tally, batch,
                       argStats, faults>>
        /\ lock' \in Threads \cup {Free}
        /\ section' \in {section, Open}
    BY <1>20 DEF TriggerAction
  <2>5. Held'
    BY <2>1, <2>3, <2>4
  <2> QED
    BY <2>2, <2>4, <2>5
<1>21. ASSUME NEW t \in Threads, RegisterFromAction(t) PROVE Typed'
  <2>1. Triggers[mine[t]] \in Actions
    BY <1>21 DEF RegisterFromAction
  <2>2. functions' \in SUBSET Functions /\ faults' \in 0 .. MaxFaults
    BY <1>21, <2>1, ObtainType DEF RegisterFromAction
  <2> QED
    BY <1>21, <2>2 DEF RegisterFromAction
<1>22. ASSUME NEW t \in Threads, RecordReport(t) PROVE Typed'
  <2>1. mine[t] \in Rules
    BY <1>22 DEF RecordReport
  <2>2. stats' \in Stats /\ vmStats' \in [Workers -> Stats]
    <3>1. CountExecution(t)
      BY <1>22 DEF RecordReport
    <3> QED
      BY <3>1, CountType
  <2>3. reports' \in [Rules -> Status \cup {NoReport, NotRun}]
    BY <1>22, <2>1 DEF RecordReport, Status
  <2>4. runs' \in [Rules -> Nat]
    BY <1>22, <2>1 DEF RecordReport
  <2>5. faults' \in 0 .. MaxFaults
    BY <1>22 DEF RecordReport, Fault
  <2>6. /\ pc' = [pc EXCEPT ![t] = "claim"]
        /\ UNCHANGED <<vmVars, poolVars, runVars, acted, tally, batch, argStats>>
        /\ lock' \in Threads \cup {Free}
        /\ section' \in {section, Open}
    BY <1>22 DEF RecordReport
  <2>7. Held'
    BY <2>6
  <2> QED
    BY <2>2, <2>3, <2>4, <2>5, <2>6, <2>7
<1>23. CASE UNCHANGED vars
  BY <1>23 DEF vars
<1> QED
  BY <1>1, <1>2, <1>3, <1>4, <1>5, <1>6, <1>7, <1>8, <1>9, <1>10, <1>11, <1>12, <1>13, <1>14, <1>15, <1>16, <1>17, <1>18, <1>19, <1>20, <1>21, <1>22, <1>23
  DEF Next, Setup, Finish, PerWorker, WorkerLife, Execute, Returned

\* Every variable keeps its type, whatever fails.
THEOREM TypeCorrect == Spec => []TypeOK
<1>1. Typed => TypeOK
  BY DEF Typed
<1> QED
  BY <1>1, TypeInit, TypeStep, PTL DEF Spec

-----------------------------------------------------------------------------
LEMMA PhasesInit == Init => Phases
  BY NameAssumption DEF Init, Phases, MainLabels, WorkerLabels, Threads, Executing

LEMMA PhasesStep == Typed /\ Phases /\ [Next]_vars => Phases'
<1> SUFFICES ASSUME Typed, Phases, [Next]_vars PROVE Phases'
  OBVIOUS
<1> USE NameAssumption DEF Typed, TypeOK, Phases, Threads, Goto, MainLabels, WorkerLabels, Executing, batchVars, statVars,
        vmVars, poolVars, runVars
<1>1. CASE TakeSnapshot
  BY <1>1 DEF TakeSnapshot
<1>2. CASE BuildArrays
  BY <1>2 DEF BuildArrays
<1>3. CASE RefuseBatch
  BY <1>3 DEF RefuseBatch
<1>4. CASE AllSpawned
  BY <1>4 DEF AllSpawned
<1>5. CASE JoinWorkers
  BY <1>5 DEF JoinWorkers
<1>6. CASE TallyReports
  BY <1>6 DEF TallyReports
<1>7. CASE FreeSnapshots
  BY <1>7 DEF FreeSnapshots
<1>8. CASE RegisterFromFunction
  BY <1>8 DEF RegisterFromFunction
<1>9. ASSUME NEW w \in Workers, StartWorker(w) PROVE Phases'
  BY <1>9 DEF StartWorker
<1>10. ASSUME NEW w \in Workers, StartFails(w) PROVE Phases'
  BY <1>10 DEF StartFails
<1>11. ASSUME NEW w \in Workers, AddWorkerStats(w) PROVE Phases'
  BY <1>11 DEF AddWorkerStats
<1>12. ASSUME NEW w \in Workers, InitWorker(w) PROVE Phases'
  BY <1>12 DEF InitWorker
<1>13. ASSUME NEW w \in Workers, InitFails(w) PROVE Phases'
  BY <1>13 DEF InitFails
<1>14. ASSUME NEW w \in Workers, ReleaseWorker(w) PROVE Phases'
  BY <1>14 DEF ReleaseWorker
<1>15. ASSUME NEW t \in Threads, Acquire(t) PROVE Phases'
  BY <1>15 DEF Acquire
<1>16. ASSUME NEW t \in Threads, ClaimRule(t) PROVE Phases'
  BY <1>16 DEF ClaimRule
<1>17. ASSUME NEW t \in Threads, EvaluateCondition(t) PROVE Phases'
  BY <1>17 DEF EvaluateCondition
<1>18. ASSUME NEW t \in Threads, FunctionCallback(t) PROVE Phases'
  BY <1>18 DEF FunctionCallback
<1>19. ASSUME NEW t \in Threads, Decide(t) PROVE Phases'
  BY <1>19 DEF Decide
<1>20. ASSUME NEW t \in Threads, TriggerAction(t) PROVE Phases'
  BY <1>20 DEF TriggerAction
<1>21. ASSUME NEW t \in Threads, RegisterFromAction(t) PROVE Phases'
  BY <1>21 DEF RegisterFromAction
<1>22. ASSUME NEW t \in Threads, RecordReport(t) PROVE Phases'
  BY <1>22 DEF RecordReport
<1>23. CASE UNCHANGED vars
  BY <1>23 DEF vars
<1> QED
  BY <1>1, <1>2, <1>3, <1>4, <1>5, <1>6, <1>7, <1>8, <1>9, <1>10, <1>11, <1>12, <1>13, <1>14, <1>15, <1>16, <1>17, <1>18, <1>19, <1>20, <1>21, <1>22, <1>23
  DEF Next, Setup, Finish, PerWorker, WorkerLife, Execute, Returned

LEMMA ClaimsInit == Init => Claims
  BY SizeAssumption, NameAssumption DEF Init, Claims, Rules, Threads, Executing, NotRun

\* A step that neither claims nor finishes a rule leaves the claims as they are.
LEMMA ClaimsFrame ==
  ASSUME Claims,
         UNCHANGED <<nextIdx, mine, runs, reports>>,
         \A t \in Threads : pc'[t] \in Executing <=> pc[t] \in Executing,
         pc'[Main] \in {"snapshot", "arrays"} => nextIdx = 1,
         pc'[Main] \in {"join", "aggregate", "free"} => nextIdx > RuleCount
  PROVE  Claims'
  BY DEF Claims

LEMMA ClaimsStep == Typed /\ Phases /\ Claims /\ [Next]_vars => Claims'
<1> SUFFICES ASSUME Typed, Phases, Claims, [Next]_vars PROVE Claims'
  OBVIOUS
<1> USE SizeAssumption, NameAssumption DEF Typed, TypeOK, Phases, Claims, Threads, Goto, Rules, MainLabels, WorkerLabels, Executing,
        batchVars, statVars,
        vmVars, poolVars, runVars
<1>1. CASE TakeSnapshot
  BY <1>1 DEF TakeSnapshot
<1>2. CASE BuildArrays
  BY <1>2 DEF BuildArrays
<1>3. CASE RefuseBatch
  BY <1>3 DEF RefuseBatch
<1>4. CASE AllSpawned
  BY <1>4, ClaimsFrame DEF AllSpawned
<1>5. CASE JoinWorkers
  BY <1>5, ClaimsFrame DEF JoinWorkers
<1>6. CASE TallyReports
  BY <1>6, ClaimsFrame DEF TallyReports
<1>7. CASE FreeSnapshots
  BY <1>7, ClaimsFrame DEF FreeSnapshots
<1>8. CASE RegisterFromFunction
  BY <1>8, ClaimsFrame DEF RegisterFromFunction
<1>9. ASSUME NEW w \in Workers, StartWorker(w) PROVE Claims'
  BY <1>9, ClaimsFrame DEF StartWorker
<1>10. ASSUME NEW w \in Workers, StartFails(w) PROVE Claims'
  BY <1>10 DEF StartFails
<1>11. ASSUME NEW w \in Workers, AddWorkerStats(w) PROVE Claims'
  BY <1>11 DEF AddWorkerStats
<1>12. ASSUME NEW w \in Workers, InitWorker(w) PROVE Claims'
  BY <1>12, ClaimsFrame DEF InitWorker
<1>13. ASSUME NEW w \in Workers, InitFails(w) PROVE Claims'
  BY <1>13, ClaimsFrame DEF InitFails
<1>14. ASSUME NEW w \in Workers, ReleaseWorker(w) PROVE Claims'
  BY <1>14, ClaimsFrame DEF ReleaseWorker
<1>15. ASSUME NEW t \in Threads, Acquire(t) PROVE Claims'
  BY <1>15 DEF Acquire
<1>16. ASSUME NEW t \in Threads, ClaimRule(t) PROVE Claims'
  <2>1. CASE nextIdx \in Rules
    <3>1. /\ nextIdx' = nextIdx + 1
          /\ mine' = [mine EXCEPT ![t] = nextIdx]
          /\ pc' = [pc EXCEPT ![t] = "call"]
          /\ UNCHANGED <<runs, reports>>
          /\ pc[t] = "claim"
      BY <1>16, <2>1 DEF ClaimRule
    <3>2. /\ pc'[t] \in Executing /\ mine'[t] = nextIdx
          /\ \A u \in Threads : u # t => pc'[u] = pc[u] /\ mine'[u] = mine[u]
      BY <3>1
    <3>3. \A u \in Threads : pc'[u] \in Executing =>
             mine'[u] \in Rules /\ mine'[u] < nextIdx' /\ runs'[mine'[u]] = 0
      BY <2>1, <3>1, <3>2
    <3>4. \A u, v \in Threads :
             u # v /\ pc'[u] \in Executing /\ pc'[v] \in Executing => mine'[u] # mine'[v]
      BY <3>1, <3>2
    <3>5. \A r \in Rules : r < nextIdx' =>
             runs'[r] = 1 \/ \E u \in Threads : pc'[u] \in Executing /\ mine'[u] = r
      <4> SUFFICES ASSUME NEW r \in Rules, r < nextIdx'
                   PROVE  runs'[r] = 1 \/ \E u \in Threads : pc'[u] \in Executing /\ mine'[u] = r
        OBVIOUS
      <4>1. CASE r = nextIdx
        BY <3>2, <4>1
      <4>2. CASE r < nextIdx
        BY <3>1, <3>2, <4>2
      <4> QED
        BY <3>1, <4>1, <4>2
    <3> QED
      BY <3>1, <3>3, <3>4, <3>5
  <2>2. CASE nextIdx \notin Rules
    <3>1. /\ nextIdx' = nextIdx + 1
          /\ nextIdx > RuleCount
          /\ pc' = [pc EXCEPT ![t] = IF t = Main THEN "join" ELSE "release"]
          /\ UNCHANGED <<mine, runs, reports>>
          /\ pc[t] = "claim"
      BY <1>16, <2>2 DEF ClaimRule
    <3>2. \A u \in Threads : pc'[u] \in Executing <=> pc[u] \in Executing
      BY <3>1
    <3>3. \A u \in Threads : pc'[u] \in Executing =>
             mine'[u] \in Rules /\ mine'[u] < nextIdx' /\ runs'[mine'[u]] = 0
      BY <3>1, <3>2
    <3>4. \A r \in Rules :
             runs'[r] = 1 \/ \E u \in Threads : pc'[u] \in Executing /\ mine'[u] = r
      BY <3>1, <3>2
    <3> QED
      BY <3>1, <3>2, <3>3, <3>4
  <2> QED
    BY <2>1, <2>2
<1>17. ASSUME NEW t \in Threads, EvaluateCondition(t) PROVE Claims'
  <2>1. /\ pc[t] = "call"
        /\ \/ pc' = [pc EXCEPT ![t] = "callback"]
           \/ pc' = [pc EXCEPT ![t] = "decided"]
        /\ UNCHANGED <<mine, nextIdx, runs, reports>>
    BY <1>17 DEF EvaluateCondition
  <2>2. \A u \in Threads : pc'[u] \in Executing <=> pc[u] \in Executing
    BY <2>1 DEF Executing
  <2> QED
    BY <2>1, <2>2, ClaimsFrame
<1>18. ASSUME NEW t \in Threads, FunctionCallback(t) PROVE Claims'
  BY <1>18, ClaimsFrame DEF FunctionCallback
<1>19. ASSUME NEW t \in Threads, Decide(t) PROVE Claims'
  BY <1>19 DEF Decide
<1>20. ASSUME NEW t \in Threads, TriggerAction(t) PROVE Claims'
  BY <1>20 DEF TriggerAction
<1>21. ASSUME NEW t \in Threads, RegisterFromAction(t) PROVE Claims'
  BY <1>21 DEF RegisterFromAction
<1>22. ASSUME NEW t \in Threads, RecordReport(t) PROVE Claims'
  <2> DEFINE q == mine[t]
  <2>1. /\ pc[t] = "record"
        /\ pc' = [pc EXCEPT ![t] = "claim"]
        /\ UNCHANGED <<nextIdx, mine>>
        /\ runs' = [runs EXCEPT ![q] = @ + 1]
        /\ \E v \in Status \cup {NoReport} : reports' = [reports EXCEPT ![q] = v]
    <3>1. status[t] \in Status /\ "ERROR" \in Status
      BY DEF Status
    <3>2. PICK v \in {status[t], "ERROR", NoReport} : reports' = [reports EXCEPT ![q] = v]
      BY <1>22 DEF RecordReport
    <3>3. v \in Status \cup {NoReport}
      BY <3>1, <3>2
    <3>4. \E x \in Status \cup {NoReport} : reports' = [reports EXCEPT ![q] = x]
      BY <3>2, <3>3
    <3> QED
      BY <1>22, <3>4 DEF RecordReport
  <2>2. q \in Rules /\ q < nextIdx /\ runs[q] = 0
    BY <2>1
  <2>3. /\ \A u \in Threads : u # t => pc'[u] = pc[u]
        /\ pc'[t] = "claim"
    BY <2>1
  <2>4. /\ runs'[q] = 1 /\ reports'[q] \in Status \cup {NoReport}
        /\ \A r \in Rules : r # q => runs'[r] = runs[r] /\ reports'[r] = reports[r]
    BY <2>1, <2>2
  <2>5. \A u \in Threads : pc'[u] \in Executing =>
           mine'[u] \in Rules /\ mine'[u] < nextIdx' /\ runs'[mine'[u]] = 0
    BY <2>1, <2>3, <2>4
  <2>6. \A r \in Rules : r < nextIdx' =>
           runs'[r] = 1 \/ \E u \in Threads : pc'[u] \in Executing /\ mine'[u] = r
    BY <2>1, <2>3, <2>4
  <2>7. NotRun \notin Status \cup {NoReport}
    BY DEF NotRun, Status
  <2> QED
    BY <2>1, <2>2, <2>3, <2>4, <2>5, <2>6, <2>7
<1>23. CASE UNCHANGED vars
  BY <1>23 DEF vars
<1> QED
  BY <1>1, <1>2, <1>3, <1>4, <1>5, <1>6, <1>7, <1>8, <1>9, <1>10, <1>11, <1>12, <1>13, <1>14, <1>15, <1>16, <1>17, <1>18, <1>19, <1>20, <1>21, <1>22, <1>23
  DEF Next, Setup, Finish, PerWorker, WorkerLife, Execute, Returned

LEMMA BatchAtInit == Init => Batch
  BY NameAssumption DEF Init, Batch, Threads

LEMMA BatchStep == Typed /\ Phases /\ Claims /\ Batch /\ [Next]_vars => Batch'
<1> SUFFICES ASSUME Typed, Phases, Claims, Batch, [Next]_vars PROVE Batch'
  OBVIOUS
<1> USE SizeAssumption, NameAssumption DEF Typed, TypeOK, Phases, Claims, Batch, Threads, Goto, Rules, MainLabels, WorkerLabels, Executing,
        batchVars, statVars,
        vmVars, poolVars, runVars
<1>1. CASE TakeSnapshot
  BY <1>1 DEF TakeSnapshot
<1>2. CASE BuildArrays
  BY <1>2 DEF BuildArrays
<1>3. CASE RefuseBatch
  BY <1>3 DEF RefuseBatch
<1>4. CASE AllSpawned
  BY <1>4 DEF AllSpawned
<1>5. CASE JoinWorkers
  BY <1>5 DEF JoinWorkers
<1>6. CASE TallyReports
  <2>1. \A t \in Threads : pc[t] \notin Executing
    BY <1>6 DEF TallyReports
  <2>2. \A r \in Rules : runs[r] = 1
    <3>1. nextIdx > RuleCount
      BY <1>6 DEF TallyReports
    <3>2. \A r \in Rules : r < nextIdx
      BY <3>1
    <3>3. \A r \in Rules : r < nextIdx =>
             runs[r] = 1 \/ \E t \in Threads : pc[t] \in Executing /\ mine[t] = r
      BY DEF Claims
    <3> HIDE DEF Typed, TypeOK, Phases, Claims, Batch, Executing, Rules
    <3> QED
      BY <2>1, <3>2, <3>3
  <2>3. tally' = Tally(reports') /\ batch' = "reported" /\ pc' = [pc EXCEPT ![Main] = "free"]
    BY <1>6 DEF TallyReports
  <2> QED
    BY <1>6, <2>2, <2>3 DEF TallyReports
<1>7. CASE FreeSnapshots
  BY <1>7 DEF FreeSnapshots
<1>8. CASE RegisterFromFunction
  BY <1>8 DEF RegisterFromFunction
<1>9. ASSUME NEW w \in Workers, StartWorker(w) PROVE Batch'
  BY <1>9 DEF StartWorker
<1>10. ASSUME NEW w \in Workers, StartFails(w) PROVE Batch'
  BY <1>10 DEF StartFails
<1>11. ASSUME NEW w \in Workers, AddWorkerStats(w) PROVE Batch'
  BY <1>11 DEF AddWorkerStats
<1>12. ASSUME NEW w \in Workers, InitWorker(w) PROVE Batch'
  BY <1>12 DEF InitWorker
<1>13. ASSUME NEW w \in Workers, InitFails(w) PROVE Batch'
  BY <1>13 DEF InitFails
<1>14. ASSUME NEW w \in Workers, ReleaseWorker(w) PROVE Batch'
  BY <1>14 DEF ReleaseWorker
<1>15. ASSUME NEW t \in Threads, Acquire(t) PROVE Batch'
  BY <1>15 DEF Acquire
<1>16. ASSUME NEW t \in Threads, ClaimRule(t) PROVE Batch'
  BY <1>16 DEF ClaimRule
<1>17. ASSUME NEW t \in Threads, EvaluateCondition(t) PROVE Batch'
  BY <1>17 DEF EvaluateCondition
<1>18. ASSUME NEW t \in Threads, FunctionCallback(t) PROVE Batch'
  BY <1>18 DEF FunctionCallback
<1>19. ASSUME NEW t \in Threads, Decide(t) PROVE Batch'
  BY <1>19 DEF Decide
<1>20. ASSUME NEW t \in Threads, TriggerAction(t) PROVE Batch'
  BY <1>20 DEF TriggerAction
<1>21. ASSUME NEW t \in Threads, RegisterFromAction(t) PROVE Batch'
  BY <1>21 DEF RegisterFromAction
<1>22. ASSUME NEW t \in Threads, RecordReport(t) PROVE Batch'
  BY <1>22 DEF RecordReport
<1>23. CASE UNCHANGED vars
  BY <1>23 DEF vars
<1> QED
  BY <1>1, <1>2, <1>3, <1>4, <1>5, <1>6, <1>7, <1>8, <1>9, <1>10, <1>11, <1>12, <1>13, <1>14, <1>15, <1>16, <1>17, <1>18, <1>19, <1>20, <1>21, <1>22, <1>23
  DEF Next, Setup, Finish, PerWorker, WorkerLife, Execute, Returned

LEMMA JudgedInit == Init => Judged
  BY NameAssumption DEF Init, Judged, Evaluated, Executing, Threads, Status, NotRun

\* A step that evaluates no condition and moves no verdict keeps the verdicts.
LEMMA JudgedFrame ==
  ASSUME Judged,
         UNCHANGED <<mine, status, reports>>,
         functions \subseteq functions',
         snapshot'.functions = snapshot.functions,
         \A t \in Threads : pc'[t] \in Evaluated => pc[t] \in Evaluated
  PROVE  Judged'
  BY DEF Judged, RightVerdict

LEMMA JudgedStep == Typed /\ Phases /\ Claims /\ Judged /\ [Next]_vars => Judged'
<1> SUFFICES ASSUME Typed, Phases, Claims, Judged, [Next]_vars PROVE Judged'
  OBVIOUS
<1> USE SizeAssumption, NameAssumption, RuleAssumption DEF Typed, TypeOK, Threads, Goto, Evaluated, Executing, batchVars, statVars,
        vmVars, poolVars, runVars
<1>1. CASE TakeSnapshot
  <2>1. \A t \in Threads : pc'[t] \notin Evaluated
    BY <1>1 DEF TakeSnapshot, Phases, WorkerLabels
  <2>2. \A r \in Rules : reports'[r] \notin Status
    BY <1>1 DEF TakeSnapshot, Claims, Rules, Status, NotRun
  <2>3. functions' = functions
    BY <1>1 DEF TakeSnapshot
  <2> QED
    BY <2>1, <2>2, <2>3 DEF Judged
<1>2. CASE BuildArrays
  BY <1>2, JudgedFrame DEF BuildArrays
<1>3. CASE RefuseBatch
  BY <1>3, JudgedFrame DEF RefuseBatch
<1>4. CASE AllSpawned
  BY <1>4, JudgedFrame DEF AllSpawned
<1>5. CASE JoinWorkers
  BY <1>5, JudgedFrame DEF JoinWorkers
<1>6. CASE TallyReports
  BY <1>6, JudgedFrame DEF TallyReports
<1>7. CASE FreeSnapshots
  BY <1>7, JudgedFrame DEF FreeSnapshots
<1>8. CASE RegisterFromFunction
  BY <1>8, JudgedFrame DEF RegisterFromFunction
<1>9. ASSUME NEW w \in Workers, StartWorker(w) PROVE Judged'
  BY <1>9, JudgedFrame DEF StartWorker
<1>10. ASSUME NEW w \in Workers, StartFails(w) PROVE Judged'
  BY <1>10, JudgedFrame DEF StartFails
<1>11. ASSUME NEW w \in Workers, AddWorkerStats(w) PROVE Judged'
  BY <1>11, JudgedFrame DEF AddWorkerStats
<1>12. ASSUME NEW w \in Workers, InitWorker(w) PROVE Judged'
  BY <1>12, JudgedFrame DEF InitWorker
<1>13. ASSUME NEW w \in Workers, InitFails(w) PROVE Judged'
  BY <1>13, JudgedFrame DEF InitFails
<1>14. ASSUME NEW w \in Workers, ReleaseWorker(w) PROVE Judged'
  BY <1>14, JudgedFrame DEF ReleaseWorker
<1>15. ASSUME NEW t \in Threads, Acquire(t) PROVE Judged'
  BY <1>15, JudgedFrame DEF Acquire
<1>16. ASSUME NEW t \in Threads, ClaimRule(t) PROVE Judged'
  <2>1. \A u \in Threads : pc'[u] \in Evaluated =>
           pc[u] \in Evaluated /\ mine'[u] = mine[u]
    BY <1>16 DEF ClaimRule
  <2>2. UNCHANGED <<status, reports, functions, snapshot>>
    BY <1>16 DEF ClaimRule
  <2> QED
    BY <2>1, <2>2 DEF Judged, RightVerdict
<1>17. ASSUME NEW t \in Threads, EvaluateCondition(t) PROVE Judged'
  <2>1. /\ UNCHANGED <<mine, reports, functions, snapshot>>
        /\ \A u \in Threads : u # t => pc'[u] = pc[u] /\ status'[u] = status[u]
    BY <1>17 DEF EvaluateCondition
  <2>2. \/ status'[t] = IF Calls[mine[t]] \in VisibleFunctions(t) \cup {NoName}
                          THEN Verdict[mine[t]] ELSE "PASSED"
        \/ status'[t] = "ERROR"
    BY <1>17 DEF EvaluateCondition
  <2>3. snapshot.functions = Initial => Initial \subseteq VisibleFunctions(t)
    BY DEF Judged, VisibleFunctions
  <2>4. RightVerdict(mine[t], status'[t])
    BY <2>2, <2>3 DEF RightVerdict
  <2> QED
    BY <2>1, <2>4 DEF Judged, RightVerdict
<1>18. ASSUME NEW t \in Threads, FunctionCallback(t) PROVE Judged'
  BY <1>18, JudgedFrame DEF FunctionCallback
<1>19. ASSUME NEW t \in Threads, Decide(t) PROVE Judged'
  BY <1>19, JudgedFrame DEF Decide
<1>20. ASSUME NEW t \in Threads, TriggerAction(t) PROVE Judged'
  BY <1>20, JudgedFrame DEF TriggerAction
<1>21. ASSUME NEW t \in Threads, RegisterFromAction(t) PROVE Judged'
  BY <1>21, JudgedFrame DEF RegisterFromAction
<1>22. ASSUME NEW t \in Threads, RecordReport(t) PROVE Judged'
  <2> DEFINE q == mine[t]
  <2>1. /\ UNCHANGED <<mine, status, functions, snapshot>>
        /\ pc[t] = "record"
        /\ \A u \in Threads : u # t => pc'[u] = pc[u]
        /\ pc'[t] = "claim"
    BY <1>22 DEF RecordReport
  <2>2. \E v \in {status[t], "ERROR", NoReport} : reports' = [reports EXCEPT ![q] = v]
    BY <1>22 DEF RecordReport
  <2>3. q \in Rules
    BY <2>1 DEF Held
  <2>4. RightVerdict(q, status[t])
    BY <2>1 DEF Judged
  <2>5. \A r \in Rules : reports'[r] \in Status =>
           reports'[r] = reports[r] \/ (r = q /\ reports'[r] \in {status[t], "ERROR"})
    <3>1. PICK v \in {status[t], "ERROR", NoReport} : reports' = [reports EXCEPT ![q] = v]
      BY <2>2
    <3>2. reports'[q] = v /\ \A r \in Rules : r # q => reports'[r] = reports[r]
      BY <2>3, <3>1
    <3>3. v \in Status => v \in {status[t], "ERROR"}
      BY NameAssumption
    <3> TAKE r \in Rules
    <3>4. CASE r = q
      BY <3>2, <3>3, <3>4
    <3>5. CASE r # q
      BY <3>2, <3>5
    <3> QED
      BY <3>4, <3>5
  <2> QED
    BY <2>1, <2>4, <2>5 DEF Judged, RightVerdict
<1>23. CASE UNCHANGED vars
  BY <1>23, JudgedFrame DEF vars
<1> QED
  BY <1>1, <1>2, <1>3, <1>4, <1>5, <1>6, <1>7, <1>8, <1>9, <1>10, <1>11, <1>12, <1>13, <1>14, <1>15, <1>16, <1>17, <1>18, <1>19, <1>20, <1>21, <1>22, <1>23
  DEF Next, Setup, Finish, PerWorker, WorkerLife, Execute, Returned

-----------------------------------------------------------------------------
IInv == Typed /\ Phases /\ Claims /\ Batch /\ Judged

LEMMA Inductive == Spec => []IInv
<1>1. Init => IInv
  BY TypeInit, PhasesInit, ClaimsInit, BatchAtInit, JudgedInit DEF IInv
<1>2. IInv /\ [Next]_vars => IInv'
  BY TypeStep, PhasesStep, ClaimsStep, BatchStep, JudgedStep DEF IInv
<1> QED
  BY <1>1, <1>2, PTL DEF Spec

\* For any number of threads: no rule is executed twice and no two threads hold
\* the same rule.
THEOREM ClaimedOnce == Spec => []NoRuleRunsTwice
<1>1. IInv => NoRuleRunsTwice
  BY DEF IInv, Claims, NoRuleRunsTwice
<1> QED
  BY <1>1, Inductive, PTL

\* A reported batch has executed all its rules, for any rule set and whatever
\* allocation or thread creation failed.
THEOREM Completeness == Spec => []BatchIsComplete
<1>1. IInv => BatchIsComplete
  BY DEF IInv, Claims, Batch, BatchIsComplete
<1> QED
  BY <1>1, Inductive, PTL

\* The lists that workers traverse without a lock are never freed under them.
THEOREM SnapshotSafety == Spec => []SnapshotOutlivesWorkers
<1>1. IInv => SnapshotOutlivesWorkers
  BY DEF IInv, Phases, WorkerLabels, Executing, SnapshotOutlivesWorkers
<1> QED
  BY <1>1, Inductive, PTL

\* With a complete copy, every rule whose function was registered before the
\* call reports its own verdict, on whichever thread it ran.
THEOREM RegistrationsSeen == Spec => []EarlyRegistrationsAreSeen
<1>1. IInv => EarlyRegistrationsAreSeen
  BY DEF IInv, Judged, RightVerdict, EarlyRegistrationsAreSeen
<1> QED
  BY <1>1, Inductive, PTL

-----------------------------------------------------------------------------
(***************************************************************************)
(* The statistics.                                                         *)
(***************************************************************************)

\* Which thread each rule of S is attributed to, such that total is the number of
\* those of the caller and of the workers in ad, and part[w] that of worker w.
Attributed(S, total, part, cr, ad) ==
  \E by \in [Rules -> Threads] :
    /\ \A r \in S : by[r] \in {Main} \cup cr
    /\ total = Cardinality({r \in S : by[r] \in {Main} \cup ad})
    /\ \A w \in Workers : part[w] = Cardinality({r \in S : by[r] = w})

Ran == {r \in Rules : runs[r] = 1}
Executions == [w \in Workers |-> vmStats[w].executions]
Triggered == [w \in Workers |-> vmStats[w].actions]

\* Before the action of its rule a thread has not triggered it, and an action
\* belongs to a finished rule or to one that is about to be recorded.
Acting ==
  /\ \A t \in Threads :
       pc[t] \in Executing \ {"actRegister", "record"} => mine[t] \notin acted
  /\ \A r \in acted :
       runs[r] = 1 \/ \E t \in Threads : pc[t] \in {"actRegister", "record"} /\ mine[t] = r

\* Where the statistics are: with the caller, with a worker, or in its argument.
Accounted ==
  /\ Attributed(Ran, stats.executions, Executions, created, added)
  /\ Attributed(acted, stats.actions, Triggered, created, added)
  /\ \A w \in Workers : pc[w] = "done" => argStats[w] = vmStats[w]
  /\ \A w \in Workers : pc[w] \in {"unstarted", "init"} =>
       vmStats[w] = NoStats /\ argStats[w] = NoStats
  /\ pc[Main] \notin {"aggregate", "free", "returned"} => added = {}
  /\ batch = "reported" => added = created

\* A set of rules is finite, and so is a part of it.
LEMMA RulesAreFinite ==
  ASSUME NEW S \in SUBSET Rules
  PROVE  IsFiniteSet(S) /\ Cardinality(S) \in Nat
<1>1. IsFiniteSet(Rules)
  BY SizeAssumption, FS_Interval DEF Rules
<1> QED
  BY <1>1, FS_Subset, FS_CardinalityType

\* A rule more is attributed to the thread that has counted it.
LEMMA AttributeOne ==
  ASSUME NEW S \in SUBSET Rules, NEW q \in Rules \ S, NEW total, NEW part, NEW cr, NEW ad,
         NEW t \in Threads, t \in {Main} \cup (cr \ ad),
         DOMAIN part = Workers, ad \subseteq Workers,
         Attributed(S, total, part, cr, ad)
  PROVE  /\ t = Main => Attributed(S \cup {q}, total + 1, part, cr, ad)
         /\ t # Main => Attributed(S \cup {q}, total, [part EXCEPT ![t] = @ + 1], cr, ad)
<1>1. PICK by \in [Rules -> Threads] :
        /\ \A r \in S : by[r] \in {Main} \cup cr
        /\ total = Cardinality({r \in S : by[r] \in {Main} \cup ad})
        /\ \A w \in Workers : part[w] = Cardinality({r \in S : by[r] = w})
  BY DEF Attributed
<1> DEFINE after == [by EXCEPT ![q] = t]
           more == S \cup {q}
<1>2. /\ after \in [Rules -> Threads] /\ after[q] = t
      /\ \A r \in S : after[r] = by[r]
  OBVIOUS
<1>3. \A T : {r \in more : after[r] \in T} =
               IF t \in T THEN {r \in S : by[r] \in T} \cup {q} ELSE {r \in S : by[r] \in T}
  BY <1>2
<1>4. \A T : Cardinality({r \in more : after[r] \in T}) =
               IF t \in T THEN Cardinality({r \in S : by[r] \in T}) + 1
                          ELSE Cardinality({r \in S : by[r] \in T})
  <2> TAKE T
  <2> DEFINE old == {r \in S : by[r] \in T}
  <2>1. IsFiniteSet(old) /\ q \notin old
    BY RulesAreFinite
  <2>2. Cardinality(old \cup {q}) = Cardinality(old) + 1
    BY <2>1, FS_AddElement
  <2> QED
    BY <1>3, <2>2
<1>5. \A w : Cardinality({r \in more : after[r] = w}) =
               IF t = w THEN Cardinality({r \in S : by[r] = w}) + 1
                        ELSE Cardinality({r \in S : by[r] = w})
  <2> TAKE w
  <2>1. /\ {r \in more : after[r] = w} = {r \in more : after[r] \in {w}}
        /\ {r \in S : by[r] = w} = {r \in S : by[r] \in {w}}
    OBVIOUS
  <2> HIDE DEF after, more
  <2> QED
    BY <2>1, <1>4, ZenonT(60)
<1>6. \A r \in more : after[r] \in {Main} \cup cr
  BY <1>1, <1>2
<1> HIDE DEF after
<1>7. ASSUME t = Main PROVE Attributed(more, total + 1, part, cr, ad)
  <2>1. Cardinality({r \in more : after[r] \in {Main} \cup ad}) = total + 1
    BY <1>1, <1>4, <1>7
  <2>2. \A w \in Workers : part[w] = Cardinality({r \in more : after[r] = w})
    BY <1>1, <1>5, <1>7, NameAssumption
  <2> HIDE DEF more
  <2> QED
    BY <1>2, <1>6, <2>1, <2>2 DEF Attributed
<1>8. ASSUME t # Main PROVE Attributed(more, total, [part EXCEPT ![t] = @ + 1], cr, ad)
  <2> DEFINE parts == [part EXCEPT ![t] = @ + 1]
  <2>1. Cardinality({r \in more : after[r] \in {Main} \cup ad}) = total
    BY <1>1, <1>4, <1>8
  <2>2. \A w \in Workers : parts[w] = IF w = t THEN part[w] + 1 ELSE part[w]
    OBVIOUS
  <2>3. \A w \in Workers : parts[w] = Cardinality({r \in more : after[r] = w})
    <3> HIDE DEF more, parts
    <3> QED
      BY <1>1, <1>5, <2>2, ZenonT(60)
  <2> HIDE DEF more, parts
  <2>4. Attributed(more, total, parts, cr, ad)
    BY <1>2, <1>6, <2>1, <2>3 DEF Attributed
  <2> QED
    BY <2>4 DEF parts
<1> QED
  BY <1>7, <1>8

\* The part of a worker is added to the total.
LEMMA AttributeWorker ==
  ASSUME NEW S \in SUBSET Rules, NEW total, NEW part, NEW cr, NEW ad,
         NEW w \in Workers, w \notin ad, ad \subseteq Workers,
         Attributed(S, total, part, cr, ad)
  PROVE  Attributed(S, total + part[w], part, cr, ad \cup {w})
<1>1. PICK by \in [Rules -> Threads] :
        /\ \A r \in S : by[r] \in {Main} \cup cr
        /\ total = Cardinality({r \in S : by[r] \in {Main} \cup ad})
        /\ \A u \in Workers : part[u] = Cardinality({r \in S : by[r] = u})
  BY DEF Attributed
<1> DEFINE a == {r \in S : by[r] \in {Main} \cup ad}
           b == {r \in S : by[r] = w}
<1>2. a \cap b = {} /\ {r \in S : by[r] \in {Main} \cup (ad \cup {w})} = a \cup b
  BY NameAssumption
<1>3. /\ IsFiniteSet(a) /\ IsFiniteSet(b)
      /\ Cardinality(a) \in Nat /\ Cardinality(b) \in Nat
  BY RulesAreFinite
<1>4. Cardinality(a \cup b) = Cardinality(a) + Cardinality(b)
  <2> HIDE DEF a, b
  <2>1. Cardinality(a \cap b) = 0
    BY <1>2, FS_EmptySet
  <2>2. Cardinality(a \cup b) = Cardinality(a) + Cardinality(b) - Cardinality(a \cap b)
    BY <1>3, FS_Union, Zenon
  <2> QED
    BY <1>3, <2>1, <2>2
<1> QED
  BY <1>1, <1>2, <1>4 DEF Attributed

\* All parts together count all the rules.
LEMMA AttributeAll ==
  ASSUME NEW S \in SUBSET Rules, NEW total, NEW part, NEW cr,
         Attributed(S, total, part, cr, cr)
  PROVE  total = Cardinality(S)
<1>1. PICK by \in [Rules -> Threads] :
        /\ \A r \in S : by[r] \in {Main} \cup cr
        /\ total = Cardinality({r \in S : by[r] \in {Main} \cup cr})
  BY DEF Attributed
<1>2. {r \in S : by[r] \in {Main} \cup cr} = S
  BY <1>1
<1> QED
  BY <1>1, <1>2

\* More threads may be started at any time.
LEMMA AttributeMore ==
  ASSUME NEW S, NEW total, NEW part, NEW cr, NEW more, NEW ad,
         cr \subseteq more, Attributed(S, total, part, cr, ad)
  PROVE  Attributed(S, total, part, more, ad)
  BY DEF Attributed

-----------------------------------------------------------------------------
LEMMA ActingInit == Init => Acting
  BY DEF Init, Acting, Executing, Threads

\* A step that triggers and finishes nothing, and claims no rule.
LEMMA ActingFrame ==
  ASSUME Acting, UNCHANGED <<mine, runs, acted>>,
         \A t \in Threads :
           /\ pc'[t] \in Executing \ {"actRegister", "record"} =>
                pc[t] \in Executing \ {"actRegister", "record"}
           /\ pc[t] \in {"actRegister", "record"} => pc'[t] \in {"actRegister", "record"}
  PROVE  Acting'
  BY DEF Acting

LEMMA ActingStep == Typed /\ Phases /\ Claims /\ Acting /\ [Next]_vars => Acting'
<1> SUFFICES ASSUME Typed, Phases, Claims, Acting, [Next]_vars PROVE Acting'
  OBVIOUS
<1> USE NameAssumption DEF Typed, TypeOK, Threads, Goto, Executing, batchVars, statVars, vmVars,
        poolVars, runVars
<1>1. CASE Setup \/ Finish
  BY <1>1, ActingFrame DEF Setup, TakeSnapshot, BuildArrays, RefuseBatch, AllSpawned, Finish, JoinWorkers,
     TallyReports, FreeSnapshots
<1>2. CASE RegisterFromFunction
  BY <1>2, ActingFrame DEF RegisterFromFunction
<1>3. ASSUME NEW w \in Workers, PerWorker(w) \/ WorkerLife(w) PROVE Acting'
  <2>1. CASE StartWorker(w)
    BY <2>1, ActingFrame DEF StartWorker, Phases
  <2> QED
    BY <1>3, <2>1, ActingFrame DEF PerWorker, StartFails, AddWorkerStats, WorkerLife, InitWorker,
       InitFails, ReleaseWorker
<1>4. ASSUME NEW t \in Threads, Acquire(t) PROVE Acting'
  BY <1>4, ActingFrame DEF Acquire
<1>5. ASSUME NEW t \in Threads, ClaimRule(t) PROVE Acting'
  <2>1. CASE nextIdx \in Rules
    <3>1. /\ mine' = [mine EXCEPT ![t] = nextIdx] /\ pc' = [pc EXCEPT ![t] = "call"]
          /\ pc[t] = "claim" /\ UNCHANGED <<runs, acted>>
      BY <1>5, <2>1 DEF ClaimRule
    <3>2. nextIdx \notin acted
      <4>1. runs[nextIdx] = 0
        BY <2>1 DEF Claims
      <4>2. \A u \in Threads : pc[u] \in Executing => mine[u] < nextIdx
        BY DEF Claims
      <4> QED
        BY <4>1, <4>2 DEF Acting
    <3> QED
      BY <3>1, <3>2 DEF Acting
  <2>2. CASE nextIdx \notin Rules
    <3>1. UNCHANGED <<mine, runs, acted>> /\ pc[t] = "claim"
          /\ pc' = [pc EXCEPT ![t] = IF t = Main THEN "join" ELSE "release"]
      BY <1>5, <2>2 DEF ClaimRule
    <3> QED
      BY <3>1, ActingFrame
  <2> QED
    BY <2>1, <2>2
<1>6. ASSUME NEW t \in Threads, EvaluateCondition(t) PROVE Acting'
  BY <1>6, ActingFrame DEF EvaluateCondition
<1>7. ASSUME NEW t \in Threads, FunctionCallback(t) \/ Decide(t) PROVE Acting'
  BY <1>7, ActingFrame DEF FunctionCallback, Decide
<1>8. ASSUME NEW t \in Threads, TriggerAction(t) PROVE Acting'
  <2>1. /\ pc[t] = "trigger" /\ UNCHANGED <<mine, runs>>
        /\ acted' \in {acted, acted \cup {mine[t]}}
        /\ \E l \in {"actRegister", "record"} : pc' = [pc EXCEPT ![t] = l]
    BY <1>8 DEF TriggerAction
  <2>2. \A u \in Threads : u # t /\ pc[u] \in Executing => mine[u] # mine[t]
    BY <2>1 DEF Claims
  <2> QED
    BY <2>1, <2>2 DEF Acting
<1>9. ASSUME NEW t \in Threads, RegisterFromAction(t) PROVE Acting'
  BY <1>9, ActingFrame DEF RegisterFromAction
<1>10. ASSUME NEW t \in Threads, RecordReport(t) PROVE Acting'
  <2>1. /\ pc[t] = "record" /\ UNCHANGED <<mine, acted>>
        /\ pc' = [pc EXCEPT ![t] = "claim"]
        /\ runs' = [runs EXCEPT ![mine[t]] = @ + 1]
    BY <1>10 DEF RecordReport
  <2>2. mine[t] \in Rules /\ runs[mine[t]] = 0
    BY <2>1 DEF Claims
  <2> QED
    BY <2>1, <2>2 DEF Acting
<1>11. CASE UNCHANGED vars
  BY <1>11, ActingFrame DEF vars
<1> QED
  BY <1>1, <1>2, <1>3, <1>4, <1>5, <1>6, <1>7, <1>8, <1>9, <1>10, <1>11 DEF Next, Execute, Returned

-----------------------------------------------------------------------------
LEMMA AccountedInit == Init => Accounted
<1> SUFFICES ASSUME Init PROVE Accounted
  OBVIOUS
<1>1. Ran = {} /\ acted = {}
  BY DEF Init, Ran
<1>2. /\ Executions = [w \in Workers |-> 0] /\ Triggered = [w \in Workers |-> 0]
      /\ stats.executions = 0 /\ stats.actions = 0
  BY DEF Init, Executions, Triggered, NoStats
<1>3. Attributed({}, 0, [w \in Workers |-> 0], created, added)
  <2> DEFINE by == [r \in Rules |-> Main]
  <2>1. by \in [Rules -> Threads]
    BY DEF Threads
  <2>2. \A A : {r \in {} : by[r] \in A} = {} /\ {r \in {} : by[r] = A} = {}
    OBVIOUS
  <2> HIDE DEF by
  <2> QED
    BY <2>1, <2>2, FS_EmptySet DEF Attributed
<1> QED
  BY <1>1, <1>2, <1>3, NameAssumption DEF Init, Accounted, Threads

\* A step that counts nothing and hands no statistics over.
LEMMA AccountedFrame ==
  ASSUME Accounted, UNCHANGED <<stats, vmStats, argStats, runs, acted, added>>,
         created \subseteq created',
         \A w \in Workers :
           /\ pc'[w] = "done" => pc[w] \in {"done", "init"}
           /\ pc'[w] \in {"unstarted", "init"} => pc[w] \in {"unstarted", "init"},
         pc'[Main] \notin {"aggregate", "free", "returned"} =>
           pc[Main] \notin {"aggregate", "free", "returned"},
         batch' = "reported" => added' = created'
  PROVE  Accounted'
<1>1. UNCHANGED <<Ran, Executions, Triggered>>
  BY DEF Ran, Executions, Triggered
<1>2. /\ Attributed(Ran, stats.executions, Executions, created', added)
      /\ Attributed(acted, stats.actions, Triggered, created', added)
  BY AttributeMore DEF Accounted
<1> QED
  BY <1>1, <1>2 DEF Accounted

\* What counting one thing does to the statistics of the executing thread.
LEMMA CountedByOne ==
  ASSUME Typed, NEW t \in Threads
  PROVE  /\ CountExecution(t) =>
              /\ stats'.actions = stats.actions /\ Triggered' = Triggered
              /\ t = Main => stats'.executions = stats.executions + 1 /\ Executions' = Executions
              /\ t # Main => /\ stats'.executions = stats.executions
                             /\ Executions' = [Executions EXCEPT ![t] = @ + 1]
         /\ CountAction(t) =>
              /\ stats'.executions = stats.executions /\ Executions' = Executions
              /\ t = Main => stats'.actions = stats.actions + 1 /\ Triggered' = Triggered
              /\ t # Main => /\ stats'.actions = stats.actions
                             /\ Triggered' = [Triggered EXCEPT ![t] = @ + 1]
<1>1. stats \in Stats /\ vmStats \in [Workers -> Stats]
  BY DEF Typed, TypeOK
<1>2. CASE t = Main
  BY <1>1, <1>2 DEF CountExecution, CountAction, Executions, Triggered, PlusStats, OneExecution, OneAction, Stats
<1>3. CASE t # Main
  <2>1. t \in Workers
    BY <1>3 DEF Threads
  <2>2. ASSUME CountExecution(t)
        PROVE  /\ stats' = stats /\ Triggered' = Triggered
               /\ Executions' = [Executions EXCEPT ![t] = @ + 1]
    <3>1. stats' = stats /\ vmStats' = [vmStats EXCEPT ![t] = PlusStats(@, OneExecution)]
      BY <1>3, <2>2 DEF CountExecution
    <3>2. \A w \in Workers : /\ vmStats'[w].actions = vmStats[w].actions
                             /\ vmStats'[w].executions = IF w = t THEN vmStats[w].executions + 1
                                                                  ELSE vmStats[w].executions
      BY <1>1, <2>1, <3>1 DEF PlusStats, OneExecution, Stats
    <3> QED
      BY <3>1, <3>2 DEF Executions, Triggered
  <2>3. ASSUME CountAction(t)
        PROVE  /\ stats' = stats /\ Executions' = Executions
               /\ Triggered' = [Triggered EXCEPT ![t] = @ + 1]
    <3>1. stats' = stats /\ vmStats' = [vmStats EXCEPT ![t] = PlusStats(@, OneAction)]
      BY <1>3, <2>3 DEF CountAction
    <3>2. \A w \in Workers : /\ vmStats'[w].executions = vmStats[w].executions
                             /\ vmStats'[w].actions = IF w = t THEN vmStats[w].actions + 1
                                                               ELSE vmStats[w].actions
      BY <1>1, <2>1, <3>1 DEF PlusStats, OneAction, Stats
    <3> QED
      BY <3>1, <3>2 DEF Executions, Triggered
  <2> QED
    BY <1>3, <2>2, <2>3
<1> QED
  BY <1>2, <1>3

\* A thread that executes a rule is the caller or a started worker whose statistics
\* nobody has added up yet.
LEMMA ExecutorCounts ==
  ASSUME Typed, Phases, Accounted, NEW t \in Threads, pc[t] \in Executing
  PROVE  /\ t \in {Main} \cup (created \ added) /\ added \subseteq Workers
         /\ t \in Workers => pc[t] \notin {"done", "unstarted", "init"}
<1>1. t # Main => t \in Workers /\ pc[t] \notin {"done", "unstarted"}
  BY DEF Threads, Executing
<1>2. t # Main => t \in created
  BY <1>1 DEF Phases
<1>3. pc[Main] \in {"aggregate", "free", "returned"} => t \notin created
  BY <1>1 DEF Phases, Executing
<1> QED
  BY <1>1, <1>2, <1>3 DEF Accounted, Typed, TypeOK, Threads, Executing

LEMMA AccountedStep ==
  Typed /\ Phases /\ Claims /\ Batch /\ Acting /\ Accounted /\ [Next]_vars => Accounted'
<1> SUFFICES ASSUME Typed, Phases, Claims, Batch, Acting, Accounted, [Next]_vars PROVE Accounted'
  OBVIOUS
<1> USE NameAssumption DEF Threads, Goto, batchVars, statVars, vmVars, poolVars, runVars
<1>0. /\ pc \in [Threads -> Labels] /\ runs \in [Rules -> Nat] /\ acted \in SUBSET Rules
      /\ added \in SUBSET created /\ created \in SUBSET Workers
      /\ argStats \in [Workers -> Stats] /\ vmStats \in [Workers -> Stats]
  BY DEF Typed, TypeOK
<1>1. CASE TakeSnapshot \/ BuildArrays \/ AllSpawned
  BY <1>0, <1>1, AccountedFrame DEF TakeSnapshot, BuildArrays, AllSpawned, Accounted
<1>2. CASE RefuseBatch
  <2>1. /\ UNCHANGED <<stats, vmStats, argStats, runs, acted, added, created>>
        /\ pc' = [pc EXCEPT ![Main] = "returned"] /\ batch' = "refused"
    BY <1>2 DEF RefuseBatch
  <2> QED
    BY <1>0, <2>1, AccountedFrame
<1>3. CASE JoinWorkers \/ FreeSnapshots
  BY <1>0, <1>3, AccountedFrame DEF JoinWorkers, FreeSnapshots, Accounted
<1>4. CASE TallyReports
  BY <1>0, <1>4, AccountedFrame DEF TallyReports
<1>5. CASE RegisterFromFunction
  BY <1>0, <1>5, AccountedFrame DEF RegisterFromFunction, Accounted
<1>6. ASSUME NEW w \in Workers, StartWorker(w) \/ StartFails(w) \/ InitWorker(w) PROVE Accounted'
  <2>1. pc[Main] # "free" /\ pc[Main] # "returned" => batch # "reported"
    BY DEF Batch
  <2>2. CASE StartWorker(w)
    <3>1. /\ pc[Main] = "spawn" /\ pc' = [pc EXCEPT ![w] = "init"] /\ w \notin created
          /\ UNCHANGED <<stats, vmStats, argStats, runs, acted, added, batch>>
          /\ created' = created \cup {w}
      BY <2>2 DEF StartWorker, Phases
    <3>2. pc[w] = "unstarted"
      BY <3>1 DEF Phases
    <3> QED
      BY <1>0, <2>1, <3>1, <3>2, AccountedFrame
  <2>3. CASE StartFails(w)
    BY <1>0, <2>3, AccountedFrame DEF StartFails, Accounted
  <2>4. CASE InitWorker(w)
    BY <1>0, <2>4, AccountedFrame DEF InitWorker, Accounted
  <2> QED
    BY <1>6, <2>2, <2>3, <2>4
<1>7. ASSUME NEW w \in Workers, AddWorkerStats(w) PROVE Accounted'
  <2>1. /\ pc[Main] = "aggregate" /\ w \in created \ added
        /\ stats' = PlusStats(stats, argStats[w]) /\ added' = added \cup {w}
        /\ UNCHANGED <<pc, created, vmStats, argStats, runs, acted, batch>>
    BY <1>7 DEF AddWorkerStats
  <2>2. argStats[w] = vmStats[w]
    BY <2>1 DEF Phases, Accounted
  <2>3. /\ stats'.executions = stats.executions + Executions[w]
        /\ stats'.actions = stats.actions + Triggered[w]
    BY <2>1, <2>2 DEF PlusStats, Executions, Triggered
  <2>4. /\ Attributed(Ran, stats.executions + Executions[w], Executions, created, added \cup {w})
        /\ Attributed(acted, stats.actions + Triggered[w], Triggered, created, added \cup {w})
    <3>1. Ran \in SUBSET Rules /\ acted \in SUBSET Rules /\ added \subseteq Workers /\ w \notin added
      BY <1>0, <2>1 DEF Ran
    <3> QED
      BY <3>1, AttributeWorker DEF Accounted
  <2>5. UNCHANGED <<Ran, Executions, Triggered>>
    BY <2>1 DEF Ran, Executions, Triggered
  <2>6. batch # "reported"
    BY <2>1 DEF Batch
  <2> QED
    BY <2>1, <2>3, <2>4, <2>5, <2>6 DEF Accounted
<1>8. ASSUME NEW w \in Workers, InitFails(w) PROVE Accounted'
  <2>1. /\ pc[w] = "init" /\ pc' = [pc EXCEPT ![w] = "done"]
        /\ UNCHANGED <<stats, vmStats, argStats, runs, acted, added, created, batch>>
    BY <1>8 DEF InitFails
  <2>2. Attributed(Ran, stats.executions, Executions, created, added)'
    BY <2>1 DEF Ran, Executions, Accounted
  <2>3. Attributed(acted, stats.actions, Triggered, created, added)'
    BY <2>1 DEF Triggered, Accounted
  <2> QED
    BY <1>0, <2>1, <2>2, <2>3 DEF Accounted
<1>9. ASSUME NEW w \in Workers, ReleaseWorker(w) PROVE Accounted'
  <2>1. /\ pc[w] = "release" /\ pc' = [pc EXCEPT ![w] = "done"]
        /\ argStats' = [argStats EXCEPT ![w] = vmStats[w]]
        /\ UNCHANGED <<stats, vmStats, runs, acted, added, created, batch>>
    BY <1>9 DEF ReleaseWorker
  <2>2. Attributed(Ran, stats.executions, Executions, created, added)'
    BY <2>1 DEF Ran, Executions, Accounted
  <2>3. Attributed(acted, stats.actions, Triggered, created, added)'
    BY <2>1 DEF Triggered, Accounted
  <2> QED
    BY <1>0, <2>1, <2>2, <2>3 DEF Accounted
<1>10. ASSUME NEW t \in Threads, Acquire(t) \/ ClaimRule(t) \/ EvaluateCondition(t)
       PROVE  Accounted'
  <2>1. UNCHANGED <<stats, vmStats, argStats, runs, acted, added, created, batch>>
    BY <1>10 DEF Acquire, ClaimRule, EvaluateCondition
  <2>2. \/ pc' = pc
        \/ /\ pc[t] \in Executing \cup {"claim"}
           /\ \E l \in Executing \cup {"join", "release"} : pc' = [pc EXCEPT ![t] = l]
    BY <1>10 DEF Acquire, ClaimRule, EvaluateCondition, Executing
  <2> QED
    BY <1>0, <2>1, <2>2, AccountedFrame DEF Executing, Accounted
<1>11. ASSUME NEW t \in Threads, FunctionCallback(t) \/ Decide(t) \/ RegisterFromAction(t)
       PROVE  Accounted'
  <2>1. UNCHANGED <<stats, vmStats, argStats, runs, acted, added, created, batch>>
    BY <1>11 DEF FunctionCallback, Decide, RegisterFromAction
  <2>2. /\ pc[t] \in Executing
        /\ \E l \in Executing : pc' = [pc EXCEPT ![t] = l]
    BY <1>11 DEF FunctionCallback, Decide, RegisterFromAction, Executing
  <2> QED
    BY <1>0, <2>1, <2>2, AccountedFrame DEF Executing, Accounted
<1>12. ASSUME NEW t \in Threads, TriggerAction(t) PROVE Accounted'
  <2>1. /\ pc[t] = "trigger"
        /\ UNCHANGED <<argStats, runs, added, created, batch>>
        /\ \E l \in {"actRegister", "record"} : pc' = [pc EXCEPT ![t] = l]
        /\ \/ UNCHANGED <<stats, vmStats, acted>>
           \/ CountAction(t) /\ acted' = acted \cup {mine[t]}
    BY <1>12 DEF TriggerAction
  <2>2. CASE UNCHANGED <<stats, vmStats, acted>>
    BY <1>0, <2>1, <2>2, AccountedFrame DEF Accounted
  <2>3. CASE CountAction(t) /\ acted' = acted \cup {mine[t]}
    <3>1. pc[t] \in Executing /\ mine[t] \in Rules \ acted
      BY <2>1 DEF Executing, Claims, Acting
    <3>2. /\ t \in {Main} \cup (created \ added) /\ added \subseteq Workers
          /\ t \in Workers => pc[t] \notin {"done", "unstarted", "init"}
      BY <3>1, ExecutorCounts
    <3>3. /\ stats'.executions = stats.executions /\ Executions' = Executions /\ Ran' = Ran
          /\ t = Main => stats'.actions = stats.actions + 1 /\ Triggered' = Triggered
          /\ t # Main => /\ stats'.actions = stats.actions
                         /\ Triggered' = [Triggered EXCEPT ![t] = @ + 1]
      BY <2>1, <2>3, CountedByOne DEF Ran
    <3>4. DOMAIN Triggered = Workers
      BY DEF Triggered
    <3>5. /\ t = Main => Attributed(acted', stats.actions + 1, Triggered, created, added)
          /\ t # Main => Attributed(acted', stats.actions, [Triggered EXCEPT ![t] = @ + 1], created, added)
      BY <1>0, <2>3, <3>1, <3>2, <3>4, AttributeOne DEF Accounted
    <3>6. Attributed(acted, stats.actions, Triggered, created, added)'
      BY <2>1, <3>3, <3>5
    <3>7. Attributed(Ran, stats.executions, Executions, created, added)'
      BY <2>1, <3>3 DEF Accounted
    <3>8. \A w \in Workers : w # t => vmStats'[w] = vmStats[w]
      BY <1>0, <2>3 DEF CountAction
    <3> QED
      BY <1>0, <2>1, <3>2, <3>6, <3>7, <3>8 DEF Accounted
  <2> QED
    BY <2>1, <2>2, <2>3
<1>13. ASSUME NEW t \in Threads, RecordReport(t) PROVE Accounted'
  <2>1. /\ pc[t] = "record" /\ CountExecution(t)
        /\ runs' = [runs EXCEPT ![mine[t]] = @ + 1]
        /\ UNCHANGED <<argStats, acted, added, created, batch>>
        /\ pc' = [pc EXCEPT ![t] = "claim"]
    BY <1>13 DEF RecordReport
  <2>2. pc[t] \in Executing /\ mine[t] \in Rules /\ runs[mine[t]] = 0
    BY <2>1 DEF Executing, Claims
  <2>3. /\ t \in {Main} \cup (created \ added) /\ added \subseteq Workers
        /\ t \in Workers => pc[t] \notin {"done", "unstarted", "init"}
    BY <2>2, ExecutorCounts
  <2>4. Ran \in SUBSET Rules /\ mine[t] \in Rules \ Ran /\ Ran' = Ran \cup {mine[t]}
    BY <1>0, <2>1, <2>2 DEF Ran
  <2>5. /\ stats'.actions = stats.actions /\ Triggered' = Triggered
        /\ t = Main => stats'.executions = stats.executions + 1 /\ Executions' = Executions
        /\ t # Main => /\ stats'.executions = stats.executions
                       /\ Executions' = [Executions EXCEPT ![t] = @ + 1]
    BY <2>1, CountedByOne
  <2>6. DOMAIN Executions = Workers
    BY DEF Executions
  <2>7. /\ t = Main => Attributed(Ran', stats.executions + 1, Executions, created, added)
        /\ t # Main => Attributed(Ran', stats.executions, [Executions EXCEPT ![t] = @ + 1], created, added)
    BY <2>3, <2>4, <2>6, AttributeOne DEF Accounted
  <2>8. Attributed(Ran, stats.executions, Executions, created, added)'
    BY <2>1, <2>5, <2>7
  <2>9. Attributed(acted, stats.actions, Triggered, created, added)'
    BY <2>1, <2>5 DEF Accounted
  <2>10. \A w \in Workers : w # t => vmStats'[w] = vmStats[w]
    BY <1>0, <2>1 DEF CountExecution
  <2> QED
    BY <1>0, <2>1, <2>3, <2>8, <2>9, <2>10 DEF Accounted
<1>14. CASE UNCHANGED vars
  BY <1>0, <1>14, AccountedFrame DEF vars, Accounted
<1> QED
  BY <1>1, <1>2, <1>3, <1>4, <1>5, <1>6, <1>7, <1>8, <1>9, <1>10, <1>11, <1>12, <1>13, <1>14
  DEF Next, Setup, Finish, PerWorker, WorkerLife, Execute, Returned

\* The statistics of the batch, for any number of threads and whatever failed.
THEOREM StatisticsConserved == Spec => []StatsAreConserved
<1> DEFINE Sums == Acting /\ Accounted
<1>1. Init => Sums
  BY ActingInit, AccountedInit
<1>2. IInv /\ Sums /\ [Next]_vars => Sums'
  BY ActingStep, AccountedStep DEF IInv
<1>3. IInv /\ Sums => StatsAreConserved
  <2> SUFFICES ASSUME IInv, Sums, batch = "reported"
               PROVE  stats = [executions |-> RuleCount, actions |-> Cardinality(acted)]
    BY DEF StatsAreConserved
  <2>1. added = created /\ Ran = Rules /\ acted \in SUBSET Rules /\ stats \in Stats
    BY DEF IInv, Accounted, Batch, Ran, Typed, TypeOK
  <2>2. Attributed(Rules, stats.executions, Executions, created, created)
    BY <2>1 DEF Accounted
  <2>3. Attributed(acted, stats.actions, Triggered, created, created)
    BY <2>1 DEF Accounted
  <2>4. stats.executions = Cardinality(Rules) /\ stats.actions = Cardinality(acted)
    BY <2>1, <2>2, <2>3, AttributeAll
  <2>5. Cardinality(Rules) = RuleCount
    BY SizeAssumption, FS_Interval DEF Rules
  <2> QED
    BY <2>1, <2>4, <2>5 DEF Stats
<1> QED
  BY <1>1, <1>2, <1>3, Inductive, PTL DEF Spec

-----------------------------------------------------------------------------
(***************************************************************************)
(* Termination: the threads run out of steps, and never wait for each      *)
(* other in a circle.                                                      *)
(***************************************************************************)
Unclaimed == {r \in Rules : r >= nextIdx}

\* How far a thread is from the end of the call when it claims no further rule.
Level(label) ==
  CASE label = "unstarted" -> 14
    [] label \in {"snapshot", "init"} -> 13
    [] label = "arrays" -> 12
    [] label = "spawn" -> 11
    [] label = "call" -> 10
    [] label = "callback" -> 9
    [] label = "fnRegister" -> 8
    [] label = "decided" -> 7
    [] label = "trigger" -> 6
    [] label = "actRegister" -> 5
    [] label = "record" -> 4
    [] label = "claim" -> 3
    [] label \in {"join", "release"} -> 2
    [] label = "aggregate" -> 1
    [] label = "free" -> 0
    [] OTHER -> -1

Descent ==
  \/ Unclaimed' \subseteq Unclaimed /\ Unclaimed' # Unclaimed
  \/ /\ Unclaimed' = Unclaimed
     /\ \E t \in Threads : pc' = [pc EXCEPT ![t] = pc'[t]] /\ Level(pc'[t]) < Level(pc[t])
  \/ /\ UNCHANGED <<nextIdx, pc>>
     /\ \/ unstarted' \subseteq unstarted /\ unstarted' # unstarted /\ UNCHANGED <<added, lock>>
        \/ added \subseteq added' /\ added' # added /\ UNCHANGED <<unstarted, lock>>
        \/ lock = Free /\ lock' # Free /\ UNCHANGED <<unstarted, added>>

LEMMA GotoDescends ==
  ASSUME Typed, NEW t \in Threads, NEW label, Goto(t, label),
         Level(label) < Level(pc[t]), nextIdx' = nextIdx
  PROVE  Descent
<1>1. pc' = [pc EXCEPT ![t] = pc'[t]] /\ pc'[t] = label
  BY DEF Goto, Typed, TypeOK
<1>2. Unclaimed' = Unclaimed
  BY DEF Unclaimed
<1> QED
  BY <1>1, <1>2 DEF Descent

LEMMA ClaimDescends ==
  ASSUME Typed, NEW t \in Threads, ClaimRule(t)
  PROVE  Descent
<1>1. nextIdx \in Nat /\ nextIdx' = nextIdx + 1
  BY DEF ClaimRule, Typed, TypeOK
<1>2. CASE nextIdx \in Rules
  <2>1. nextIdx \in Unclaimed /\ nextIdx \notin Unclaimed'
    BY <1>1, <1>2 DEF Unclaimed
  <2>2. Unclaimed' \subseteq Unclaimed
    BY <1>1 DEF Unclaimed, Rules
  <2> QED
    BY <2>1, <2>2 DEF Descent
<1>3. CASE nextIdx \notin Rules
  <2>1. Unclaimed' = Unclaimed
    BY <1>1, <1>3, SizeAssumption DEF Unclaimed, Rules
  <2>2. pc[t] = "claim" /\ \E label \in {"join", "release"} : pc' = [pc EXCEPT ![t] = label]
    BY <1>3 DEF ClaimRule, Goto
  <2>3. pc' = [pc EXCEPT ![t] = pc'[t]] /\ pc'[t] \in {"join", "release"}
    BY <2>2 DEF Typed, TypeOK
  <2>4. Level(pc'[t]) < Level(pc[t])
    BY <2>2, <2>3 DEF Level
  <2> QED
    BY <2>1, <2>3, <2>4 DEF Descent
<1> QED
  BY <1>2, <1>3

\* Every step of the call claims a rule nobody had claimed, brings one thread nearer
\* to its end, settles a worker that could not be started, adds up the
\* statistics of one more worker, or takes the lock: whatever the threads, the rules and
\* their callbacks, there is no infinite sequence of steps.
THEOREM StepsDescend == Spec => [][Descent]_vars
<1>1. Typed /\ Phases /\ [Next]_vars => [Descent]_vars
  <2> SUFFICES ASSUME Typed, Phases, Next, ~UNCHANGED vars PROVE Descent
    OBVIOUS
  <2>0. Main \in Threads /\ Workers \subseteq Threads
    BY DEF Threads
  <2>1. CASE TakeSnapshot
    BY <2>0, <2>1, GotoDescends DEF TakeSnapshot, Level, runVars
  <2>2. CASE BuildArrays
    BY <2>0, <2>2, GotoDescends DEF BuildArrays, Level, runVars
  <2>3. CASE RefuseBatch
    BY <2>0, <2>3, GotoDescends DEF RefuseBatch, Level, runVars
  <2>4. CASE AllSpawned
    BY <2>0, <2>4, GotoDescends DEF AllSpawned, Level, runVars
  <2>5. CASE JoinWorkers
    BY <2>0, <2>5, GotoDescends DEF JoinWorkers, Level, runVars
  <2>6. CASE TallyReports
    BY <2>0, <2>6, GotoDescends DEF TallyReports, Level, runVars
  <2>7. CASE FreeSnapshots
    BY <2>0, <2>7, GotoDescends DEF FreeSnapshots, Level, runVars
  <2>8. CASE RegisterFromFunction
    BY <2>0, <2>8, GotoDescends DEF RegisterFromFunction, Level, runVars
  <2>9. ASSUME NEW w \in Workers, StartWorker(w) PROVE Descent
    <3>1. pc[w] = "unstarted" /\ Goto(w, "init") /\ nextIdx' = nextIdx
      BY <2>9 DEF StartWorker, Phases, runVars
    <3> QED
      BY <2>0, <3>1, GotoDescends DEF Level
  <2>10. ASSUME NEW w \in Workers, StartFails(w) PROVE Descent
    BY <2>10 DEF StartFails, Descent, runVars, lockVars
  <2>11. ASSUME NEW w \in Workers, AddWorkerStats(w) PROVE Descent
    BY <2>11 DEF AddWorkerStats, Descent, runVars, lockVars
  <2>12. ASSUME NEW w \in Workers, WorkerLife(w) PROVE Descent
    <3>1. /\ nextIdx' = nextIdx
          /\ \/ pc[w] = "init" /\ Goto(w, "claim")
             \/ pc[w] = "init" /\ Goto(w, "done")
             \/ pc[w] = "release" /\ Goto(w, "done")
      BY <2>12 DEF WorkerLife, InitWorker, InitFails, ReleaseWorker, runVars
    <3> QED
      BY <2>0, <3>1, GotoDescends DEF Level
  <2>13. ASSUME NEW t \in Threads, Acquire(t) PROVE Descent
    <3>1. lock = Free /\ lock' # Free /\ UNCHANGED <<nextIdx, pc, unstarted, added>>
      BY <2>13, NameAssumption DEF Acquire, runVars, poolVars
    <3> QED
      BY <3>1 DEF Descent
  <2>14. ASSUME NEW t \in Threads, ClaimRule(t) PROVE Descent
    BY <2>14, ClaimDescends
  <2>15. ASSUME NEW t \in Threads, Execute(t), ~ClaimRule(t) PROVE Descent
    <3>1. nextIdx' = nextIdx
      BY <2>15 DEF Execute, EvaluateCondition, FunctionCallback, Decide, TriggerAction,
                   RegisterFromAction, RecordReport, runVars
    <3>2. \/ pc[t] = "call" /\ (Goto(t, "callback") \/ Goto(t, "decided"))
          \/ pc[t] = "callback" /\ (Goto(t, "fnRegister") \/ Goto(t, "decided"))
          \/ pc[t] = "decided" /\ (Goto(t, "trigger") \/ Goto(t, "record"))
          \/ pc[t] = "trigger" /\ (Goto(t, "actRegister") \/ Goto(t, "record"))
          \/ pc[t] = "actRegister" /\ Goto(t, "record")
          \/ pc[t] = "record" /\ Goto(t, "claim")
      BY <2>15 DEF Execute, EvaluateCondition, FunctionCallback, Decide, TriggerAction,
                   RegisterFromAction, RecordReport, Goto
    <3>3. \E label : Goto(t, label) /\ Level(label) < Level(pc[t])
      BY <3>2 DEF Level
    <3> QED
      BY <3>1, <3>3, GotoDescends
  <2> QED
    BY <2>1, <2>2, <2>3, <2>4, <2>5, <2>6, <2>7, <2>8, <2>9, <2>10, <2>11, <2>12, <2>13, <2>14, <2>15
    DEF Next, Setup, Finish, PerWorker, Returned
<1>2. IInv => Typed /\ Phases
  BY DEF IInv
<1> QED
  BY <1>1, <1>2, Inductive, PTL DEF Spec

\* Whoever holds the lock is about to leave the section it was taken for.
HeldForSection == lock # Free => NeedsLock(lock) /\ section = pc[lock]

LEMMA SectionInit == Init => HeldForSection
BY DEF Init, HeldForSection

LEMMA SectionFrame ==
  ASSUME HeldForSection, Typed, NEW t \in Threads, NEW label, Goto(t, label),
         (UNCHANGED lockVars /\ ~NeedsLock(t)) \/ Unlock(t)
  PROVE  HeldForSection'
<1>1. \A u \in Threads : u # t => pc'[u] = pc[u]
  BY DEF Goto, Typed, TypeOK
<1>2. \A u \in Threads : u # t /\ NeedsLock(u) => NeedsLock(u)'
  BY <1>1 DEF NeedsLock
<1>3. lock' # Free => /\ lock' = lock /\ lock # t /\ NeedsLock(lock)
                      /\ section' = section /\ section = pc[lock]
  BY DEF Unlock, HeldForSection, lockVars
<1> QED
  BY <1>1, <1>2, <1>3 DEF HeldForSection, Typed, TypeOK

LEMMA SectionStep == Typed /\ Phases /\ HeldForSection /\ [Next]_vars => HeldForSection'
<1> SUFFICES ASSUME Typed, Phases, HeldForSection, [Next]_vars PROVE HeldForSection'
  OBVIOUS
<1>0. Main \in Threads /\ Workers \subseteq Threads /\ Main \notin Workers
  BY NameAssumption DEF Threads
<1>1. CASE TakeSnapshot
  BY <1>0, <1>1, SectionFrame DEF TakeSnapshot
<1>2. CASE BuildArrays \/ AllSpawned \/ JoinWorkers \/ FreeSnapshots
  <2>1. /\ UNCHANGED lockVars /\ pc[Main] \in {"arrays", "spawn", "join", "free"}
        /\ \E label : Goto(Main, label)
    BY <1>2 DEF BuildArrays, AllSpawned, JoinWorkers, FreeSnapshots
  <2> QED
    BY <1>0, <2>1, SectionFrame DEF NeedsLock
<1>3. CASE RefuseBatch
  <2>1. /\ UNCHANGED lockVars /\ Goto(Main, "returned")
        /\ pc[Main] = "arrays" \/ lock = Free
    BY <1>3 DEF RefuseBatch
  <2>2. CASE pc[Main] = "arrays"
    BY <1>0, <2>1, <2>2, SectionFrame DEF NeedsLock
  <2>3. CASE lock = Free
    BY <2>1, <2>3 DEF HeldForSection, lockVars
  <2> QED
    BY <2>1, <2>2, <2>3
<1>4. CASE TallyReports
  BY <1>0, <1>4, SectionFrame DEF TallyReports
<1>5. CASE RegisterFromFunction
  BY <1>0, <1>5, SectionFrame DEF RegisterFromFunction
<1>6. ASSUME NEW w \in Workers, StartWorker(w) \/ WorkerLife(w) PROVE HeldForSection'
  <2>1. /\ UNCHANGED lockVars /\ pc[w] \in {"unstarted", "init", "release"}
        /\ \E label : Goto(w, label)
    BY <1>6 DEF StartWorker, WorkerLife, InitWorker, InitFails, ReleaseWorker, Phases
  <2>2. ~NeedsLock(w)
    BY <1>0, <2>1 DEF NeedsLock
  <2> QED
    BY <1>0, <2>1, <2>2, SectionFrame
<1>7. ASSUME NEW w \in Workers, StartFails(w) \/ AddWorkerStats(w) PROVE HeldForSection'
  BY <1>7 DEF StartFails, AddWorkerStats, HeldForSection, NeedsLock, lockVars
<1>8. ASSUME NEW t \in Threads, Acquire(t) PROVE HeldForSection'
  BY <1>8 DEF Acquire, HeldForSection, NeedsLock
<1>9. ASSUME NEW t \in Threads, Execute(t) PROVE HeldForSection'
  <2>1. CASE EvaluateCondition(t)
    <3>1. Unlock(t) /\ \E label : Goto(t, label)
      BY <2>1 DEF EvaluateCondition
    <3> QED
      BY <3>1, SectionFrame
  <2>2. CASE ClaimRule(t) \/ FunctionCallback(t) \/ Decide(t)
    <3>1. UNCHANGED lockVars /\ pc[t] \in {"claim", "callback", "decided"} /\ \E label : Goto(t, label)
      BY <2>2 DEF ClaimRule, FunctionCallback, Decide
    <3>2. ~NeedsLock(t)
      BY <3>1 DEF NeedsLock
    <3> QED
      BY <3>1, <3>2, SectionFrame
  <2>3. CASE TriggerAction(t)
    <3>1. Unlock(t) /\ \E label : Goto(t, label)
      BY <2>3 DEF TriggerAction
    <3> QED
      BY <3>1, SectionFrame
  <2>4. CASE RegisterFromAction(t)
    BY <2>4, SectionFrame DEF RegisterFromAction
  <2>5. CASE RecordReport(t)
    BY <2>5, SectionFrame DEF RecordReport
  <2> QED
    BY <1>9, <2>1, <2>2, <2>3, <2>4, <2>5 DEF Execute
<1>10. CASE UNCHANGED vars
  BY <1>10 DEF vars, HeldForSection, NeedsLock, lockVars
<1> QED
  BY <1>1, <1>2, <1>3, <1>4, <1>5, <1>6, <1>7, <1>8, <1>9, <1>10
  DEF Next, Setup, Finish, PerWorker, Returned

\* A thread that has ended or not begun, that needs a lock that is not free and was
\* not taken for this section (be it by the thread itself, in an earlier one), or
\* that joins a worker still at work.
Waits(t) ==
  \/ pc[t] \in {"unstarted", "done", "returned"}
  \/ NeedsLock(t) /\ lock # Free /\ ~Locked(t)
  \/ pc[t] = "join" /\ \E w \in created : pc[w] # "done"

\* Until the call returns some thread has a step to take: no thread waits for the lock
\* while its holder waits, and the join waits for threads that go on.
THEOREM NobodyIsStuck == Spec => [](pc[Main] # "returned" => \E t \in Threads : ~Waits(t))
<1>1. IInv /\ HeldForSection => (pc[Main] # "returned" => \E t \in Threads : ~Waits(t))
  <2> SUFFICES ASSUME Typed, Phases, HeldForSection, pc[Main] # "returned"
               PROVE  \E t \in Threads : ~Waits(t)
    BY DEF IInv
  <2>0. /\ Main \in Threads /\ Workers \subseteq Threads /\ Main \notin Workers
        /\ lock \in Threads \cup {Free} /\ created \subseteq Workers
    BY NameAssumption DEF Threads, Typed, TypeOK
  <2>1. CASE lock # Free
    <3>1. lock \in Threads /\ NeedsLock(lock) /\ section = pc[lock]
      BY <2>0, <2>1 DEF HeldForSection
    <3>2. ~Waits(lock)
      BY <3>1 DEF Waits, NeedsLock, Locked
    <3> QED
      BY <3>1, <3>2
  <2>2. CASE lock = Free
    <3>1. pc[Main] \notin {"unstarted", "done"}
      BY DEF Phases, MainLabels, Executing
    <3>2. CASE pc[Main] # "join" \/ \A w \in created : pc[w] = "done"
      BY <2>0, <2>2, <3>1, <3>2 DEF Waits
    <3>3. CASE pc[Main] = "join" /\ \E w \in created : pc[w] # "done"
      <4>1. PICK w \in created : pc[w] # "done"
        BY <3>3
      <4>2. w \in Threads /\ pc[w] \in WorkerLabels /\ pc[w] # "unstarted"
        BY <2>0 DEF Phases
      <4>3. ~Waits(w)
        BY <2>2, <4>1, <4>2 DEF Waits, WorkerLabels, Executing
      <4> QED
        BY <4>2, <4>3
    <3> QED
      BY <3>2, <3>3
  <2> QED
    BY <2>1, <2>2
<1>2. IInv /\ HeldForSection /\ [Next]_vars => HeldForSection'
  BY SectionStep DEF IInv
<1> QED
  BY <1>1, <1>2, SectionInit, Inductive, PTL DEF Spec

-----------------------------------------------------------------------------
(***************************************************************************)
(* The batch implements RuleBatch.                                         *)
(***************************************************************************)

LEMMA InitRefines == Init => Abstract!Init
<1> SUFFICES ASSUME Init PROVE Abstract!Init
  OBVIOUS
<1>1. Executed = {}
  BY DEF Init, Executed
<1>2. [r \in Executed |-> reports[r]] = [r \in {} |-> NoReport]
  BY <1>1
<1> QED
  BY <1>2 DEF Init, PhaseOf, Abstract!Init, Abstract!NoTally

\* A step that leaves the slots, the counters and the outcome alone is invisible.
LEMMA Invisible ==
  UNCHANGED <<reports, tally, batch>> => UNCHANGED Abstract!bvars
  BY DEF Abstract!bvars, Executed, PhaseOf

LEMMA RunRefines ==
  ASSUME IInv, NEW t \in Threads, NEW q \in Rules, RecordReport(t), mine[t] = q
  PROVE  Abstract!Run(q)
<1>1. /\ pc[t] = "record"
      /\ UNCHANGED <<tally, batch>>
  BY DEF RecordReport, batchVars
<1>2. reports[q] = NotRun /\ pc[t] \in Evaluated
  BY <1>1 DEF IInv, Claims, Executing, Evaluated
<1>3. batch = "building"
  <2>1. batch # "reported"
    BY <1>2 DEF IInv, Batch, Claims, Evaluated
  <2>2. pc[Main] # "returned"
    BY <1>1 DEF IInv, Phases, Threads
  <2> QED
    BY <2>1, <2>2 DEF IInv, Batch, Typed, TypeOK
<1>4. RightVerdict(q, status[t]) /\ status[t] \in Status
  BY <1>2 DEF IInv, Judged, Typed, TypeOK
<1>5. PICK v \in {status[t], "ERROR", NoReport} : reports' = [reports EXCEPT ![q] = v]
  BY DEF RecordReport
<1>6. v # NotRun
  BY <1>4, <1>5, NameAssumption DEF Status, NotRun
<1>7. reports \in [Rules -> Status \cup {NoReport, NotRun}]
  BY DEF IInv, Typed, TypeOK
<1>8. reports'[q] = v /\ \A r \in Rules : r # q => reports'[r] = reports[r]
  BY <1>2, <1>5, <1>7
<1>9. Executed' = Executed \cup {q} /\ q \notin Executed
  BY <1>2, <1>6, <1>8 DEF Executed
<1>10. [r \in Executed' |-> reports'[r]] =
         [x \in Executed \cup {q} |->
            IF x = q THEN v ELSE [r \in Executed |-> reports[r]][x]]
  BY <1>8, <1>9 DEF Executed
<1>11. v \in {Verdict[q], "PASSED", "ERROR"} \cup {NoReport}
  BY <1>4, <1>5 DEF RightVerdict
<1> QED
  BY <1>1, <1>2, <1>3, <1>9, <1>10, <1>11 DEF Abstract!Run, PhaseOf

LEMMA ReportRefines == IInv /\ TallyReports => Abstract!Report
<1> SUFFICES ASSUME IInv, TallyReports PROVE Abstract!Report
  OBVIOUS
<1>1. /\ pc[Main] = "aggregate" /\ pc'[Main] = "free"
      /\ batch' = "reported" /\ tally' = Tally(reports)
      /\ UNCHANGED reports
  BY NameAssumption DEF TallyReports, IInv, Typed, TypeOK, Goto, Threads
<1>2. batch = "building"
  BY <1>1 DEF IInv, Batch, Typed, TypeOK
<1>3. Executed = Rules
  <2>1. IInv'
    BY TypeStep, PhasesStep, ClaimsStep, BatchStep, JudgedStep DEF IInv, Next, Finish
  <2>2. \A r \in Rules : runs'[r] = 1
    BY <1>1, <2>1 DEF IInv, Batch
  <2>3. \A r \in Rules : reports'[r] # NotRun
    BY <2>1, <2>2 DEF IInv, Claims
  <2> QED
    BY <1>1, <2>3 DEF Executed
<1>4. Tally(reports) = Abstract!TallyOf([r \in Executed |-> reports[r]])
  <2> DEFINE f == [r \in Executed |-> reports[r]]
  <2>1. DOMAIN f = Rules /\ \A r \in Rules : f[r] = reports[r]
    BY <1>3
  <2> HIDE DEF f
  <2>2. \A s \in Status : {r \in Rules : reports[r] = s} = {r \in DOMAIN f : f[r] = s}
    BY <2>1
  <2>3. \A S : Cardinality(S) = Abstract!Cardinality(S)
    BY DEF Cardinality, Abstract!Cardinality
  <2> QED
    BY <2>2, <2>3 DEF Tally, Abstract!TallyOf, f
<1>5. UNCHANGED [r \in Executed |-> reports[r]]
  BY <1>1 DEF Executed
<1> QED
  BY <1>1, <1>2, <1>3, <1>4, <1>5 DEF Abstract!Report, PhaseOf

LEMMA RefuseRefines == IInv /\ RefuseBatch => Abstract!Refuse
<1> SUFFICES ASSUME IInv, RefuseBatch PROVE Abstract!Refuse
  OBVIOUS
<1>1. /\ pc[Main] \in {"snapshot", "arrays"}
      /\ batch' = "refused" /\ UNCHANGED <<reports, tally>>
  BY DEF RefuseBatch
<1>2. Executed = {}
  BY <1>1, SizeAssumption DEF IInv, Claims, Executed, Rules
<1>3. batch = "building"
  BY <1>1 DEF IInv, Batch, Typed, TypeOK
<1>4. UNCHANGED [r \in Executed |-> reports[r]]
  BY <1>1 DEF Executed
<1> QED
  BY <1>1, <1>2, <1>3, <1>4 DEF Abstract!Refuse, PhaseOf

LEMMA StepRefines == IInv /\ [Next]_vars => [Abstract!Next]_(Abstract!bvars)
<1> SUFFICES ASSUME IInv, [Next]_vars PROVE [Abstract!Next]_(Abstract!bvars)
  OBVIOUS
<1> USE DEF batchVars
<1>1. CASE Setup
  <2>1. CASE RefuseBatch
    BY <2>1, RefuseRefines DEF Abstract!Next
  <2> QED
    BY <1>1, <2>1, Invisible DEF Setup, TakeSnapshot, BuildArrays, AllSpawned
<1>2. CASE Finish
  <2>1. CASE TallyReports
    BY <2>1, ReportRefines DEF Abstract!Next
  <2> QED
    BY <1>2, <2>1, Invisible DEF Finish, JoinWorkers, FreeSnapshots
<1>3. CASE RegisterFromFunction
  BY <1>3, Invisible DEF RegisterFromFunction
<1>4. ASSUME NEW w \in Workers, PerWorker(w) \/ WorkerLife(w)
      PROVE  UNCHANGED Abstract!bvars
  BY <1>4, Invisible DEF PerWorker, StartWorker, StartFails, AddWorkerStats,
                         WorkerLife, InitWorker, InitFails, ReleaseWorker
<1>5. ASSUME NEW t \in Threads, Acquire(t) \/ Execute(t)
      PROVE  [Abstract!Next]_(Abstract!bvars)
  <2>1. CASE RecordReport(t)
    <3>1. mine[t] \in Rules
      BY <2>1 DEF RecordReport, IInv, Claims, Executing
    <3>2. PICK q \in Rules : mine[t] = q
      BY <3>1
    <3>3. Abstract!Next
      BY <2>1, <3>2, RunRefines DEF Abstract!Next
    <3> QED
      BY <3>3
  <2> QED
    BY <1>5, <2>1, Invisible
    DEF Acquire, Execute, ClaimRule, EvaluateCondition, FunctionCallback, Decide,
        TriggerAction, RegisterFromAction
<1>6. CASE UNCHANGED vars
  BY <1>6, Invisible DEF vars
<1> QED
  BY <1>1, <1>2, <1>3, <1>4, <1>5, <1>6 DEF Next, Returned

\* The parallel batch does what RuleBatch promises: each rule once, a verdict it
\* may have, and counters that are the counts of the verdicts.
THEOREM Refinement == Spec => ImplementsRuleBatch
  BY InitRefines, StepRefines, Inductive, PTL DEF Spec, ImplementsRuleBatch, Abstract!Spec

-----------------------------------------------------------------------------
(***************************************************************************)
(* The sequential execution.                                               *)
(***************************************************************************)

\* The rules before the next one are finished, and no others.
Advancing ==
  /\ next \in 1 .. RuleCount + 1
  /\ made \in [Rules -> Status \cup {NotRun, NoReport}]
  /\ \A r \in Rules : made[r] = NotRun <=> r >= next
  /\ phase \in {"building", "refused"} => next = 1
  /\ phase = "reported" => next = RuleCount + 1
  /\ phase \in {"building", "running", "refused", "reported"}
  /\ DOMAIN lost = Rules

\* The running totals count the reports made so far.
Counted ==
  totals = [s \in Status |-> Cardinality({r \in Rules : made[r] = s})]

\* What rule r has registered when it is reported FAILED.
Leaves(r) == IF Triggers[r] \in Actions THEN ActRegisters[Triggers[r]] \ lost[r] ELSE {}

\* What the condition of the rule in execution came to, and those of the
\* finished ones.
Decided ==
  /\ step \in {"call", "callback", "trigger", "finish"}
  /\ step # "call" =>
       /\ phase = "running" /\ next \in Rules
       /\ outcome \in {Verdict[next], "PASSED", "ERROR"}
       /\ \A r \in Rules : r < next /\ made[r] = "FAILED" /\ Calls[next] \in Leaves(r) =>
            outcome \in {Verdict[next], "ERROR"}
  /\ step = "finish" /\ outcome = "FAILED" => Leaves(next) \subseteq registered
  /\ \A r \in Rules : made[r] \in {Verdict[r], "PASSED", "ERROR", NotRun, NoReport}

\* What failed rules registered is there, and the later rules have seen it.
Remembered ==
  /\ \A r \in Rules : made[r] = "FAILED" => Leaves(r) \subseteq registered
  /\ \A r, s \in Rules : r < s /\ made[r] = "FAILED" /\ Calls[s] \in Leaves(r) =>
       made[s] \in {Verdict[s], "ERROR", NotRun, NoReport}

Sound == Advancing /\ Counted /\ Decided /\ Remembered

-----------------------------------------------------------------------------
(***************************************************************************)
(* The steps of the sequential execution.                                  *)
(***************************************************************************)
USE DEF Rules, Status, NotRun

LEMMA SoundInit == Sequential!Init => Sound
<1> SUFFICES ASSUME Sequential!Init PROVE Sound
  OBVIOUS
<1>1. Advancing
  BY SizeAssumption, NameAssumption DEF Sequential!Init, Sequential!Rules, Sequential!NotRun, Advancing
<1>2. Counted
  <2>1. \A s \in Status : {r \in Rules : made[r] = s} = {}
    BY DEF Sequential!Init, Sequential!Rules, Sequential!NotRun
  <2>2. Cardinality({}) = 0
    BY FS_EmptySet
  <2> QED
    BY <2>1, <2>2 DEF Sequential!Init, Sequential!Status, Counted
<1>3. Decided
  BY NameAssumption DEF Sequential!Init, Sequential!Rules, Sequential!NotRun, Decided
<1>4. Remembered
  BY NameAssumption DEF Sequential!Init, Sequential!Rules, Sequential!NotRun, Remembered
<1> QED
  BY <1>1, <1>2, <1>3, <1>4 DEF Sound

LEMMA BuildKeeps == Sound /\ Sequential!Build => Sound'
  BY DEF Sound, Advancing, Counted, Decided, Remembered, Leaves, Sequential!Build,
         Sequential!Fault

LEMMA ReportKeeps == Sound /\ Sequential!Report => Sound'
<1> SUFFICES ASSUME Sound, Sequential!Report PROVE Sound'
  OBVIOUS
<1>1. /\ phase = "running" /\ next = RuleCount + 1 /\ phase' = "reported"
      /\ UNCHANGED <<next, step, outcome, registered, lost, made, totals>>
  BY DEF Sequential!Report
<1>2. next \notin Rules
  BY <1>1, SizeAssumption
<1>3. step = "call"
  BY <1>2 DEF Sound, Decided
<1>4. \A r \in Rules : Leaves(r)' = Leaves(r)
  BY <1>1 DEF Leaves
<1>5. Advancing' /\ Counted'
  BY <1>1 DEF Sound, Advancing, Counted
<1>6. Decided' /\ Remembered'
  BY <1>1, <1>3, <1>4 DEF Sound, Decided, Remembered
<1> QED
  BY <1>5, <1>6 DEF Sound

LEMMA OtherKeeps == Sound /\ Sequential!RegisterByOther => Sound'
<1> SUFFICES ASSUME Sound, Sequential!RegisterByOther PROVE Sound'
  OBVIOUS
<1>1. /\ registered \subseteq registered'
      /\ UNCHANGED <<phase, next, step, outcome, lost, made, totals>>
  BY DEF Sequential!RegisterByOther
<1>2. \A r \in Rules : Leaves(r)' = Leaves(r)
  BY <1>1 DEF Leaves
<1>3. Advancing' /\ Counted'
  BY <1>1 DEF Sound, Advancing, Counted
<1>4. Decided' /\ Remembered'
  BY <1>1, <1>2 DEF Sound, Decided, Remembered
<1> QED
  BY <1>3, <1>4 DEF Sound

LEMMA CallbackKeeps == Sound /\ Sequential!FunctionCallback => Sound'
  BY DEF Sound, Advancing, Counted, Decided, Remembered, Leaves, Sequential!FunctionCallback,
         Sequential!Executing, Sequential!Rules

\* The action of a violated rule: what it fails to register is lost.
LEMMA TriggerKeeps == Sound /\ Sequential!TriggerAction => Sound'
<1> SUFFICES ASSUME Sound, Sequential!TriggerAction PROVE Sound'
  OBVIOUS
<1> DEFINE new == Sequential!Registering
<1>1. PICK got \in SUBSET new :
        /\ registered' = registered \cup got
        /\ lost' = [lost EXCEPT ![next] = new \ got]
  BY DEF Sequential!TriggerAction
<1>2. /\ phase = "running" /\ next \in Rules /\ step = "trigger" /\ step' = "finish"
      /\ UNCHANGED <<phase, next, outcome, made, totals>>
  BY DEF Sequential!TriggerAction, Sequential!Executing, Sequential!Rules
<1>3. /\ DOMAIN lost = Rules /\ DOMAIN lost' = Rules /\ lost'[next] = new \ got
      /\ \A r \in Rules : r # next => lost'[r] = lost[r]
  BY <1>1, <1>2 DEF Sound, Advancing
<1>4. \A r \in Rules : r # next => Leaves(r)' = Leaves(r)
  BY <1>3 DEF Leaves
<1>5. made[next] = NotRun /\ next \in Nat
  BY <1>2, SizeAssumption DEF Sound, Advancing
<1>6. outcome = "FAILED" => Leaves(next)' \subseteq registered'
  <2>1. outcome = "FAILED" /\ Triggers[next] \in Actions => new = ActRegisters[Triggers[next]]
    BY DEF Sequential!Registering
  <2> QED
    BY <1>1, <1>2, <1>3, <2>1 DEF Leaves
<1>7. Advancing' /\ Counted'
  BY <1>2, <1>3 DEF Sound, Advancing, Counted
<1>8. Decided'
  <2>1. \A r \in Rules : r < next /\ made[r] = "FAILED" /\ Calls[next] \in Leaves(r)' =>
          outcome \in {Verdict[next], "ERROR"}
    BY <1>2, <1>4, <1>5 DEF Sound, Decided
  <2> QED
    BY <1>2, <1>6, <2>1 DEF Sound, Decided
<1>9. Remembered'
  <2>1. \A r \in Rules : made[r] = "FAILED" => r # next
    BY <1>5
  <2> QED
    BY <1>1, <1>2, <1>4, <2>1 DEF Sound, Remembered
<1> QED
  BY <1>7, <1>8, <1>9 DEF Sound

LEMMA EvaluateKeeps == Sound /\ Sequential!EvaluateCondition => Sound'
<1> SUFFICES ASSUME Sound, Sequential!EvaluateCondition PROVE Sound'
  OBVIOUS
<1>1. /\ phase = "running" /\ next \in Rules
      /\ UNCHANGED <<phase, next, registered, lost, made, totals>>
      /\ step' \in {"callback", "trigger", "finish"}
      /\ step' = "finish" => outcome' = "ERROR"
  BY DEF Sequential!EvaluateCondition, Sequential!Executing, Sequential!Rules
<1>2. outcome' \in {Verdict[next], "PASSED", "ERROR"}
  BY DEF Sequential!EvaluateCondition
<1>3. ASSUME NEW r \in Rules, made[r] = "FAILED", Calls[next] \in Leaves(r)
      PROVE  outcome' \in {Verdict[next], "ERROR"}
  <2>1. Calls[next] \in registered
    BY <1>3 DEF Sound, Remembered
  <2> QED
    BY <2>1 DEF Sequential!EvaluateCondition
<1>4. Advancing' /\ Counted' /\ Remembered'
  BY <1>1 DEF Sound, Advancing, Counted, Remembered, Leaves
<1>5. Decided'
  <2>1. \A r \in Rules : Leaves(r)' = Leaves(r)
    BY <1>1 DEF Leaves
  <2> QED
    BY <1>1, <1>2, <1>3, <2>1 DEF Sound, Decided
<1> QED
  BY <1>4, <1>5 DEF Sound

\* The report of a rule, which may be missing.
LEMMA FinishKeeps == Sound /\ Sequential!FinishRule => Sound'
<1> SUFFICES ASSUME Sound, Sequential!FinishRule PROVE Sound'
  OBVIOUS
<1>1. PICK out \in {outcome, "ERROR", NoReport} :
        /\ made' = [made EXCEPT ![next] = out]
        /\ totals' = [s \in Status |-> IF s = out THEN totals[s] + 1 ELSE totals[s]]
  BY DEF Sequential!FinishRule, Sequential!Status
<1>2. /\ phase = "running" /\ next \in Rules /\ step = "finish"
      /\ next' = next + 1 /\ step' = "call" /\ UNCHANGED <<phase, registered, lost>>
  BY DEF Sequential!FinishRule, Sequential!Executing, Sequential!Rules
<1>3. /\ outcome \in {Verdict[next], "PASSED", "ERROR"}
      /\ out \in {Verdict[next], "PASSED", "ERROR", NoReport}
      /\ out \in Status \cup {NoReport} /\ out # NotRun
  BY <1>1, <1>2, NameAssumption, RuleAssumption DEF Sound, Decided
<1>4. /\ next \in Nat /\ RuleCount \in Nat
      /\ made \in [Rules -> Status \cup {NotRun, NoReport}]
      /\ \A r \in Rules : made[r] = NotRun <=> r >= next
  BY <1>2, SizeAssumption DEF Sound, Advancing
<1>5. \A r \in Rules : made'[r] = IF r = next THEN out ELSE made[r]
  BY <1>1, <1>2, <1>4
<1>6. Advancing'
  <2>1. next' \in 1 .. RuleCount + 1
    BY <1>2, <1>4
  <2>2. made' \in [Rules -> Status \cup {NotRun, NoReport}]
    BY <1>1, <1>3, <1>4
  <2>3. \A r \in Rules : made'[r] = NotRun <=> r >= next'
    BY <1>2, <1>3, <1>4, <1>5
  <2> QED
    BY <1>2, <2>1, <2>2, <2>3 DEF Sound, Advancing
<1>7. Counted'
  <2>1. ASSUME NEW s \in Status PROVE totals'[s] = Cardinality({r \in Rules : made'[r] = s})
    <3> DEFINE A == {r \in Rules : made[r] = s}
               B == {r \in Rules : made'[r] = s}
    <3>1. totals[s] = Cardinality(A)
      BY DEF Sound, Counted
    <3>2. IsFiniteSet(A)
      <4>1. IsFiniteSet(Rules)
        BY <1>4, FS_Interval
      <4> QED
        BY <4>1, FS_Subset
    <3>3. next \notin A
      BY <1>2, <1>4
    <3>4. CASE s = out
      <4>1. B = A \cup {next}
        BY <1>2, <1>5, <3>4
      <4>2. Cardinality(A \cup {next}) = Cardinality(A) + 1
        BY <3>2, <3>3, FS_AddElement
      <4> QED
        BY <1>1, <3>1, <3>4, <4>1, <4>2
    <3>5. CASE s # out
      <4>1. B = A
        BY <1>2, <1>4, <1>5, <3>5
      <4> QED
        BY <1>1, <3>1, <3>5, <4>1
    <3> QED
      BY <3>4, <3>5
  <2> QED
    BY <1>1, <2>1 DEF Counted
<1>8. Decided'
  BY <1>2, <1>3, <1>5 DEF Sound, Decided
<1>9. Remembered'
  <2>1. ASSUME NEW r \in Rules, made'[r] = "FAILED" PROVE Leaves(r) \subseteq registered'
    <3>1. CASE r = next
      <4>1. outcome = "FAILED"
        BY <1>1, <1>5, <2>1, <3>1, NameAssumption
      <4> QED
        BY <1>2, <3>1, <4>1 DEF Sound, Decided
    <3>2. CASE r # next
      BY <1>2, <1>5, <2>1, <3>2 DEF Sound, Remembered
    <3> QED
      BY <3>1, <3>2
  <2>2. ASSUME NEW r \in Rules, NEW s \in Rules, r < s, made'[r] = "FAILED", Calls[s] \in Leaves(r)
        PROVE  made'[s] \in {Verdict[s], "ERROR", NotRun, NoReport}
    <3>1. CASE r = next
      <4>1. s >= next /\ s # next
        BY <1>4, <2>2, <3>1
      <4> QED
        BY <1>4, <1>5, <4>1
    <3>2. CASE r # next /\ s = next
      <4>1. made[r] = "FAILED"
        BY <1>5, <2>2, <3>2
      <4>2. outcome \in {Verdict[next], "ERROR"}
        BY <1>2, <2>2, <3>2, <4>1 DEF Sound, Decided
      <4> QED
        BY <1>1, <1>5, <3>2, <4>2
    <3>3. CASE r # next /\ s # next
      BY <1>5, <2>2, <3>3 DEF Sound, Remembered
    <3> QED
      BY <3>1, <3>2, <3>3
  <2>3. \A r \in Rules : Leaves(r)' = Leaves(r)
    BY <1>2 DEF Leaves
  <2> QED
    BY <2>1, <2>2, <2>3 DEF Remembered
<1> QED
  BY <1>6, <1>7, <1>8, <1>9 DEF Sound

LEMMA SoundStep == Sound /\ [Sequential!Next]_(Sequential!vars) => Sound'
<1>1. ASSUME Sound, UNCHANGED Sequential!vars PROVE Sound'
  <2>1. UNCHANGED <<phase, next, step, outcome, registered, lost, made, totals>>
    BY <1>1 DEF Sequential!vars
  <2>2. \A r \in Rules : Leaves(r)' = Leaves(r)
    BY <2>1 DEF Leaves
  <2> QED
    BY <1>1, <2>1, <2>2 DEF Sound, Advancing, Counted, Decided, Remembered
<1> QED
  BY <1>1, BuildKeeps, EvaluateKeeps, CallbackKeeps, TriggerKeeps, FinishKeeps, ReportKeeps, OtherKeeps
  DEF Sequential!Next, Sequential!CallerStep, Sequential!Returned

-----------------------------------------------------------------------------
(***************************************************************************)
(* A call runs one of the two executions, and the other one stands still.  *)
(***************************************************************************)
LEMMA SequentialRuns == BatchSpec => Sequential!Spec
<1>1. BatchInit => Sequential!Init
  BY DEF BatchInit
<1>2. [BatchNext]_allVars => [Sequential!Next]_(Sequential!vars)
  BY DEF BatchNext, ExecuteSequentially, ExecuteInParallel, allVars, sequentialVars, Sequential!vars
<1> QED
  BY <1>1, <1>2, PTL DEF BatchSpec, Sequential!Spec

LEMMA ParallelRuns == BatchSpec => Spec
<1>1. BatchInit => Init
  BY DEF BatchInit
<1>2. [BatchNext]_allVars => [Next]_vars
  BY DEF BatchNext, ExecuteSequentially, ExecuteInParallel, allVars
<1> QED
  BY <1>1, <1>2, PTL DEF BatchSpec, Spec

LEMMA SoundAlways == Sequential!Spec => []Sound
  BY SoundInit, SoundStep, PTL DEF Sequential!Spec

\* What an earlier rule registered is there for every later one, however many
\* rules there are and whatever runs out of memory, save the entries that did not
\* get any.
THEOREM EarlierSeen == BatchSpec => []EarlierRegistrationsAreSeen
<1>1. Sound => EarlierRegistrationsAreSeen
  BY NameAssumption
  DEF Sound, Remembered, Leaves, EarlierRegistrationsAreSeen,
      Sequential!EarlierRegistrationsAreSeen, Sequential!Rules, Sequential!Status
<1> QED
  BY <1>1, SequentialRuns, SoundAlways, PTL

-----------------------------------------------------------------------------
(***************************************************************************)
(* The sequential execution implements RuleBatch.                          *)
(***************************************************************************)
SeqPhase == IF phase = "building" THEN "running" ELSE phase
SeqTally == IF phase = "reported" THEN totals ELSE [s \in Status |-> 0]

LEMMA SequentialInvisible ==
  ASSUME UNCHANGED made, UNCHANGED SeqPhase, UNCHANGED SeqTally
  PROVE  UNCHANGED Sequential!Abstract!bvars
  BY DEF Sequential!Abstract!bvars, Sequential!Executed, SeqPhase, SeqTally,
         Sequential!Rules, Sequential!Status, Sequential!NotRun

LEMMA SequentialInitRefines == Sequential!Init => Sequential!Abstract!Init
<1> SUFFICES ASSUME Sequential!Init PROVE Sequential!Abstract!Init
  OBVIOUS
<1>1. Sequential!Executed = {}
  BY DEF Sequential!Init, Sequential!Executed
<1> QED
  BY <1>1 DEF Sequential!Init, Sequential!Abstract!Init, Sequential!Abstract!NoTally

LEMMA BuildRefines ==
  Sound /\ Sequential!Build => Sequential!Abstract!Refuse \/ UNCHANGED Sequential!Abstract!bvars
<1> SUFFICES ASSUME Sound, Sequential!Build
             PROVE  Sequential!Abstract!Refuse \/ UNCHANGED Sequential!Abstract!bvars
  OBVIOUS
<1>1. phase = "building" /\ UNCHANGED <<made, totals>>
  BY DEF Sequential!Build
<1>2. CASE phase' = "running"
  <2>1. UNCHANGED SeqPhase /\ UNCHANGED SeqTally
    BY <1>1, <1>2 DEF SeqPhase, SeqTally
  <2> QED
    BY <1>1, <2>1, SequentialInvisible
<1>3. CASE phase' = "refused"
  <2>1. Sequential!Executed = {}
    BY <1>1 DEF Sound, Advancing, Sequential!Executed, Sequential!Rules, Sequential!NotRun
  <2>2. UNCHANGED Sequential!Executed
    BY <1>1 DEF Sequential!Executed
  <2> QED
    BY <1>1, <1>3, <2>1, <2>2 DEF Sequential!Abstract!Refuse
<1> QED
  BY <1>2, <1>3 DEF Sequential!Build

LEMMA FinishRefines == Sound /\ Sequential!FinishRule => Sequential!Abstract!Next
<1> SUFFICES ASSUME Sound, Sequential!FinishRule PROVE Sequential!Abstract!Next
  OBVIOUS
<1>1. PICK out \in {outcome, "ERROR", NoReport} : made' = [made EXCEPT ![next] = out]
  BY DEF Sequential!FinishRule
<1>2. phase = "running" /\ phase' = phase /\ next \in Rules /\ step = "finish"
  BY DEF Sequential!FinishRule, Sequential!Executing, Sequential!Rules
<1>3. /\ out \in {Verdict[next], "PASSED", "ERROR", NoReport}
      /\ out # NotRun
      /\ made \in [Rules -> Status \cup {NotRun, NoReport}]
      /\ made[next] = NotRun
  BY <1>1, <1>2, NameAssumption, RuleAssumption, SizeAssumption DEF Sound, Decided, Advancing
<1> DEFINE E == Sequential!Executed
<1>4. E = {r \in Rules : made[r] # NotRun}
  BY DEF Sequential!Executed, Sequential!Rules, Sequential!NotRun
<1>5. E' = E \cup {next} /\ next \notin E
  <2>1. E' = {r \in Rules : made'[r] # NotRun}
    BY DEF Sequential!Executed, Sequential!Rules, Sequential!NotRun
  <2> QED
    BY <1>1, <1>2, <1>3, <1>4, <2>1
<1>6. [r \in E |-> made[r]]' = [x \in E \cup {next} |-> IF x = next THEN out ELSE made[x]]
  BY <1>1, <1>2, <1>3, <1>4, <1>5
<1> HIDE DEF E
<1>7. DOMAIN [r \in E |-> made[r]] = E /\ \A x \in E : [r \in E |-> made[r]][x] = made[x]
  OBVIOUS
<1>8. PICK q \in Rules : next = q
  BY <1>2
<1>9. Sequential!Abstract!Run(q)
  <2>1. out \in [r \in Rules |-> {Verdict[r], "PASSED", "ERROR"}][q] \cup {NoReport}
    BY <1>2, <1>3, <1>8
  <2>2. [r \in E |-> made[r]]' =
          [x \in DOMAIN [r \in E |-> made[r]] \cup {q} |->
             IF x = q THEN out ELSE [r \in E |-> made[r]][x]]
    BY <1>5, <1>6, <1>7, <1>8
  <2> QED
    BY <1>2, <1>5, <1>7, <1>8, <2>1, <2>2
    DEF E, Sequential!Abstract!Run, Sequential!Rules, Sequential!Status
<1> QED
  BY <1>9 DEF Sequential!Abstract!Next, Sequential!Rules

LEMMA ReportsRefine == Sound /\ Sequential!Report => Sequential!Abstract!Report
<1> SUFFICES ASSUME Sound, Sequential!Report PROVE Sequential!Abstract!Report
  OBVIOUS
<1>1. /\ phase = "running" /\ next = RuleCount + 1 /\ phase' = "reported"
      /\ UNCHANGED <<made, totals>>
  BY DEF Sequential!Report
<1>2. Sequential!Executed = Rules /\ UNCHANGED Sequential!Executed
  BY <1>1, SizeAssumption
  DEF Sound, Advancing, Sequential!Executed, Sequential!Rules, Sequential!NotRun
<1>3. totals = Sequential!Abstract!TallyOf([r \in Rules |-> made[r]])
  <2> DEFINE f == [r \in Rules |-> made[r]]
  <2>1. DOMAIN f = Rules /\ \A r \in Rules : f[r] = made[r]
    OBVIOUS
  <2>2. \A s \in Status : {r \in DOMAIN f : f[r] = s} = {r \in Rules : made[r] = s}
    BY <2>1
  <2> HIDE DEF f
  <2>3. totals = [s \in Status |-> Cardinality({r \in DOMAIN f : f[r] = s})]
    BY <2>2 DEF Sound, Counted
  <2>4. \A S : Cardinality(S) = Sequential!Abstract!Cardinality(S)
    BY DEF Cardinality, Sequential!Abstract!Cardinality
  <2> QED
    BY <2>3, <2>4 DEF f, Sequential!Abstract!TallyOf, Sequential!Status
<1> QED
  BY <1>1, <1>2, <1>3 DEF Sequential!Abstract!Report, Sequential!Rules

LEMMA SequentialStepRefines ==
  Sound /\ [Sequential!Next]_(Sequential!vars)
    => [Sequential!Abstract!Next]_(Sequential!Abstract!bvars)
<1> SUFFICES ASSUME Sound, [Sequential!Next]_(Sequential!vars)
             PROVE  [Sequential!Abstract!Next]_(Sequential!Abstract!bvars)
  OBVIOUS
<1>1. CASE UNCHANGED <<phase, made, totals>>
  <2>1. UNCHANGED SeqPhase /\ UNCHANGED SeqTally
    BY <1>1 DEF SeqPhase, SeqTally
  <2> QED
    BY <1>1, <2>1, SequentialInvisible
<1>2. CASE Sequential!Build
  BY <1>2, BuildRefines DEF Sequential!Abstract!Next
<1>3. CASE Sequential!FinishRule
  <2>1. Sequential!Abstract!Next
    BY <1>3, FinishRefines
  <2> QED
    BY <2>1
<1>4. CASE Sequential!Report
  BY <1>4, ReportsRefine DEF Sequential!Abstract!Next
<1>5. CASE \/ Sequential!EvaluateCondition \/ Sequential!FunctionCallback
           \/ Sequential!TriggerAction
           \/ Sequential!RegisterByOther \/ UNCHANGED Sequential!vars
  BY <1>1, <1>5
  DEF Sequential!EvaluateCondition, Sequential!FunctionCallback, Sequential!TriggerAction,
      Sequential!RegisterByOther, Sequential!vars
<1> QED
  BY <1>2, <1>3, <1>4, <1>5 DEF Sequential!Next, Sequential!CallerStep, Sequential!Returned

\* One rule after the other, whatever other threads register meanwhile: each
\* rule runs once, and the totals counted on the way are those of the reports.
THEOREM SequentialRefinement == BatchSpec => SequentialImplementsRuleBatch
<1>1. Sequential!Spec => Sequential!Abstract!Spec
  BY SequentialInitRefines, SequentialStepRefines, SoundAlways, PTL
  DEF Sequential!Spec, Sequential!Abstract!Spec
<1> QED
  BY <1>1, SequentialRuns DEF SequentialImplementsRuleBatch, Sequential!ImplementsRuleBatch

-----------------------------------------------------------------------------
\* However many threads a call is given, no rule runs twice, what is reported is
\* complete and counted in full, and the copies of the registrations outlive their
\* readers.
THEOREM ParallelSafety ==
  BatchSpec => [](/\ NoRuleRunsTwice /\ BatchIsComplete /\ StatsAreConserved
                  /\ SnapshotOutlivesWorkers /\ EarlyRegistrationsAreSeen)
  BY ParallelRuns, ClaimedOnce, Completeness, StatisticsConserved, SnapshotSafety,
     RegistrationsSeen, PTL

\* Asked for one thread or for many, a call is the batch it promises to be.
THEOREM BothAreBatches == BatchSpec => ImplementsRuleBatch /\ SequentialImplementsRuleBatch
  BY ParallelRuns, Refinement, SequentialRefinement, PTL
=============================================================================
