-------------------------- MODULE MCBatchExecution --------------------------
(***************************************************************************)
(* Three rules on the caller and two workers.  Rules 1 and 3 call a        *)
(* function that is registered from the start and whose callback registers *)
(* another; rule 2 calls that other one.  The action of rules 1 and 3      *)
(* registers it too; the one of rule 2 is not registered.  Other threads   *)
(* may register the second function during a sequential execution.         *)
(***************************************************************************)
EXTENDS BatchExecution, TLC

CONSTANTS f1, f2, a1, a2, w1, w2

MCCalls == <<f1, f2, f1>>
MCTriggers == <<a1, a2, a1>>
MCVerdict == <<"FAILED", "FAILED", "PARTIALLY_PASSED">>
MCFnRegisters == f1 :> {f2} @@ f2 :> {}
MCActRegisters == a1 :> {f2} @@ a2 :> {}
WorkerSymmetry == Permutations(Workers)
=============================================================================
