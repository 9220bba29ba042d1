------------------------------ MODULE RuleBatch ------------------------------
(***************************************************************************)
(* What a batch execution promises, whoever carries it out: every rule of  *)
(* the rule set is executed exactly once, the verdict of an execution is   *)
(* one the rule can have, and the report that is handed back holds the     *)
(* verdicts of all the rules and the tallies of exactly those verdicts.    *)
(* A batch that cannot be set up reports nothing and runs no rule.         *)
(*                                                                         *)
(* cdsl_vm_execute_ruleset and cdsl_vm_execute_ruleset_parallel            *)
(* (src/src/vm/ruleset.c) both implement this specification.               *)
(***************************************************************************)
EXTENDS Integers, FiniteSets

CONSTANTS
  Rules,      \* the rules of the set
  Status,     \* cdsl_status_t
  Verdicts,   \* Verdicts[r]: the statuses an execution of rule r may end with
  NoReport    \* an execution whose report could not be allocated

VARIABLES
  phase,      \* "running", "reported" or "refused" (NULL was returned)
  verdict,    \* a function from the rules executed so far to their outcome
  tally       \* the counters of the batch report, by status

bvars == <<phase, verdict, tally>>

NoTally == [s \in Status |-> 0]

TallyOf(outcome) ==
  [s \in Status |-> Cardinality({r \in DOMAIN outcome : outcome[r] = s})]

Init ==
  /\ phase = "running"
  /\ verdict = [r \in {} |-> NoReport]
  /\ tally = NoTally

Run(r) ==
  /\ phase = "running"
  /\ r \notin DOMAIN verdict
  /\ \E v \in Verdicts[r] \cup {NoReport} :
        verdict' = [x \in DOMAIN verdict \cup {r} |->
                      IF x = r THEN v ELSE verdict[x]]
  /\ UNCHANGED <<phase, tally>>

Report ==
  /\ phase = "running"
  /\ DOMAIN verdict = Rules
  /\ phase' = "reported"
  /\ tally' = TallyOf(verdict)
  /\ UNCHANGED verdict

Refuse ==
  /\ phase = "running"
  /\ DOMAIN verdict = {}
  /\ phase' = "refused"
  /\ UNCHANGED <<verdict, tally>>

Next == (\E r \in Rules : Run(r)) \/ Report \/ Refuse

Spec == Init /\ [][Next]_bvars
=============================================================================
