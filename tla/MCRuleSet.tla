------------------------------ MODULE MCRuleSet ------------------------------
(***************************************************************************)
(* Two rule names, so that a set may hold two rules of one name, and six   *)
(* texts: a rule the schema accepts, a rule it rejects, a text that does   *)
(* not parse, a file of each rule, and a file whose name contains "META".  *)
(***************************************************************************)
EXTENDS RuleSet, TLC

CONSTANTS n1, n2, good, rejected, broken, goodFile, rejectedFile, metaFile

MCParses ==
  good :> n1 @@ rejected :> n2 @@ [t \in Texts \ {good, rejected} |-> NoRule]
MCContent ==
  goodFile :> good @@ rejectedFile :> rejected @@ metaFile :> good
    @@ [t \in {good, rejected, broken} |-> NoFile]
=============================================================================
