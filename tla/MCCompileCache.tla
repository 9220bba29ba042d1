---------------------------- MODULE MCCompileCache ----------------------------
(***************************************************************************)
(* Three threads and two sources: one the parser accepts and the schema    *)
(* rejects, and one both accept; a third source does not parse.            *)
(***************************************************************************)
EXTENDS CompileCache

CONSTANTS t1, t2, t3, good, rejected, broken, sch

MCPasses == {<<good, sch>>}
=============================================================================
