------------------------------- MODULE Literals -------------------------------
(***************************************************************************)
(* How the bytecode hands a value on to a callback: val_to_temp_expr makes *)
(* a literal of it, whose nodes the callback evaluates                     *)
(* (src/src/vm/bytecode.c).  Arrays nest, so these are recursive operators *)
(* and have a module of their own; so has what gives the expressions their *)
(* heights in the runs.                                                    *)
(***************************************************************************)
EXTENDS TreeWalk

\* VOID becomes the number 0 and NULL the text "".
RECURSIVE LiteralOf(_)
LiteralOf(v) ==
  CASE v.type = "VOID" -> Number(0)
    [] v.type = "STRING" -> Value("STRING", TextOf(v))
    [] v.type = "ARRAY" -> ArrayOf([i \in DOMAIN v.items |-> LiteralOf(v.items[i])])
    [] OTHER -> v

RECURSIVE LiteralNodes(_)
LiteralNodes(v) ==
  IF v.type # "ARRAY" THEN 1
  ELSE 1 + MapThenSumSet(LAMBDA i : LiteralNodes(v.items[i]), DOMAIN v.items)

\* The expressions with what they point to, and how high a tree is.
WithParts(S) == S \cup UNION {PartsOf(e) : e \in S}

\* The expressions of rules: their conditions and the arguments of their actions.
TreesOf(r) == ConditionsOf(r) \cup UNION {ToSet(a.args) : a \in ActionsOf(r)}
=============================================================================
