------------------------- MODULE MCDependencyOrder -------------------------
(***************************************************************************)
(* All rule sets of up to three rules whose lists hold up to two different *)
(* names, one of which may be no rule's; and, for the order of an accepted *)
(* set, four rules with a list inside a list.                              *)
(***************************************************************************)
EXTENDS DependencyOrder

Lists(n) ==
  {<<>>} \cup {<<a>> : a \in 0 .. n}
    \cup {<<p[1], p[2]>> : p \in {q \in (0 .. n) \X (0 .. n) : q[1] # q[2]}}

UpToThreeRules == UNION {[1 .. n -> Lists(n)] : n \in 0 .. 3}
FourRules == [1 .. 4 -> {<<>>, <<4>>, <<2, 3>>}]
=============================================================================
