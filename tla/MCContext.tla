------------------------------ MODULE MCContext ------------------------------
(***************************************************************************)
(* Three variables, one of them read-only, with every kind of value, and   *)
(* two documents: one with a nested object, a name that occurs twice and a *)
(* null, the other with an array that a number replaces.                   *)
(***************************************************************************)
EXTENDS Context

CONSTANTS x, y, ro, i1, str, arr

M(n, d, v) == [name |-> n, depth |-> d, value |-> v]

Nested ==
  <<M(ro, 0, i1), M(ro, 0, arr), M(x, 0, Object), M(y, 1, arr), M(y, 1, Null),
    M(x, 0, str)>>
Flat == <<M(x, 0, arr), M(x, 0, i1), M(ro, 0, Null), M(y, 0, str)>>

MCDocuments == {Nested, Flat}
=============================================================================
