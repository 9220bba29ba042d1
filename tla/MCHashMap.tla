------------------------------ MODULE MCHashMap ------------------------------
(***************************************************************************)
(* Five keys whose hashes collide in small arrays and partly in larger     *)
(* ones; arrays of one, two or three buckets that may grow to six.         *)
(***************************************************************************)
EXTENDS HashMap, TLC

CONSTANTS k1, k2, k3, k4, k5

MCHash == k1 :> 0 @@ k2 :> 4 @@ k3 :> 5 @@ k4 :> 7 @@ k5 :> 12
=============================================================================
