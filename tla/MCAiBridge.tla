------------------------------ MODULE MCAiBridge ------------------------------
(***************************************************************************)
(* Two threads make two calls with answers of two chunks.  The             *)
(* configurations ask for the mock, for a provider of the application, and *)
(* for the model with each kind of cache and with parts of the access      *)
(* missing.                                                                *)
(***************************************************************************)
EXTENDS AiBridge, TLC

CONSTANTS t1, t2, mine

C(mock, access, store, who) == [mock |-> mock, access |-> access, cache |-> store, provider |-> who]

MCConfigs ==
  {DefaultConfig, C(FALSE, "full", "own", mine),
   C(FALSE, "full", "own", DefaultName), C(FALSE, "full", "driver", DefaultName),
   C(FALSE, "partial", "none", DefaultName), C(FALSE, "none", "none", DefaultName)}
ThreadSymmetry == Permutations(Threads)
=============================================================================
