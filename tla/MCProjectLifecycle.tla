------------------------- MODULE MCProjectLifecycle -------------------------
(***************************************************************************)
(* ProjectLifecycle for TLC: two interchangeable members of staff, one     *)
(* buyer seat (a second buyer's request is the first's, made again), and   *)
(* as many requests in flight as the run says.                             *)
(***************************************************************************)
EXTENDS ProjectLifecycle, TLC

Symmetry == Permutations(Staff) \cup Permutations(Calls)
=============================================================================
