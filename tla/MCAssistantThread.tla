------------------------- MODULE MCAssistantThread --------------------------
(* AssistantThread for TLC: see the README for the bounds.  Threads and runs *)
(* are interchangeable, and every property is a safety property.             *)
EXTENDS AssistantThread, TLC

Symmetry == Permutations(Threads) \cup Permutations(Runs)
=============================================================================
