---------------------------- MODULE MCCalculation ---------------------------
(***************************************************************************)
(* Calculation for TLC: two parameters of two values.  The rule is "the    *)
(* first needs the second": alone the first breaks it, neither is missing  *)
(* both.  A second generation of the data mends the broken rule, breaks    *)
(* one where inputs were missing, loses an option the second parameter had *)
(* and has no solution for the two.                                        *)
(***************************************************************************)
EXTENDS Calculation, TLC

MCFields == {"f", "g"}

MCVals == {0, 1}

FirstClass(x) ==
  CASE x["f"] = 0 /\ x["g"] = 0 -> "missing"
    [] x["f"] = 1 /\ x["g"] = 0 -> "conflict"
    [] OTHER -> "ok"

SecondClass(x) ==
  CASE x["f"] = 1 /\ x["g"] = 1 -> "none"
    [] x["f"] = 0 /\ x["g"] = 0 -> "conflict"
    [] x["f"] = 0 /\ x["g"] = 1 -> "missing"
    [] OTHER -> "ok"

MCClass == [x \in Inputs |-> [g \in 0..MaxGen |-> IF g = 0 THEN FirstClass(x) ELSE SecondClass(x)]]

Symmetry == Permutations(Calls)
=============================================================================
