--------------------------- MODULE MCConfigEngine ---------------------------
(* ConfigEngine for TLC: three parameters of two options and one of free     *)
(* text, and every model of at most two rules and two conditions from a menu.*)
EXTENDS ConfigEngine

CONSTANTS pa, pb, pc, free
MCValues == {1, 2}
MCParams == {pa, pb, pc, free}
MCDomain == [p \in MCParams |-> IF p = free THEN {} ELSE MCValues]

Row(x, v, y, w) == [p \in {x, y} |-> IF p = x THEN v ELSE w]
Table(kind, x, y, rows) == [kind |-> kind, params |-> {x, y}, rows |-> rows, when |-> Unset]
Menu ==
  {Table(kind, x, y, {Row(x, 1, y, 1), Row(x, 2, y, 2)}) :
     kind \in {"allow", "deny", "assert"}, x \in {pa}, y \in {pb, pc, free}}
  \cup {Table(kind, pb, pc, {Row(pb, 1, pc, 2)}) : kind \in {"allow", "deny", "assert"}}
  \cup {[kind |-> "deny", params |-> {pa, pb, pc}, rows |-> {[p \in {pa, pb, pc} |-> 1]}, when |-> Unset],
        [kind |-> "assert", params |-> {pb, pc}, when |-> [of |-> pa, is |-> 1],
         rows |-> {Row(pb, 1, pc, 1), Row(pb, 2, pc, Null), Row(pb, Null, pc, 2)}],
        [kind |-> "assert", params |-> {pa, pb, pc}, rows |-> {[p \in {pa, pb, pc} |-> 2]}, when |-> Unset]}
(* None; one by another, either way; a chain; two by one; and two that chase  *)
(* each other.                                                               *)
ShownBy(f) == [p \in MCParams |-> IF p \in DOMAIN f THEN [of |-> f[p], is |-> 1] ELSE Unset]
Conditions == {ShownBy(f) : f \in {[p \in {} |-> pa], pb :> pa, pa :> pb, pc :> free,
                                   pb :> pa @@ pc :> pb, pb :> pa @@ pc :> pa, pa :> pb @@ pb :> pa}}
MCModels == [rules : {S \in SUBSET Menu : Cardinality(S) <= 2}, shows : Conditions,
             default : {[p \in MCParams |-> IF p = pc THEN v ELSE Unset] : v \in {1, Unset}},
             partial : {{}, {pb}}]
MCGiven == {[p \in {} |-> 1], pa :> 1, pa :> 2, pb :> 1, pc :> 2, free :> 1, free :> 2,
            pa :> 2 @@ pb :> 1, pb :> 2 @@ pc :> 1, pa :> 1 @@ free :> 2}
=============================================================================
