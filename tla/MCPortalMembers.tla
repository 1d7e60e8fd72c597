--------------------------- MODULE MCPortalMembers --------------------------
(* PortalMembers for TLC: see the README for the bounds.  Ids and workers    *)
(* are interchangeable, and every property is a safety property.             *)
EXTENDS PortalMembers, TLC

CONSTANTS u1, u2, d1
MCDomainOf == (u1 :> d1 @@ u2 :> None)
Symmetry == UNION {Permutations(S) : S \in {LeadCards, Invitations, RowIds, Calls}}
=============================================================================
