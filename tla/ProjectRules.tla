---------------------------- MODULE ProjectRules ----------------------------
(***************************************************************************)
(* Who may see and who may write a project, as constant-level operators:   *)
(* the rules apps/server/src/project-lifecycle.ts exports and every other  *)
(* writer of a config_project row cites.  A project is either a client's   *)
(* (portal: portalCardCode is set) or the staff's own.                     *)
(***************************************************************************)

Sides == {"internal", "external"}

Statuses == {"draft", "submitted", "in_review", "returned", "declined", "quoted"}

\* internalVisible and fenced: a client sees its own company's projects, staff
\* see everything but a client's draft.
Visible(portal, status, side) ==
  IF side = "external" THEN portal ELSE ~portal \/ status # "draft"

\* canWrite: the side table.  One side owns each status; nobody owns submitted,
\* declined or quoted.
CanWrite(portal, status, side) ==
  IF portal
  THEN \/ side = "external" /\ status \in {"draft", "returned"}
       \/ side = "internal" /\ status = "in_review"
  ELSE side = "internal" /\ status # "quoted"

\* Mutant: the WHERE of a client's UPDATE keeps the seat's fence only.
WritableByFence(portal, status, side) ==
  IF side = "external" THEN portal ELSE status # "quoted" /\ (~portal \/ status = "in_review")

\* Mutant: staff may write any request that is not quoted.
WritableByUnquoted(portal, status, side) ==
  IF side = "external" THEN portal /\ status \in {"draft", "returned"} ELSE status # "quoted"

\* writableBy: the same rule as the WHERE of the UPDATE, with the seat's fence
\* (a client's UPDATE also matches its own portalCardCode).
WritableBy(portal, status, side) ==
  IF side = "external"
  THEN portal /\ status \in {"draft", "returned"}
  ELSE status # "quoted" /\ (~portal \/ status = "in_review")

\* The states a transition leaves from: an internal-only configuration knows
\* `quote` alone, straight from draft.
FromOf(portal, action, from) ==
  IF portal THEN from ELSE IF action = "quote" THEN {"draft"} ELSE {}
=============================================================================
