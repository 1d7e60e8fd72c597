-------------------------- MODULE MCSapConnection --------------------------
(* SapConnection for TLC: see the README for the bounds.  Companies and      *)
(* queries are interchangeable, so one initial state stands for all; the     *)
(* liveness property rules TLC's own symmetry out.                           *)
EXTENDS SapConnection

MCInit == Init /\ agent = (CHOOSE c \in Companies : TRUE) /\ md.query = (CHOOSE q \in Queries : TRUE)
MCSpec == MCInit /\ [][Next]_vars /\ \A r \in Requests : WF_vars(Advance(r))
=============================================================================
