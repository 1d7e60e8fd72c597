---------------------------- MODULE Negotiation -----------------------------
(***************************************************************************)
(* What the project lifecycle promises a client and its supplier, said     *)
(* without rows, events or requests: one document changes hands, only the  *)
(* side whose turn it is writes it, and whatever the supplier changed is   *)
(* shared with the client by the time the document leaves its hands.  An   *)
(* agreed offer is the end.  A document of the supplier's own is written   *)
(* until it is posted.  ProjectLifecycle implements it.                    *)
(***************************************************************************)
CONSTANTS Docs, Blank, None

VARIABLES
  turn,    \* whose hands the document is in
  doc,     \* the document
  shared   \* the document as both sides last saw it

nvars == <<turn, doc, shared>>

Turns ==
  {"draft", "inbox", "staff", "returned", "offer", "agreed", "refused", "own", "posted", "discarded"}

\* What leaves one side's hands is what both have seen.
Share(next) == turn' = next /\ shared' = doc /\ UNCHANGED doc

NInit == turn \in {"draft", "own"} /\ doc = Blank /\ shared = None

ClientWrites == turn \in {"draft", "returned"} /\ doc' \in Docs /\ UNCHANGED <<turn, shared>>

StaffWrites == turn \in {"staff", "own"} /\ doc' \in Docs /\ UNCHANGED <<turn, shared>>

HandOver == turn \in {"draft", "returned"} /\ Share("inbox")

TakeBack == turn = "inbox" /\ turn' = "draft" /\ UNCHANGED <<doc, shared>>

TakeUp == turn = "inbox" /\ turn' = "staff" /\ UNCHANGED <<doc, shared>>

HandBack == turn \in {"inbox", "staff"} /\ Share("returned")

Refuse == turn \in {"inbox", "staff"} /\ Share("refused")

Offer == turn = "staff" /\ Share("offer")

Agree == turn = "offer" /\ turn' = "agreed" /\ UNCHANGED <<doc, shared>>

TurnDown == turn = "offer" /\ turn' = "staff" /\ UNCHANGED <<doc, shared>>

Post == turn = "own" /\ Share("posted")

\* Only the side that has the document discards it, and never in the middle of
\* a negotiation.
Discard == turn \in {"draft", "own", "posted"} /\ turn' = "discarded" /\ shared' = None /\ UNCHANGED doc

NNext ==
  \/ ClientWrites \/ StaffWrites \/ HandOver \/ TakeBack \/ TakeUp \/ HandBack
  \/ Refuse \/ Offer \/ Agree \/ TurnDown \/ Post \/ Discard

NSpec == NInit /\ [][NNext]_nvars
=============================================================================
