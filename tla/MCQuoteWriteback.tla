--------------------------- MODULE MCQuoteWriteback --------------------------
(***************************************************************************)
(* QuoteWriteback for TLC.  The picks are interchangeable, and so are the  *)
(* requests; the companies are not, one is Home.                           *)
(***************************************************************************)
EXTENDS QuoteWriteback, TLC

Symmetry == Permutations(Picks) \cup Permutations(Calls)
=============================================================================
