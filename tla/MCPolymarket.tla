---------------------------- MODULE MCPolymarket ----------------------------
(* PolymarketSync for TLC. *)
EXTENDS PolymarketSync

CONSTANTS m1

\* One category with one event.
OneCategory == <<{m1}>>
=============================================================================
