---------------------------- MODULE MCOddsStream ----------------------------
(* The instance of OddsStream for TLC: every page watches the same market.    *)
EXTENDS OddsStream

CONSTANTS m1

SameMarket == [c \in Clients |-> m1]
=============================================================================
