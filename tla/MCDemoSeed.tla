------------------------------ MODULE MCDemoSeed ------------------------------
(* DemoSeed for TLC. *)
EXTENDS DemoSeed

CONSTANTS p1, p2, e1, e2, b1, b2

DemoPlayers == <<p1, p2>>
DemoEvents  == <<e1, e2>>
DemoBets    == <<b1, b2>>
=============================================================================
