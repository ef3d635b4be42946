------------------------------ MODULE MCBetting ------------------------------
(***************************************************************************)
(* Small instances of Betting for TLC.  house_promo and house_revenue have *)
(* the lowest UUIDs (wallet/constants.py); the wallets and the liability   *)
(* accounts follow.                                                        *)
(***************************************************************************)
EXTENDS Betting, TLC

CONSTANTS u1, u2, m1, m2, t1, t2, t3

OneWallet   == (u1 :> 3)
TwoWallets  == (u1 :> 3 @@ u2 :> 5)
OnePool     == (m1 :> 4)
TwoPools    == (m1 :> 4 @@ m2 :> 5)

\* The ids are in the opposite order of the insertions.
Backwards == [b \in Bets |-> MaxBets - b]

Requests == Permutations(Tx)
=============================================================================
