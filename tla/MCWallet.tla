------------------------------- MODULE MCWallet -------------------------------
(***************************************************************************)
(* Small instances of WalletTransactions for TLC.  The seeded accounts     *)
(* have the lowest UUIDs (a1, a2, b1), wallets and liability accounts      *)
(* random ones above them.                                                 *)
(***************************************************************************)
EXTENDS WalletTransactions, TLC

CONSTANTS u1, u2, k1, t1, t2, t3

OneWallet  == (u1 :> 5)
TwoWallets == (u1 :> 5 @@ u2 :> 6)

Requests == Permutations(Tx)
=============================================================================
