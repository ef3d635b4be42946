-------------------------------- MODULE Ledger --------------------------------
(***************************************************************************)
(* The accounts of the double-entry ledger and one transfer between two of *)
(* them (wallet/models.py, wallet/service.py).                             *)
(***************************************************************************)
EXTENDS Integers

CONSTANTS
    NumAccounts,                \* accounts are numbered in the order of their UUIDs
    HousePromo, HouseRevenue    \* the seeded system accounts

Account == 1..NumAccounts

ASSUME SystemAccountsAssumption ==
    /\ NumAccounts \in Nat
    /\ HousePromo \in Account /\ HouseRevenue \in Account /\ HousePromo # HouseRevenue

\* A transfer: amount from the debit to the credit account.
Leg(debit, credit, amount) == [debit |-> debit, credit |-> credit, amount |-> amount]
NoLeg == Leg(HousePromo, HouseRevenue, 0)

\* What a transfer changes in an account.
Move(leg, a) == (IF a = leg.credit THEN leg.amount ELSE 0)
              - (IF a = leg.debit  THEN leg.amount ELSE 0)
=============================================================================
