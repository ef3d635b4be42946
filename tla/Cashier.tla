------------------------------- MODULE Cashier -------------------------------
(***************************************************************************)
(* What the wallet and the live-bets bridge promise, with no request in    *)
(* flight, no lock and no transfer: each operation moves its money in one  *)
(* step, at most once; a live bet is mirrored once and settled once, as    *)
(* live-bets reports it, to the wallet that staked.                        *)
(***************************************************************************)
EXTENDS Ledger

CONSTANTS
    Users, WalletOf, Pool, Escrow, NumLiveBets, Stakes,
    ClientKeys, Amounts, BonusAmount, MaxStakes, PromoOpening, None

VARIABLES
    balance,     \* the accounts
    done,        \* the recharges, bonuses and stakes that have moved money
    mirror,      \* the live bets as the wallet has them
    reported     \* the live bets as live-bets has them

vars == <<balance, done, mirror, reported>>

LiveBets == 1..NumLiveBets
NoMirror == [status |-> "NONE"]
Refunded == {"REFUNDED", "VOIDED"}
Terminal == {"WON", "LOST"} \cup Refunded

\* Both transfers or none; no account is left below zero.
Moves(leg, other) ==
    /\ balance' = [a \in Account |-> balance[a] + Move(leg, a) + Move(other, a)]
    /\ \A a \in Account : balance'[a] >= 0

Once(key, leg) ==
    /\ key \notin done /\ done' = done \cup {key}
    /\ Moves(leg, NoLeg)
    /\ UNCHANGED <<mirror, reported>>

Recharge(k, u, amount) == Once(<<"recharge", k>>, Leg(HousePromo, WalletOf[u], amount))
GrantBonus(u)          == Once(<<"bonus", u>>, Leg(HousePromo, WalletOf[u], BonusAmount))
Stake(n, u, stake)     == Once(<<"bet", n>>, Leg(WalletOf[u], Pool, stake))

\* The stake is the one of live-bets, as long as that has not settled the bet.
Place(b, u, stake) ==
    /\ mirror[b] = NoMirror
    /\ reported[b].status = "PENDING" => stake = reported[b].stake
    /\ mirror' = [mirror EXCEPT ![b] = [user |-> u, stake |-> stake, status |-> "PENDING"]]
    /\ Moves(Leg(WalletOf[u], Escrow, stake), NoLeg)
    /\ UNCHANGED <<done, reported>>

\* A lost stake is the house's; a refunded one goes back; a won one goes back
\* with the winnings, which the house pays.
Settle(b) ==
    LET bet == mirror[b]
        view == reported[b]
        wallet == WalletOf[bet.user]
    IN  /\ bet.status = "PENDING" /\ view.status \in Terminal /\ view.stake = bet.stake
        /\ view.status = "WON" => view.payout # None /\ view.payout >= bet.stake
        /\ mirror' = [mirror EXCEPT ![b].status = view.status]
        /\ Moves(Leg(Escrow, IF view.status = "LOST" THEN HouseRevenue ELSE wallet, bet.stake),
                 IF view.status = "WON" THEN Leg(HousePromo, wallet, view.payout - bet.stake)
                                        ELSE NoLeg)
        /\ UNCHANGED <<done, reported>>

Report(b) ==
    /\ reported[b].status = "PENDING" /\ reported'[b].status \in Terminal
    /\ reported' = [reported EXCEPT ![b] = reported'[b]]
    /\ UNCHANGED <<balance, done, mirror>>

Init ==
    /\ balance = [a \in Account |-> IF a = HousePromo THEN PromoOpening ELSE 0]
    /\ done = {}
    /\ mirror = [b \in LiveBets |-> NoMirror]
    /\ \A b \in LiveBets : reported[b].status = "PENDING"

Next ==
    \/ \E u \in Users : \/ GrantBonus(u)
                        \/ \E k \in ClientKeys, amount \in Amounts : Recharge(k, u, amount)
                        \/ \E n \in 1..MaxStakes, stake \in Stakes : Stake(n, u, stake)
                        \/ \E b \in LiveBets, stake \in Stakes : Place(b, u, stake)
    \/ \E b \in LiveBets : Settle(b) \/ Report(b)

Spec == Init /\ [][Next]_vars
=============================================================================
