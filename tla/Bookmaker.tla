------------------------------ MODULE Bookmaker ------------------------------
(***************************************************************************)
(* What the betting services promise, with no request in flight, no lock   *)
(* and no transfer: every operation on bets is one step that takes bets    *)
(* from a status to another, all at once, and the money follows the rows.  *)
(***************************************************************************)
EXTENDS Positions

CONSTANT WinnerIds
VARIABLES bet, balance

\* Each account changes by what the bets that changed account for.
MoneyFollows ==
    /\ balance' \in [Account -> Nat]
    /\ \A a \in Account : balance'[a] - balance[a] = Holding(bet', a) - Holding(bet, a)

Fund(u) ==
    /\ UNCHANGED bet
    /\ LET amount == balance'[WalletOf[u]] - balance[WalletOf[u]] IN
         /\ amount > 0 /\ amount <= balance[HousePromo]
         /\ balance' = [a \in Account |->
                          balance[a] + Move(Leg(HousePromo, WalletOf[u], amount), a)]

Place(b) ==
    /\ bet[b] = NoBet
    /\ bet'[b] \in BetRow /\ bet'[b].status = "PENDING"
    /\ bet' = [bet EXCEPT ![b] = bet'[b]]
    /\ MoneyFollows

CashOut(b) ==
    /\ bet[b].status = "PENDING"
    /\ \E price \in Quote :
         bet' = [bet EXCEPT ![b].status = "CLOSED", ![b].exit_odds = price]
    /\ MoneyFollows

\* The bets of rows, all on market m, go from one of the statuses to another.
Turn(m, rows, from, to(_)) ==
    /\ rows # {}
    /\ \A b \in rows : bet[b].status \in from /\ bet[b].market = m
    /\ bet' = [b \in Bets |-> IF b \in rows THEN [bet[b] EXCEPT !.status = to(b)]
                                           ELSE bet[b]]
    /\ MoneyFollows

Settle(m, winner, rows) ==
    LET verdict(b) == IF bet[b].outcome = winner THEN "SETTLED_WON" ELSE "SETTLED_LOST"
    IN  Turn(m, rows, {"PENDING"}, verdict)

Reverse(m, rows) == LET pending(b) == "PENDING" IN Turn(m, rows, Settled, pending)

Init ==
    /\ bet = [b \in Bets |-> NoBet]
    /\ balance \in [Account -> Nat]

Next ==
    \/ \E u \in Users : Fund(u)
    \/ \E b \in Bets : Place(b) \/ CashOut(b)
    \/ \E m \in Markets, rows \in SUBSET Bets :
         Reverse(m, rows) \/ \E winner \in WinnerIds : Settle(m, winner, rows)

Spec == Init /\ [][Next]_<<bet, balance>>
=============================================================================
