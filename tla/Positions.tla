------------------------------ MODULE Positions ------------------------------
(***************************************************************************)
(* The rows of the bets table and the money a bet row stands for (bets/    *)
(* models.py, bets/portfolio.py, wallet/constants.py).                     *)
(***************************************************************************)
EXTENDS Payout, Sums, Ledger

CONSTANTS
    Users,            \* players
    Markets,          \* house markets (binary: outcomes YES and NO)
    Stakes,           \* stakes within the limits of every market
    MaxBets,          \* bound: rows of the bets table, numbered as inserted
    WalletOf, LiabilityOf,   \* the accounts of the players and of the markets
    None

Bets     == 1..MaxBets
Outcomes == {"YES", "NO"}
Settled  == {"SETTLED_WON", "SETTLED_LOST"}

ASSUME SizesAssumption == MaxBets \in Nat
ASSUME StakesAssumption == Stakes \subseteq Amount
ASSUME AccountsAssumption ==
    /\ WalletOf \in [Users -> Account]
    /\ LiabilityOf \in [Markets -> Account]
\* accounts_owner_kind_currency_key: an account row has one owner and one kind.
ASSUME DistinctAccounts ==
    /\ \A u \in Users : WalletOf[u] \notin {HousePromo, HouseRevenue}
    /\ \A m \in Markets : LiabilityOf[m] \notin {HousePromo, HouseRevenue}
    /\ \A u \in Users, m \in Markets : WalletOf[u] # LiabilityOf[m]
    /\ \A u, v \in Users : WalletOf[u] = WalletOf[v] => u = v
    /\ \A m, n \in Markets : LiabilityOf[m] = LiabilityOf[n] => m = n

-----------------------------------------------------------------------------
NoBet     == [status |-> "NONE"]       \* a row that has not been inserted yet
BetStatus == {"PENDING", "CLOSED"} \cup Settled
BetRow    == [status: BetStatus, user: Users, market: Markets, outcome: Outcomes,
              stake: Stakes, odds: Quote, exit_odds: Quote \cup {None}]

\* realized_pnl of the portfolio, from the row alone.
RealizedPnl(row) ==
    profit_or_loss(row.stake,
        CASE row.status = "SETTLED_WON"  -> compute_payout(row.stake, row.odds)
          [] row.status = "SETTLED_LOST" -> 0
          [] row.status = "CLOSED"       -> cashout_value(row.stake, row.odds, row.exit_odds))

\* The money a bet accounts for: its stake in escrow while it is pending, its
\* realized gain from house_promo or its loss to house_revenue after that.
Position(row) ==
    IF row.status = "NONE" THEN NoLeg
    ELSE IF row.status = "PENDING"
    THEN Leg(WalletOf[row.user], LiabilityOf[row.market], row.stake)
    ELSE IF RealizedPnl(row) >= 0
    THEN Leg(HousePromo, WalletOf[row.user], RealizedPnl(row))
    ELSE Leg(WalletOf[row.user], HouseRevenue, -RealizedPnl(row))

\* What all bets together have changed in an account.
Holding(rows, a) == SumTo([b \in Bets |-> Move(Position(rows[b]), a)], MaxBets)
=============================================================================
