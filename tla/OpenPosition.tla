---------------------------- MODULE OpenPosition ----------------------------
(***************************************************************************)
(* The marks of one open position while its market is requoted             *)
(* (bets/portfolio.py over settlement/payout.py): what a win would pay at  *)
(* the locked price, and what a cash-out pays at the current one.          *)
(***************************************************************************)
EXTENDS Payout

CONSTANTS
    HeldStakes, \* stakes of the position
    Entries,    \* prices it may have been locked at
    Requotes,   \* quotes its outcome may get
    Gone        \* the quote of a market that is not there any more

ASSUME PositionAssumption ==
    /\ HeldStakes \subseteq Amount /\ Entries \subseteq Price /\ Requotes \subseteq Quote
    /\ Gone \notin Quote

VARIABLES
    held_stake, held_price,     \* of the bets row: stake, odds_at_placement
    shown_quote                 \* of its outcome, Gone when the market is gone
positionVars == <<held_stake, held_price, shown_quote>>

\* get_portfolio reads the quote of the outcome through the market port; a
\* position whose market it does not find has none, and is shown at its stake.
current_odds == shown_quote
priced       == current_odds # Gone

potential_payout == compute_payout(held_stake, held_price)
current_value    == IF priced THEN cashout_value(held_stake, held_price, current_odds)
                    ELSE quantize_money(held_stake, 1)
unrealized_pnl   == profit_or_loss(held_stake, current_value)

PositionInit == held_stake \in HeldStakes /\ held_price \in Entries /\ shown_quote \in Requotes

\* update_market or the Polymarket sync writes another quote.
Requote(new) ==
    /\ priced
    /\ shown_quote' = new
    /\ UNCHANGED <<held_stake, held_price>>

\* update_house_event replaces the outcomes of an event that had no bets when it
\* looked: the market of a bet placed meanwhile is gone (EventSettlement).
MarketReplaced ==
    /\ priced
    /\ shown_quote' = Gone
    /\ UNCHANGED <<held_stake, held_price>>

PositionNext == MarketReplaced \/ \E new \in Requotes : Requote(new)
PositionSpec == PositionInit /\ [][PositionNext]_positionVars

-----------------------------------------------------------------------------
\* The nearest whole amount to num/den, a tie going up: what ROUND_HALF_UP means.
IsNearest(amount, num, den) ==
    /\ \A other \in {amount - 1, amount + 1} :
         LET distance(x) == IF x * den >= num THEN x * den - num ELSE num - x * den
         IN  distance(amount) <= distance(other)
    /\ 2 * (num - amount * den) # den

\* Both marks are the ledger amounts nearest to the exact quotient: a payout
\* neither drifts by a unit nor favours the house on a tie.
MarksAreNearest ==
    /\ IsNearest(potential_payout, held_stake * PriceScale, held_price)
    /\ priced => IsNearest(current_value, held_stake * current_odds, held_price)

\* Selling and holding agree at the ends: a certain outcome sells for what the
\* win pays, an impossible one for nothing, an unmoved quote or a lost market for
\* the stake, and nothing makes a sale worth more than the win.
SaleAgreesWithSettlement ==
    /\ current_odds = PriceScale => current_value = potential_payout
    /\ current_odds = 0 => unrealized_pnl = -held_stake
    /\ current_odds \in {held_price, Gone} => unrealized_pnl = 0
    /\ current_value <= potential_payout
=============================================================================
