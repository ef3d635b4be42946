------------------------------- MODULE Payout -------------------------------
(***************************************************************************)
(* The money arithmetic of settlement/payout.py.  An amount is an integer  *)
(* number of ledger units (NUMERIC(18,4): one unit is 0.0001 PLAY_USD).  A *)
(* price or quote is an integer number of odds units (NUMERIC(8,6)), of    *)
(* which PriceScale make the price 1.0.  Decimal keeps 28 digits, so the   *)
(* quotient that is rounded is exact at this scale and the only rounding   *)
(* is the one of quantize_money.                                           *)
(***************************************************************************)
EXTENDS Integers

CONSTANT PriceScale
ASSUME PriceScaleAssumption == PriceScale \in Nat \ {0}

Amount == Nat \ {0}
Price  == 1..PriceScale         \* (0, 1]: what compute_payout accepts
Quote  == 0..PriceScale         \* [0, 1]: what an outcome row may hold

\* Mutation: rounded down.
truncated(num, den) == num \div den

\* ROUND_HALF_UP of the non-negative quotient num/den to a whole unit.
quantize_money(num, den) == (2 * num + den) \div (2 * den)

\* Mutation: a payout that is not quantized like a cash-out.
payout_truncated(stake, price) == (stake * PriceScale) \div price

\* Gross payout of a winning bet: stake / price.
compute_payout(stake, price) == quantize_money(stake * PriceScale, price)

profit_or_loss(stake, payout) == payout - stake

\* Value of a position at the current quote: stake * quote / entry price.
cashout_value(stake, entry, current) == quantize_money(stake * current, entry)

\* The units held, stake / price, have no finite price when the price is 0.
Payable(stake, price) == stake > 0 /\ price \in Price
=============================================================================
