---------------------------- MODULE BettingProofs ----------------------------
(***************************************************************************)
(* Proofs about Betting, for any number of users, markets, bets and        *)
(* concurrent requests: the arithmetic of settlement/payout.py, what a bet *)
(* row accounts for, the invariants, and that Betting implements Bookmaker.*)
(***************************************************************************)
EXTENDS Betting, OpenPosition, ArithmeticProofs

-----------------------------------------------------------------------------
(* The money arithmetic *)

(* quantize_money returns a whole number of units within half a unit of    *)
(* the exact quotient, and rounds a tie upwards.                           *)
THEOREM QuantizeIsHalfUp ==
    ASSUME NEW num \in Nat, NEW den \in Nat \ {0}
    PROVE  /\ quantize_money(num, den) \in Nat
           /\ (2 * den) * quantize_money(num, den) <= 2 * num + den
           /\ 2 * num + den < (2 * den) * quantize_money(num, den) + 2 * den
BY HalfUpBounds DEF quantize_money, HalfUp

LEMMA QuantizeBrackets ==
    ASSUME NEW num \in Nat, NEW den \in Nat \ {0}, NEW k \in Nat
    PROVE  /\ den * k <= num => k <= quantize_money(num, den)
           /\ num <= den * k => quantize_money(num, den) <= k
BY HalfUpBrackets DEF quantize_money, HalfUp

(* A winner is never paid less than the stake back: the winnings leg that  *)
(* house_promo posts is never negative.                                    *)
THEOREM PayoutCoversStake ==
    ASSUME NEW stake \in Amount, NEW price \in Price
    PROVE  /\ compute_payout(stake, price) \in Nat
           /\ stake <= compute_payout(stake, price)
           /\ price = PriceScale => compute_payout(stake, price) = stake
<1>1. /\ stake * PriceScale \in Nat /\ price \in Nat \ {0} /\ stake \in Nat
      /\ price \in Int /\ PriceScale \in Nat /\ price <= PriceScale
  BY PriceScaleAssumption DEF Amount, Price
<1>2. stake * price <= stake * PriceScale
  BY <1>1, MulMono
<1>3. price * stake <= stake * PriceScale
  BY <1>1, <1>2
<1>4. price = PriceScale => stake * PriceScale <= price * stake
  BY <1>1
<1>5. compute_payout(stake, price) \in Nat
  BY <1>1, QuantizeIsHalfUp DEF compute_payout
<1>6. stake <= compute_payout(stake, price)
  BY <1>1, <1>3, QuantizeBrackets DEF compute_payout
<1>7. price = PriceScale => compute_payout(stake, price) <= stake
  BY <1>1, <1>4, QuantizeBrackets DEF compute_payout
<1>8. QED  BY <1>1, <1>5, <1>6, <1>7

(* Cashing out at any quote is worth between nothing and what a win pays,  *)
(* and at the entry price it is worth exactly the stake.                   *)
THEOREM CashoutBounds ==
    ASSUME NEW stake \in Amount, NEW entry \in Price, NEW current \in Quote
    PROVE  /\ cashout_value(stake, entry, current) \in Nat
           /\ cashout_value(stake, entry, current) <= compute_payout(stake, entry)
           /\ current = entry => cashout_value(stake, entry, current) = stake
<1>1. /\ stake \in Nat /\ entry \in Nat \ {0} /\ current \in Nat
      /\ PriceScale \in Nat /\ current <= PriceScale
  BY PriceScaleAssumption DEF Amount, Price, Quote
<1>2. stake * current \in Nat /\ stake * PriceScale \in Nat
  BY <1>1
<1>3. cashout_value(stake, entry, current) \in Nat
  BY <1>1, <1>2, QuantizeIsHalfUp DEF cashout_value
<1>4. cashout_value(stake, entry, current) <= compute_payout(stake, entry)
  <2>1. stake * current <= stake * PriceScale
    BY <1>1, MulMono
  <2>2. QED
    BY <1>1, <1>2, <2>1, HalfUpMonotone
    DEF cashout_value, compute_payout, quantize_money, HalfUp
<1>5. ASSUME current = entry PROVE cashout_value(stake, entry, current) = stake
  <2>1. entry * stake <= stake * current /\ stake * current <= entry * stake
    BY <1>1, <1>5
  <2>2. QED  BY <1>1, <1>2, <1>3, <2>1, QuantizeBrackets DEF cashout_value
<1>6. QED  BY <1>3, <1>4, <1>5

-----------------------------------------------------------------------------
(* What a bet row accounts for, and how the total over all bets changes.   *)

\* A bet that has been paid has a price it could be paid at.
SoundRow(row) ==
    \/ row = NoBet
    \/ /\ row \in BetRow
       /\ row.status \in {"SETTLED_WON", "CLOSED"} => row.odds \in Price
       /\ row.status = "CLOSED" => row.exit_odds \in Quote

LEMMA ConstantTypes ==
    /\ MaxBets \in Nat /\ NumAccounts \in Nat
    /\ \A a \in Account : a \in Int
    /\ HousePromo \in Account /\ HouseRevenue \in Account
    /\ \A u \in Users : WalletOf[u] \in Account
    /\ \A m \in Markets : LiabilityOf[m] \in Account
    /\ \A s \in Stakes : s \in Nat /\ s > 0 /\ s \in Amount
BY SizesAssumption, SystemAccountsAssumption, AccountsAssumption, StakesAssumption
   DEF Account, Amount

(* A transfer of a whole amount changes an account by a whole amount. *)
LEMMA MoveInt ==
    ASSUME NEW leg, leg.amount \in Int, NEW a
    PROVE  Move(leg, a) \in Int
BY DEF Move

(* The realized P&L of a won, lost or closed bet is a whole number: a win  *)
(* never costs the player, a loss costs the stake.                         *)
LEMMA RealizedPnlBounds ==
    ASSUME NEW row \in BetRow, SoundRow(row), row.status # "PENDING"
    PROVE  /\ RealizedPnl(row) \in Int
           /\ row.status = "SETTLED_WON" =>
                /\ RealizedPnl(row) = compute_payout(row.stake, row.odds) - row.stake
                /\ RealizedPnl(row) \in Nat
           /\ row.status = "SETTLED_LOST" => RealizedPnl(row) = -row.stake
           /\ row.status = "CLOSED" =>
                /\ RealizedPnl(row) = cashout_value(row.stake, row.odds, row.exit_odds) - row.stake
                /\ cashout_value(row.stake, row.odds, row.exit_odds) \in Nat
<1>1. row.stake \in Amount /\ row.stake \in Nat /\ row.stake > 0
  BY ConstantTypes DEF BetRow
<1>2. row # NoBet
  BY DEF BetRow, NoBet, BetStatus, Settled
<1>3. CASE row.status = "SETTLED_WON"
  <2>1. row.odds \in Price
    BY <1>2, <1>3 DEF SoundRow
  <2>2. /\ compute_payout(row.stake, row.odds) \in Nat
        /\ row.stake <= compute_payout(row.stake, row.odds)
    BY <1>1, <2>1, PayoutCoversStake
  <2>3. RealizedPnl(row) = compute_payout(row.stake, row.odds) - row.stake
    BY <1>3 DEF RealizedPnl, profit_or_loss
  <2> QED BY <1>1, <1>3, <2>2, <2>3
<1>4. CASE row.status = "SETTLED_LOST"
  BY <1>1, <1>4 DEF RealizedPnl, profit_or_loss
<1>5. CASE row.status = "CLOSED"
  <2>1. row.odds \in Price /\ row.exit_odds \in Quote
    BY <1>2, <1>5 DEF SoundRow
  <2>2. cashout_value(row.stake, row.odds, row.exit_odds) \in Nat
    BY <1>1, <2>1, CashoutBounds
  <2>3. RealizedPnl(row) = cashout_value(row.stake, row.odds, row.exit_odds) - row.stake
    BY <1>5 DEF RealizedPnl, profit_or_loss
  <2> QED BY <1>1, <1>5, <2>2, <2>3
<1> QED BY <1>3, <1>4, <1>5 DEF BetRow, BetStatus, Settled

(* What a row accounts for is a transfer of a whole, non-negative amount. *)
LEMMA PositionType ==
    ASSUME NEW row, SoundRow(row)
    PROVE  Position(row).amount \in Nat
<1>1. CASE row = NoBet
  BY <1>1 DEF NoBet, Position, NoLeg, Leg
<1>2. CASE row \in BetRow /\ row.status = "PENDING"
  <2>1. row.stake \in Nat
    BY <1>2, ConstantTypes DEF BetRow
  <2> QED BY <1>2, <2>1 DEF Position, Leg
<1>3. CASE row \in BetRow /\ row.status # "PENDING"
  <2>1. RealizedPnl(row) \in Int
    BY <1>3, RealizedPnlBounds
  <2>2. row.status # "NONE"
    BY <1>3 DEF BetRow, BetStatus, Settled
  <2> HIDE DEF RealizedPnl
  <2> QED BY <1>3, <2>1, <2>2 DEF Position, Leg
<1> QED BY <1>1, <1>2, <1>3 DEF SoundRow

LEMMA PositionInt ==
    ASSUME NEW row, SoundRow(row), NEW a
    PROVE  Move(Position(row), a) \in Int
BY PositionType, MoveInt

(* If each bet's share of an account changes by e[b], the total changes by *)
(* the sum of the e[b].                                                    *)
Shifted(old, new, e, a) ==
    \A b \in Bets : /\ SoundRow(old[b]) /\ e[b] \in Int
                    /\ Move(Position(new[b]), a) = Move(Position(old[b]), a) + e[b]

LEMMA HoldingStep ==
    ASSUME NEW old, NEW new, NEW e, NEW a, Shifted(old, new, e, a)
    PROVE  /\ Holding(new, a) = Holding(old, a) + SumTo(e, MaxBets)
           /\ Holding(old, a) \in Int
           /\ SumTo(e, MaxBets) \in Int
<1> DEFINE f == [b \in Bets |-> Move(Position(old[b]), a)]
           h == [b \in Bets |-> Move(Position(new[b]), a)]
<1>1. MaxBets \in Nat
  BY ConstantTypes
<1>2. \A b \in 1..MaxBets : f[b] \in Int /\ e[b] \in Int /\ h[b] = f[b] + e[b]
  BY PositionInt DEF Bets, Shifted
<1>3. SumTo(f, MaxBets) \in Int /\ SumTo(e, MaxBets) \in Int
  <2> HIDE DEF f
  <2> QED BY <1>1, <1>2, SumToInt
<1>4. SumTo(h, MaxBets) = SumTo(f, MaxBets) + SumTo(e, MaxBets)
  <2> HIDE DEF f, h
  <2> QED BY <1>1, <1>2, SumToAdd
<1> QED BY <1>3, <1>4 DEF Holding

-----------------------------------------------------------------------------
(* The inductive invariant *)

SoundRows == \A b \in Bets : SoundRow(bet[b])

LocksExclusive == \A t, u \in Tx : t # u => tx[t].held \cap tx[u].held = {}

\* What a request may rely on about the rows it has read or locked.
SaleLocal(r) ==
    /\ r.held \subseteq {r.bet}
    /\ bet[r.bet] # NoBet
    /\ r.held # {} => bet[r.bet].status = "PENDING"
    /\ r.price # None => r.held # {} /\ bet[r.bet].odds \in Price
ResolutionLocal(r) ==
    /\ r.held \subseteq r.found
    /\ \A b \in r.found : bet[b] # NoBet
    /\ r.row # None =>
         /\ r.found \subseteq r.held
         /\ \A b \in r.held : bet[b].status = "PENDING" /\ bet[b].outcome = r.winner
                                => bet[b].odds \in Price
ReversalLocal(r) ==
    /\ r.held \subseteq DOMAIN r.seen
    /\ \A b \in DOMAIN r.seen :
         /\ bet[b] # NoBet
         /\ r.seen[b] = "SETTLED_WON"  => <<"settle", b, "stake">> \in keys
         /\ r.seen[b] = "SETTLED_LOST" => <<"settle", b, "loss">> \in keys
Local(r) ==
    /\ r.op = "sell"    => SaleLocal(r)
    /\ r.op = "resolve" => ResolutionLocal(r)
    /\ r.op = "reverse" => ReversalLocal(r)
Locals == \A t \in Tx : Local(tx[t])

IInv == TypeOK /\ SoundRows /\ LocksExclusive /\ Locals /\ LedgerTellsStatus /\ Books

-----------------------------------------------------------------------------
(* Requests *)

(* The op of a request tells its locals. *)
LEMMA RequestKinds ==
    ASSUME NEW r \in Request
    PROVE  /\ r.op = "place"   => r \in Placing
           /\ r.op = "sell"    => r \in Sale
           /\ r.op = "resolve" => r \in Resolution
           /\ r.op = "reverse" => r \in Reversal
           /\ r.op \in {"close", "update"} => r \in AdminEdit
           /\ r.held \subseteq Bets
BY DEF Request, Idle, Placing, Sale, Resolution, Reversal, AdminEdit

LEMMA SeenType ==
    ASSUME NEW s \in Seen
    PROVE  DOMAIN s \subseteq Bets /\ \A b \in DOMAIN s : s[b] \in Settled
BY DEF Seen

LEMMA IdleLocal == Idle \in Request /\ Local(Idle) /\ Idle.held = {}
BY DEF Idle, Request, Local

(* A step that only moves a request on, keeps the rows it relies on and    *)
(* takes no lock that another request holds preserves the invariant.       *)
LEMMA QuietStep ==
    ASSUME IInv, NEW t \in Tx, NEW r \in Request,
           tx' = [tx EXCEPT ![t] = r],
           UNCHANGED <<bet, balance, keys, funded>>,
           market' \in [Markets -> MarketRow], clock' \in Time,
           Local(r),
           \A u \in Tx \ {t} : r.held \cap tx[u].held = {}
    PROVE  IInv'
<1> USE DEF IInv
<1>1. TypeOK'
  BY DEF TypeOK
<1>2. SoundRows'
  BY DEF SoundRows
<1>3. LocksExclusive'
  BY DEF LocksExclusive, TypeOK
<1>4. Locals'
  <2> SUFFICES ASSUME NEW u \in Tx PROVE Local(tx[u])'
    BY DEF Locals
  <2>1. Local(tx'[u])
    BY DEF Locals, TypeOK
  <2> QED BY <2>1 DEF Local, SaleLocal, ResolutionLocal, ReversalLocal
<1>5. LedgerTellsStatus'
  BY DEF LedgerTellsStatus, InForce
<1>6. Books'
  BY DEF Books, Holding
<1> QED BY <1>1, <1>2, <1>3, <1>4, <1>5, <1>6

LEMMA Finish ==
    ASSUME IInv, NEW t \in Tx, Done(t),
           UNCHANGED <<bet, balance, keys, funded>>,
           market' \in [Markets -> MarketRow], clock' \in Time
    PROVE  IInv'
BY QuietStep, IdleLocal DEF Done

(* The price of an outcome is a quote.                                     *)
LEMMA PriceOfType ==
    ASSUME TypeOK, NEW m \in Markets, NEW o
    PROVE  PriceOf(m, o) \in Quote
<1>1. market[m].yes \in Quote
  BY DEF TypeOK, MarketRow
<1> QED BY <1>1, PriceScaleAssumption DEF PriceOf, Quote

(* The row that a request asks for next is one of those it is to lock.     *)
LEMMA WantedRows ==
    ASSUME NEW t \in Tx, tx[t] \in Request
    PROVE  /\ tx[t].op = "sell"    => Wanted(t) \subseteq {tx[t].bet}
           /\ tx[t].op = "resolve" => Wanted(t) \subseteq tx[t].found \ tx[t].held
           /\ tx[t].op = "reverse" => Wanted(t) \subseteq DOMAIN tx[t].seen \ tx[t].held
BY DEF Wanted, First

-----------------------------------------------------------------------------
(* The steps that change no bet and move no money *)

LEMMA PlaceReadStep ==
    ASSUME IInv, NEW t \in Tx, NEW u \in Users, NEW m \in Markets, NEW o \in Outcomes,
           NEW s \in Stakes, PlaceRead(t, u, m, o, s)
    PROVE  IInv'
<1> DEFINE r == [op |-> "place", held |-> {}, user |-> u, market |-> m,
                 outcome |-> o, stake |-> s, price |-> PriceOf(m, o)]
<1>1. TypeOK
  BY DEF IInv
<1>2. r \in Request /\ Local(r)
  BY <1>1, PriceOfType DEF Request, Placing, Local
<1>3. tx' = [tx EXCEPT ![t] = r]
  BY DEF PlaceRead, Begin
<1>4. market' \in [Markets -> MarketRow] /\ clock' \in Time
  BY <1>1 DEF PlaceRead, TypeOK
<1>5. UNCHANGED <<bet, balance, keys, funded>>
  BY DEF PlaceRead
<1>6. r.held = {}
  OBVIOUS
<1> HIDE DEF r
<1> QED BY <1>2, <1>3, <1>4, <1>5, <1>6, QuietStep

LEMMA SellLoadStep ==
    ASSUME IInv, NEW t \in Tx, NEW b \in Bets, SellLoad(t, b)
    PROVE  IInv'
<1> DEFINE r == [op |-> "sell", held |-> {}, bet |-> b, now |-> clock, price |-> None]
<1>1. TypeOK
  BY DEF IInv
<1>2. r \in Request
  BY <1>1 DEF Request, Sale, TypeOK
<1>3. Local(r)
  BY DEF SellLoad, Local, SaleLocal, NoBet
<1>4. market' \in [Markets -> MarketRow] /\ clock' \in Time
  BY <1>1 DEF SellLoad, TypeOK
<1>5. UNCHANGED <<bet, balance, keys, funded>> /\ tx' = [tx EXCEPT ![t] = r]
  BY DEF SellLoad, Begin
<1>6. r.held = {}
  OBVIOUS
<1> HIDE DEF r
<1> QED BY <1>2, <1>3, <1>4, <1>5, <1>6, QuietStep

LEMMA SellLockStep ==
    ASSUME IInv, NEW t \in Tx, SellLock(t)
    PROVE  IInv'
<1>1. TypeOK /\ tx[t] \in Sale /\ SaleLocal(tx[t])
  BY RequestKinds DEF IInv, TypeOK, SellLock, Selling, Locals, Local
<1>2. market' \in [Markets -> MarketRow] /\ clock' \in Time
  BY <1>1 DEF SellLock, TypeOK
<1>3. UNCHANGED <<bet, balance, keys, funded>>
  BY DEF SellLock
<1>4. CASE Done(t)
  BY <1>2, <1>3, <1>4, Finish
<1>5. CASE LockNext(t) /\ bet[tx[t].bet].status = "PENDING"
  <2> DEFINE r == [tx[t] EXCEPT !.held = @ \cup Wanted(t)]
  <2>1. Wanted(t) \subseteq {tx[t].bet} /\ tx[t].op = "sell"
    BY <1>1, WantedRows DEF Sale, Request
  <2>2. r \in Request
    BY <1>1, <2>1 DEF Request, Sale
  <2>3. Local(r)
    BY <1>1, <1>5, <2>1 DEF Local, SaleLocal, Sale
  <2>4. \A u \in Tx \ {t} : r.held \cap tx[u].held = {}
    BY <1>1, <1>5 DEF LockNext, LocksFree, IInv, LocksExclusive, Sale
  <2>5. tx' = [tx EXCEPT ![t] = r]
    BY <1>5 DEF LockNext, Proceed
  <2> HIDE DEF r
  <2> QED BY <1>2, <1>3, <2>2, <2>3, <2>4, <2>5, QuietStep
<1> QED BY <1>4, <1>5 DEF SellLock

LEMMA SellReadStep ==
    ASSUME IInv, NEW t \in Tx, SellRead(t)
    PROVE  IInv'
<1>1. TypeOK /\ tx[t] \in Sale /\ SaleLocal(tx[t])
  BY RequestKinds DEF IInv, TypeOK, SellRead, Selling, Locals, Local
<1>2. market' \in [Markets -> MarketRow] /\ clock' \in Time
  BY <1>1 DEF SellRead, TypeOK
<1>3. UNCHANGED <<bet, balance, keys, funded>>
  BY DEF SellRead
<1>4. CASE Done(t)
  BY <1>2, <1>3, <1>4, Finish
<1>5. ASSUME Payable(bet[tx[t].bet].stake, bet[tx[t].bet].odds),
             Proceed(t, [tx[t] EXCEPT !.price =
                           PriceOf(bet[tx[t].bet].market, bet[tx[t].bet].outcome)])
      PROVE  IInv'
  <2> DEFINE price == PriceOf(bet[tx[t].bet].market, bet[tx[t].bet].outcome)
             r == [tx[t] EXCEPT !.price = price]
  <2>1. bet[tx[t].bet].market \in Markets
    BY <1>1 DEF TypeOK, Sale, SaleLocal, BetRow
  <2>2. price \in Quote
    BY <1>1, <2>1, PriceOfType
  <2>3. r \in Request /\ r.held = tx[t].held
    BY <1>1, <2>2 DEF Request, Sale
  <2>4. Local(r)
    BY <1>1, <1>5 DEF SellRead, Local, SaleLocal, Sale, Payable
  <2>5. \A u \in Tx \ {t} : r.held \cap tx[u].held = {}
    BY <2>3 DEF IInv, LocksExclusive
  <2>6. tx' = [tx EXCEPT ![t] = r]
    BY <1>5 DEF Proceed
  <2> HIDE DEF r
  <2> QED BY <1>2, <1>3, <2>3, <2>4, <2>5, <2>6, QuietStep
<1> QED BY <1>4, <1>5 DEF SellRead

LEMMA ResolveSelectStep ==
    ASSUME IInv, NEW t \in Tx, NEW m \in Markets, NEW w \in WinnerIds, ResolveSelect(t, m, w)
    PROVE  IInv'
<1> DEFINE r == [op |-> "resolve", held |-> {}, market |-> m, winner |-> w,
                 found |-> BetsOf(m, {"PENDING"}), row |-> None]
<1>1. TypeOK
  BY DEF IInv
<1>2. r \in Request
  BY <1>1 DEF Request, Resolution, BetsOf
<1>3. Local(r)
  BY DEF Local, ResolutionLocal, BetsOf, NoBet
<1>4. market' \in [Markets -> MarketRow] /\ clock' \in Time
  BY <1>1 DEF ResolveSelect, TypeOK
<1>5. UNCHANGED <<bet, balance, keys, funded>> /\ tx' = [tx EXCEPT ![t] = r]
  BY DEF ResolveSelect, Begin
<1>6. r.held = {}
  OBVIOUS
<1> HIDE DEF r
<1> QED BY <1>2, <1>3, <1>4, <1>5, <1>6, QuietStep

LEMMA ResolveLockStep ==
    ASSUME IInv, NEW t \in Tx, ResolveLock(t)
    PROVE  IInv'
<1> DEFINE r == [tx[t] EXCEPT !.held = @ \cup Wanted(t)]
<1>1. TypeOK /\ tx[t] \in Resolution /\ ResolutionLocal(tx[t])
  BY RequestKinds DEF IInv, TypeOK, ResolveLock, Resolving, Locals, Local
<1>2. Wanted(t) \subseteq tx[t].found \ tx[t].held /\ Wanted(t) # {}
  BY <1>1, WantedRows DEF Request, Resolution, ResolveLock, LockNext
<1>3. r \in Request
  BY <1>1, <1>2 DEF Request, Resolution
<1>4. Local(r)
  BY <1>1, <1>2 DEF Local, ResolutionLocal, Resolution
<1>5. \A u \in Tx \ {t} : r.held \cap tx[u].held = {}
  BY <1>1 DEF ResolveLock, LockNext, LocksFree, IInv, LocksExclusive, Resolution
<1>6. market' \in [Markets -> MarketRow] /\ clock' \in Time
  BY <1>1 DEF ResolveLock, TypeOK
<1>7. UNCHANGED <<bet, balance, keys, funded>> /\ tx' = [tx EXCEPT ![t] = r]
  BY DEF ResolveLock, LockNext, Proceed
<1> HIDE DEF r
<1> QED BY <1>3, <1>4, <1>5, <1>6, <1>7, QuietStep

LEMMA ResolveReadStep ==
    ASSUME IInv, NEW t \in Tx, ResolveRead(t)
    PROVE  IInv'
<1>1. TypeOK /\ tx[t] \in Resolution /\ ResolutionLocal(tx[t])
  BY RequestKinds DEF IInv, TypeOK, ResolveRead, Resolving, Locals, Local
<1>2. market' \in [Markets -> MarketRow] /\ clock' \in Time
  BY <1>1 DEF ResolveRead, TypeOK
<1>3. UNCHANGED <<bet, balance, keys, funded>>
  BY DEF ResolveRead
<1>4. CASE Done(t)
  BY <1>2, <1>3, <1>4, Finish
<1>5. CASE Plannable(t) /\ Proceed(t, [tx[t] EXCEPT !.row = market[tx[t].market]])
  <2> DEFINE r == [tx[t] EXCEPT !.row = market[tx[t].market]]
  <2>1. market[tx[t].market] \in MarketRow
    BY <1>1 DEF TypeOK, Resolution
  <2>2. r \in Request /\ r.held = tx[t].held
    BY <1>1, <2>1 DEF Request, Resolution
  <2>3. \A b \in tx[t].held : bet[b].status = "PENDING" /\ bet[b].outcome = tx[t].winner
                                => bet[b].odds \in Price
    BY <1>5 DEF Plannable, Picked, Won, Payable
  <2>4. Local(r)
    BY <1>1, <2>3 DEF ResolveRead, Local, ResolutionLocal, Resolution
  <2>5. \A u \in Tx \ {t} : r.held \cap tx[u].held = {}
    BY <2>2 DEF IInv, LocksExclusive
  <2>6. tx' = [tx EXCEPT ![t] = r]
    BY <1>5 DEF Proceed
  <2> HIDE DEF r
  <2> QED BY <1>2, <1>3, <2>2, <2>4, <2>5, <2>6, QuietStep
<1> QED BY <1>4, <1>5 DEF ResolveRead

LEMMA ReverseLoadStep ==
    ASSUME IInv, NEW t \in Tx, NEW m \in Markets, ReverseLoad(t, m)
    PROVE  IInv'
<1> DEFINE rows == BetsOf(m, Settled)
           seen == [b \in rows |-> bet[b].status]
           r == [op |-> "reverse", held |-> {}, market |-> m, row |-> None, seen |-> seen]
<1>1. TypeOK /\ LedgerTellsStatus
  BY DEF IInv
<1>2. rows \subseteq Bets /\ \A b \in rows : bet[b].status \in Settled
  BY DEF BetsOf
<1>3. seen \in Seen
  BY <1>2 DEF Seen
<1>4. r \in Request
  BY <1>1, <1>3 DEF Request, Reversal
<1>5. Local(r)
  <2>1. \A b \in rows : bet[b] # NoBet
    BY <1>2 DEF NoBet, Settled
  <2>2. \A b \in rows :
           /\ seen[b] = "SETTLED_WON"  => <<"settle", b, "stake">> \in keys
           /\ seen[b] = "SETTLED_LOST" => <<"settle", b, "loss">> \in keys
    BY <1>1, <1>2 DEF LedgerTellsStatus, InForce
  <2> QED BY <2>1, <2>2 DEF Local, ReversalLocal
<1>6. market' \in [Markets -> MarketRow] /\ clock' \in Time
  BY <1>1 DEF ReverseLoad, TypeOK
<1>7. UNCHANGED <<bet, balance, keys, funded>> /\ tx' = [tx EXCEPT ![t] = r]
  BY DEF ReverseLoad, Begin
<1>8. r.held = {}
  OBVIOUS
<1> HIDE DEF r
<1> QED BY <1>4, <1>5, <1>6, <1>7, <1>8, QuietStep

LEMMA ReverseLockStep ==
    ASSUME IInv, NEW t \in Tx, ReverseLock(t)
    PROVE  IInv'
<1> DEFINE r == [tx[t] EXCEPT !.held = @ \cup Wanted(t)]
<1>1. TypeOK /\ tx[t] \in Reversal /\ ReversalLocal(tx[t])
  BY RequestKinds DEF IInv, TypeOK, ReverseLock, Reversing, Locals, Local
<1>2. Wanted(t) \subseteq DOMAIN tx[t].seen /\ DOMAIN tx[t].seen \subseteq Bets
  BY <1>1, WantedRows, SeenType DEF Request, Reversal
<1>3. r \in Request
  BY <1>1, <1>2 DEF Request, Reversal
<1>4. Local(r)
  BY <1>1, <1>2 DEF Local, ReversalLocal, Reversal
<1>5. \A u \in Tx \ {t} : r.held \cap tx[u].held = {}
  BY <1>1 DEF ReverseLock, LockNext, LocksFree, IInv, LocksExclusive, Reversal
<1>6. market' \in [Markets -> MarketRow] /\ clock' \in Time
  BY <1>1 DEF ReverseLock, TypeOK
<1>7. UNCHANGED <<bet, balance, keys, funded>> /\ tx' = [tx EXCEPT ![t] = r]
  BY DEF ReverseLock, LockNext, Proceed
<1> HIDE DEF r
<1> QED BY <1>3, <1>4, <1>5, <1>6, <1>7, QuietStep

LEMMA ReverseReadStep ==
    ASSUME IInv, NEW t \in Tx, ReverseRead(t)
    PROVE  IInv'
<1> DEFINE r == [tx[t] EXCEPT !.row = market[tx[t].market]]
<1>1. TypeOK /\ tx[t] \in Reversal /\ ReversalLocal(tx[t])
  BY RequestKinds DEF IInv, TypeOK, ReverseRead, Reversing, Locals, Local
<1>2. market[tx[t].market] \in MarketRow
  BY <1>1 DEF TypeOK, Reversal
<1>3. r \in Request /\ r.held = tx[t].held
  BY <1>1, <1>2 DEF Request, Reversal
<1>4. Local(r)
  <2>1. r.op = "reverse" /\ r.seen = tx[t].seen
    BY <1>1 DEF Reversal
  <2> QED BY <1>1, <1>3, <2>1 DEF Local, ReversalLocal
<1>5. \A u \in Tx \ {t} : r.held \cap tx[u].held = {}
  BY <1>3 DEF IInv, LocksExclusive
<1>6. market' \in [Markets -> MarketRow] /\ clock' \in Time
  BY <1>1 DEF ReverseRead, TypeOK
<1>7. UNCHANGED <<bet, balance, keys, funded>> /\ tx' = [tx EXCEPT ![t] = r]
  BY DEF ReverseRead, Proceed
<1> HIDE DEF r
<1> QED BY <1>3, <1>4, <1>5, <1>6, <1>7, QuietStep

LEMMA AdminStep ==
    ASSUME IInv, NEW t \in Tx,
           \/ \E m \in Markets, op \in {"close", "update"} : AdminLoad(t, m, op)
           \/ CloseCommit(t)
           \/ \E yes \in Quotes, deadline \in Time : UpdateCommit(t, yes, deadline)
    PROVE  IInv'
<1>1. TypeOK
  BY DEF IInv
<1>2. ASSUME NEW m \in Markets, NEW op \in {"close", "update"}, AdminLoad(t, m, op)
      PROVE  IInv'
  <2> DEFINE r == [op |-> op, held |-> {}, market |-> m, row |-> market[m], now |-> clock]
  <2>1. r \in Request /\ Local(r) /\ r.held = {}
    BY <1>1 DEF Request, AdminEdit, TypeOK, Local
  <2>2. market' \in [Markets -> MarketRow] /\ clock' \in Time
    BY <1>1, <1>2 DEF AdminLoad, TypeOK
  <2>3. UNCHANGED <<bet, balance, keys, funded>> /\ tx' = [tx EXCEPT ![t] = r]
    BY <1>2 DEF AdminLoad, Begin
  <2> HIDE DEF r
  <2> QED BY <2>1, <2>2, <2>3, QuietStep
<1>3. CASE CloseCommit(t)
  <2>1. market' \in [Markets -> MarketRow] /\ clock' \in Time
    BY <1>1, <1>3 DEF CloseCommit, TypeOK, MarketRow, Statuses
  <2> QED BY <1>3, <2>1, Finish DEF CloseCommit
<1>4. ASSUME NEW yes \in Quotes, NEW deadline \in Time, UpdateCommit(t, yes, deadline)
      PROVE  IInv'
  <2>1. yes \in Quote
    BY MoneyAssumption
  <2>2. market' \in [Markets -> MarketRow] /\ clock' \in Time
    <3>1. tx[t] \in AdminEdit
      BY <1>1, <1>4, RequestKinds DEF UpdateCommit, TypeOK
    <3>2. patched(tx[t].row, market[tx[t].market], yes, deadline) \in MarketRow
      BY <1>1, <2>1, <3>1 DEF TypeOK, AdminEdit, patched, MarketRow
    <3> QED BY <1>1, <1>4, <3>2 DEF UpdateCommit, TypeOK
  <2> QED BY <1>4, <2>2, Finish DEF UpdateCommit
<1> QED BY <1>2, <1>3, <1>4

(* A request that is refused or dies leaves the books as they were.        *)
LEMMA AbortStep ==
    ASSUME IInv, NEW t \in Tx,
           \/ PlaceInsufficient(t) \/ SellFail(t) \/ ResolveFail(t)
           \/ ReverseFail(t) \/ DeadlockAbort(t) \/ Crash(t)
    PROVE  IInv'
<1>1. TypeOK
  BY DEF IInv
<1>2. Done(t) /\ UNCHANGED <<market, bet, balance, keys, funded, clock>>
  BY DEF PlaceInsufficient, SellFail, ResolveFail, ReverseFail, DeadlockAbort, Crash
<1>3. market' \in [Markets -> MarketRow] /\ clock' \in Time
  BY <1>1, <1>2 DEF TypeOK
<1> QED BY <1>2, <1>3, Finish

-----------------------------------------------------------------------------
(* The legs of a bet move exactly the difference between what its row      *)
(* accounts for before and after.                                          *)

WholeLegs(legs) == \A leg \in LegNames : legs[leg].amount \in Nat

LEMMA EffectInt ==
    ASSUME NEW legs, WholeLegs(legs), NEW a
    PROVE  Effect(legs, a) \in Int
<1>1. legs.stake.amount \in Int /\ legs.win.amount \in Int /\ legs.loss.amount \in Int
  BY DEF WholeLegs, LegNames
<1> QED BY <1>1, MoveInt DEF Effect

LEMMA SettleIdentity ==
    ASSUME NEW b \in Bets, bet[b] \in BetRow, bet[b].status = "PENDING", NEW w,
           Won(b, w) => bet[b].odds \in Price,
           NEW new,
           new = [bet[b] EXCEPT !.status = IF Won(b, w) THEN "SETTLED_WON" ELSE "SETTLED_LOST"]
    PROVE  /\ new \in BetRow /\ SoundRow(new)
           /\ WholeLegs(SettleLegs(b, w))
           /\ \A a \in Account : Move(Position(new), a) =
                 Move(Position(bet[b]), a) + Effect(SettleLegs(b, w), a)
           /\ Won(b, w) => SettleLegs(b, w).stake.amount > 0 /\ SettleLegs(b, w).loss.amount = 0
           /\ ~Won(b, w) => SettleLegs(b, w).loss.amount > 0 /\ SettleLegs(b, w).stake.amount = 0
<1> DEFINE row == bet[b]
<1>1. row.stake \in Nat /\ row.stake > 0 /\ row.stake \in Amount
  BY ConstantTypes DEF BetRow
<1>2. new \in BetRow /\ new.stake = row.stake /\ new.odds = row.odds
        /\ new.user = row.user /\ new.market = row.market
        /\ new.status = IF Won(b, w) THEN "SETTLED_WON" ELSE "SETTLED_LOST"
  BY DEF BetRow, BetStatus, Settled
<1>3. SoundRow(new)
  BY <1>2 DEF SoundRow
<1>4. Position(row) = Leg(WalletOf[row.user], LiabilityOf[row.market], row.stake)
  BY DEF Position
<1>5. CASE Won(b, w)
  <2> DEFINE pnl == compute_payout(row.stake, row.odds) - row.stake
  <2>1. RealizedPnl(new) = pnl /\ pnl \in Nat
    <3>1. new.status = "SETTLED_WON"
      BY <1>2, <1>5
    <3> QED BY <1>2, <1>3, <3>1, RealizedPnlBounds
  <2>2. Position(new) = Leg(HousePromo, WalletOf[row.user], pnl)
    <3> HIDE DEF pnl
    <3> QED BY <1>2, <1>5, <2>1 DEF Position
  <2>3. SettleLegs(b, w) =
          [stake |-> Leg(LiabilityOf[row.market], WalletOf[row.user], row.stake),
           win   |-> Leg(HousePromo, WalletOf[row.user], pnl),
           loss  |-> NoLeg]
    BY <1>5 DEF SettleLegs, profit_or_loss
  <2> HIDE DEF pnl
  <2> QED BY <1>1, <1>2, <1>3, <1>4, <1>5, <2>1, <2>2, <2>3
          DEF WholeLegs, LegNames, Effect, Move, Leg, NoLeg
<1>6. CASE ~Won(b, w)
  <2>1. RealizedPnl(new) = -row.stake
    <3>1. new.status = "SETTLED_LOST"
      BY <1>2, <1>6
    <3> QED BY <1>2, <1>3, <3>1, RealizedPnlBounds
  <2>2. Position(new) = Leg(WalletOf[row.user], HouseRevenue, row.stake)
    <3>1. Position(new) = Leg(WalletOf[row.user], HouseRevenue, -RealizedPnl(new))
      BY <1>1, <1>2, <1>6, <2>1 DEF Position
    <3> QED BY <1>1, <2>1, <3>1
  <2>3. SettleLegs(b, w) =
          [stake |-> NoLeg, win |-> NoLeg,
           loss  |-> Leg(LiabilityOf[row.market], HouseRevenue, row.stake)]
    BY <1>6 DEF SettleLegs
  <2> QED BY <1>1, <1>2, <1>3, <1>4, <1>6, <2>2, <2>3
          DEF WholeLegs, LegNames, Effect, Move, Leg, NoLeg
<1> QED BY <1>5, <1>6

LEMMA ReverseIdentity ==
    ASSUME NEW b \in Bets, bet[b] \in BetRow, bet[b].status \in Settled, SoundRow(bet[b]),
           NEW new, new = [bet[b] EXCEPT !.status = "PENDING"]
    PROVE  /\ new \in BetRow /\ SoundRow(new)
           /\ WholeLegs(ReverseLegs(b, bet[b].status))
           /\ \A a \in Account : Move(Position(new), a) =
                 Move(Position(bet[b]), a) + Effect(ReverseLegs(b, bet[b].status), a)
           /\ bet[b].status = "SETTLED_WON" =>
                /\ ReverseLegs(b, bet[b].status).stake.amount > 0
                /\ ReverseLegs(b, bet[b].status).loss.amount = 0
           /\ bet[b].status = "SETTLED_LOST" =>
                /\ ReverseLegs(b, bet[b].status).loss.amount > 0
                /\ ReverseLegs(b, bet[b].status).stake.amount = 0
                /\ ReverseLegs(b, bet[b].status).win.amount = 0
<1> DEFINE row == bet[b]
<1>1. row.stake \in Nat /\ row.stake > 0 /\ row.stake \in Amount
  BY ConstantTypes DEF BetRow
<1>2. new \in BetRow /\ new.stake = row.stake /\ new.user = row.user
        /\ new.market = row.market /\ new.status = "PENDING"
  BY DEF BetRow, BetStatus
<1>3. SoundRow(new)
  BY <1>2 DEF SoundRow
<1>4. Position(new) = Leg(WalletOf[row.user], LiabilityOf[row.market], row.stake)
  BY <1>2 DEF Position
<1>5. CASE row.status = "SETTLED_WON"
  <2> DEFINE pnl == compute_payout(row.stake, row.odds) - row.stake
  <2>1. RealizedPnl(row) = pnl /\ pnl \in Nat
    BY <1>5, RealizedPnlBounds
  <2>2. Position(row) = Leg(HousePromo, WalletOf[row.user], pnl)
    <3> HIDE DEF pnl
    <3> QED BY <1>5, <2>1 DEF Position
  <2>3. ReverseLegs(b, row.status) =
          [stake |-> Leg(WalletOf[row.user], LiabilityOf[row.market], row.stake),
           win   |-> Leg(WalletOf[row.user], HousePromo, pnl),
           loss  |-> NoLeg]
    BY <1>5 DEF ReverseLegs, profit_or_loss
  <2> HIDE DEF pnl
  <2> QED BY <1>1, <1>2, <1>3, <1>4, <1>5, <2>1, <2>2, <2>3
          DEF WholeLegs, LegNames, Effect, Move, Leg, NoLeg
<1>6. CASE row.status = "SETTLED_LOST"
  <2>1. RealizedPnl(row) = -row.stake
    BY <1>6, RealizedPnlBounds
  <2>2. Position(row) = Leg(WalletOf[row.user], HouseRevenue, row.stake)
    <3>1. Position(row) = Leg(WalletOf[row.user], HouseRevenue, -RealizedPnl(row))
      BY <1>1, <1>6, <2>1 DEF Position
    <3> QED BY <1>1, <2>1, <3>1
  <2>3. ReverseLegs(b, row.status) =
          [stake |-> NoLeg, win |-> NoLeg,
           loss  |-> Leg(HouseRevenue, LiabilityOf[row.market], row.stake)]
    BY <1>6 DEF ReverseLegs
  <2>4. row.stake \in Nat
    BY <1>1
  <2>5. WholeLegs(ReverseLegs(b, row.status))
    BY <2>3, <2>4 DEF WholeLegs, LegNames, Leg, NoLeg
  <2>6. \A a \in Account : Move(Position(new), a) =
          Move(Position(row), a) + Effect(ReverseLegs(b, row.status), a)
    BY <1>4, <2>2, <2>3, <2>4 DEF Effect, Move, Leg, NoLeg
  <2>7. /\ ReverseLegs(b, row.status).loss.amount > 0
        /\ ReverseLegs(b, row.status).stake.amount = 0
        /\ ReverseLegs(b, row.status).win.amount = 0
    BY <1>1, <2>3 DEF Leg, NoLeg
  <2> QED BY <1>2, <1>3, <1>6, <2>5, <2>6, <2>7
<1> QED BY <1>5, <1>6 DEF Settled

LEMMA CloseIdentity ==
    ASSUME NEW b \in Bets, bet[b] \in BetRow, bet[b].status = "PENDING",
           bet[b].odds \in Price, NEW price \in Quote,
           NEW new, new = [bet[b] EXCEPT !.status = "CLOSED", !.exit_odds = price]
    PROVE  /\ new \in BetRow /\ SoundRow(new)
           /\ WholeLegs(CloseLegs(b, price))
           /\ \A a \in Account : Move(Position(new), a) =
                 Move(Position(bet[b]), a) + Effect(CloseLegs(b, price), a)
           /\ \/ CloseLegs(b, price).stake.amount > 0
              \/ CloseLegs(b, price).loss.amount > 0
<1> DEFINE row == bet[b]
           payout == cashout_value(row.stake, row.odds, price)
<1>1. row.stake \in Nat /\ row.stake > 0 /\ row.stake \in Amount
  BY ConstantTypes DEF BetRow
<1>2. new \in BetRow /\ new.stake = row.stake /\ new.odds = row.odds
        /\ new.user = row.user /\ new.market = row.market
        /\ new.status = "CLOSED" /\ new.exit_odds = price
  BY DEF BetRow, BetStatus
<1>3. SoundRow(new)
  BY <1>2 DEF SoundRow
<1>4. Position(row) = Leg(WalletOf[row.user], LiabilityOf[row.market], row.stake)
  BY DEF Position
<1>5. RealizedPnl(new) = payout - row.stake /\ payout \in Nat
  BY <1>2, <1>3, RealizedPnlBounds
<1>6. CASE payout >= row.stake
  <2>1. Position(new) = Leg(HousePromo, WalletOf[row.user], payout - row.stake)
    <3> HIDE DEF payout
    <3> QED BY <1>1, <1>2, <1>5, <1>6 DEF Position
  <2>2. CloseLegs(b, price) =
          [stake |-> Leg(LiabilityOf[row.market], WalletOf[row.user], row.stake),
           win   |-> Leg(HousePromo, WalletOf[row.user], payout - row.stake),
           loss  |-> NoLeg]
    BY <1>6 DEF CloseLegs
  <2> HIDE DEF payout
  <2> QED BY <1>1, <1>2, <1>3, <1>4, <1>5, <1>6, <2>1, <2>2
          DEF WholeLegs, LegNames, Effect, Move, Leg, NoLeg
<1>7. CASE ~(payout >= row.stake)
  <2>1. Position(new) = Leg(WalletOf[row.user], HouseRevenue, row.stake - payout)
    <3>1. Position(new) = Leg(WalletOf[row.user], HouseRevenue, -RealizedPnl(new))
      <4> HIDE DEF payout
      <4> QED BY <1>1, <1>2, <1>5, <1>7 DEF Position
    <3>2. -RealizedPnl(new) = row.stake - payout
      <4> HIDE DEF payout
      <4> QED BY <1>1, <1>5
    <3> QED BY <3>1, <3>2
  <2>2. CloseLegs(b, price) =
          [stake |-> Leg(LiabilityOf[row.market], WalletOf[row.user], payout),
           win   |-> NoLeg,
           loss  |-> Leg(LiabilityOf[row.market], HouseRevenue, row.stake - payout)]
    BY <1>7 DEF CloseLegs
  <2> HIDE DEF payout
  <2>3. payout \in Nat /\ row.stake - payout \in Nat /\ row.stake - payout > 0
    BY <1>1, <1>5, <1>7
  <2>4. WholeLegs(CloseLegs(b, price)) /\ CloseLegs(b, price).loss.amount > 0
    BY <2>2, <2>3 DEF WholeLegs, LegNames, Leg, NoLeg
  <2>5. \A a \in Account : Move(Position(new), a) =
                 Move(Position(bet[b]), a) + Effect(CloseLegs(b, price), a)
    <3> SUFFICES ASSUME NEW a \in Account
                 PROVE  Move(Position(new), a) =
                          Move(Position(row), a) + Effect(CloseLegs(b, price), a)
      OBVIOUS
    <3> DEFINE At(account, n) == IF a = account THEN n ELSE 0
    <3>1. Move(Position(new), a) =
            At(HouseRevenue, row.stake - payout) - At(WalletOf[row.user], row.stake - payout)
      BY <2>1 DEF Move, Leg
    <3>2. Move(Position(row), a) =
            At(LiabilityOf[row.market], row.stake) - At(WalletOf[row.user], row.stake)
      BY <1>4 DEF Move, Leg
    <3>3. Effect(CloseLegs(b, price), a) =
            (At(WalletOf[row.user], payout) - At(LiabilityOf[row.market], payout)) +
            (At(HouseRevenue, row.stake - payout) - At(LiabilityOf[row.market], row.stake - payout))
      BY <2>2, <2>3 DEF Effect, Move, Leg, NoLeg
    <3> QED BY <1>1, <2>3, <3>1, <3>2, <3>3
  <2> QED BY <1>2, <1>3, <2>4, <2>5
<1> QED BY <1>6, <1>7

-----------------------------------------------------------------------------
(* The steps that move money *)

LEMMA KeysOfMember ==
    ASSUME NEW pass, NEW legs, NEW rows, NEW p, NEW b, NEW leg
    PROVE  <<p, b, leg>> \in KeysOf(pass, legs, rows) <=>
             /\ p = pass /\ b \in rows /\ leg \in LegNames
             /\ legs[b][leg].amount > 0
BY DEF KeysOf

(* Posting the legs of some bets keeps the books when the rows of these    *)
(* bets change with them.                                                  *)
LEMMA PostStep ==
    ASSUME IInv, NEW pass \in Passes, NEW rows \in SUBSET Bets, NEW legs,
           Post(pass, legs, rows), UNCHANGED funded,
           bet' \in [Bets -> BetRow \cup {NoBet}],
           \A b \in rows :
             /\ WholeLegs(legs[b]) /\ SoundRow(bet'[b])
             /\ \A a \in Account : Move(Position(bet'[b]), a) =
                                  Move(Position(bet[b]), a) + Effect(legs[b], a),
           \A b \in Bets \ rows : bet'[b] = bet[b]
    PROVE  /\ balance' \in [Account -> Nat]
           /\ keys' \subseteq Passes \X Bets \X LegNames
           /\ SoundRows' /\ Books'
<1>1. TypeOK /\ SoundRows /\ Books
  BY DEF IInv
<1>2. ASSUME NEW a \in Account
      PROVE  /\ TotalEffect(legs, rows, a) \in Int
             /\ Holding(bet', a) = Holding(bet, a) + TotalEffect(legs, rows, a)
             /\ Holding(bet, a) \in Int
  <2> DEFINE e == [b \in Bets |-> IF b \in rows THEN Effect(legs[b], a) ELSE 0]
  <2>1. \A b \in Bets : e[b] \in Int
    BY EffectInt
  <2>2. \A b \in Bets : Move(Position(bet'[b]), a) = Move(Position(bet[b]), a) + e[b]
    <3> TAKE b \in Bets
    <3>1. CASE b \in rows
      BY <3>1
    <3>2. CASE b \notin rows
      <4>1. Move(Position(bet[b]), a) \in Int
        BY <1>1, PositionInt DEF SoundRows
      <4>2. bet'[b] = bet[b] /\ e[b] = 0
        BY <3>2
      <4> HIDE DEF e
      <4> QED BY <4>1, <4>2
    <3> QED BY <3>1, <3>2
  <2>3. \A b \in Bets : SoundRow(bet[b])
    BY <1>1 DEF SoundRows
  <2>4. /\ Holding(bet', a) = Holding(bet, a) + SumTo(e, MaxBets)
        /\ Holding(bet, a) \in Int
        /\ SumTo(e, MaxBets) \in Int
    <3> HIDE DEF e
    <3>1. \A b \in Bets : /\ SoundRow(bet[b]) /\ e[b] \in Int
                          /\ Move(Position(bet'[b]), a) = Move(Position(bet[b]), a) + e[b]
      BY <2>1, <2>2, <2>3
    <3> DEFINE new == bet'
    <3>2. Shifted(bet, new, e, a)
      BY <3>1 DEF Shifted
    <3> HIDE DEF new
    <3>3. /\ Holding(new, a) = Holding(bet, a) + SumTo(e, MaxBets)
          /\ Holding(bet, a) \in Int
          /\ SumTo(e, MaxBets) \in Int
      BY ONLY <3>2, HoldingStep
    <3> QED BY <3>3 DEF new
  <2> QED BY <2>4 DEF TotalEffect
<1>3. /\ balance' = [a \in Account |-> balance[a] + TotalEffect(legs, rows, a)]
      /\ \A a \in Account : balance[a] + TotalEffect(legs, rows, a) >= 0
  BY DEF Post, Postable, Posted
<1>4. balance' \in [Account -> Nat]
  BY <1>1, <1>2, <1>3 DEF TypeOK
<1>5. keys' \subseteq Passes \X Bets \X LegNames
  BY <1>1 DEF Post, KeysOf, TypeOK
<1>6. SoundRows'
  <2>1. \A b \in Bets : SoundRow(bet'[b])
    BY <1>1 DEF SoundRows
  <2> QED BY <2>1 DEF SoundRows, SoundRow
<1>7. Books'
  <2>1. \A a \in Account : balance'[a] = funded'[a] + Holding(bet', a)
    <3> TAKE a \in Account
    <3>1. balance[a] = funded[a] + Holding(bet, a) /\ funded[a] \in Int
      BY <1>1 DEF Books, TypeOK
    <3>2. balance'[a] = balance[a] + TotalEffect(legs, rows, a)
      BY <1>3
    <3> QED BY <1>2, <3>1, <3>2
  <2> QED BY <2>1 DEF Books, Holding
<1> QED BY <1>4, <1>5, <1>6, <1>7

(* A request that commits changes rows nobody else holds: what the others  *)
(* rely on stands.                                                         *)
LEMMA CommitLocals ==
    ASSUME IInv, NEW t \in Tx, Done(t), keys \subseteq keys',
           \A b \in Bets : bet[b] # NoBet => bet'[b] # NoBet,
           \A u \in Tx \ {t} : \A b \in tx[u].held : bet'[b] = bet[b]
    PROVE  tx' \in [Tx -> Request] /\ LocksExclusive' /\ Locals'
<1>1. TypeOK /\ LocksExclusive /\ Locals
  BY DEF IInv
<1>2. tx' \in [Tx -> Request] /\ LocksExclusive'
  BY <1>1, IdleLocal DEF Done, TypeOK, LocksExclusive
<1>3. ASSUME NEW u \in Tx
      PROVE  Local(tx[u])'
  <2>1. CASE u = t
    <3>1. tx'[u] = Idle
      BY <1>1, <2>1 DEF Done, TypeOK
    <3> QED BY <3>1 DEF Local, Idle
  <2>2. CASE u # t
    <3> DEFINE r == tx[u]
    <3>1. tx'[u] = r /\ r \in Request /\ Local(r)
      BY <1>1, <2>2 DEF Done, TypeOK, Locals
    <3>2. \A b \in r.held : bet'[b] = bet[b]
      BY <2>2
    <3>3. ASSUME r.op = "sell" PROVE SaleLocal(tx[u])'
      <4>1. r \in Sale /\ SaleLocal(r)
        BY <3>1, <3>3, RequestKinds DEF Local
      <4>2. r.bet \in Bets /\ (r.held # {} => r.held = {r.bet})
        BY <4>1 DEF Sale, SaleLocal
      <4> QED BY <3>1, <3>2, <4>1, <4>2 DEF SaleLocal
    <3>4. ASSUME r.op = "resolve" PROVE ResolutionLocal(tx[u])'
      <4>1. r \in Resolution /\ ResolutionLocal(r)
        BY <3>1, <3>4, RequestKinds DEF Local
      <4>2. r.found \subseteq Bets
        BY <4>1 DEF Resolution
      <4> QED BY <3>1, <3>2, <4>1, <4>2 DEF ResolutionLocal
    <3>5. ASSUME r.op = "reverse" PROVE ReversalLocal(tx[u])'
      <4>1. r \in Reversal /\ ReversalLocal(r)
        BY <3>1, <3>5, RequestKinds DEF Local
      <4>2. DOMAIN r.seen \subseteq Bets
        BY <4>1, SeenType DEF Reversal
      <4> QED BY <3>1, <3>2, <4>1, <4>2 DEF ReversalLocal
    <3> QED BY <3>1, <3>3, <3>4, <3>5 DEF Local
  <2> QED BY <2>1, <2>2
<1> QED BY <1>2, <1>3 DEF Locals

LEMMA ResolveCommitStep ==
    ASSUME IInv, NEW t \in Tx, ResolveCommit(t)
    PROVE  IInv'
<1> DEFINE rows == Picked(t)
           legs == SettlementLegs(t)
           w    == tx[t].winner
<1>1. TypeOK /\ SoundRows /\ LedgerTellsStatus /\ LocksExclusive
  BY DEF IInv
<1>2. tx[t] \in Resolution /\ ResolutionLocal(tx[t]) /\ tx[t].row # None
  BY <1>1, RequestKinds DEF IInv, TypeOK, ResolveCommit, Resolving, Locals, Local
<1>3. rows \subseteq tx[t].held /\ rows \subseteq Bets
  BY <1>2 DEF Picked, Resolution
<1>4. \A b \in rows :
        /\ bet[b] \in BetRow /\ bet[b].status = "PENDING"
        /\ (Won(b, w) => bet[b].odds \in Price)
  <2> TAKE b \in rows
  <2>1. bet[b].status = "PENDING" /\ b \in tx[t].held /\ b \in Bets
    BY <1>3 DEF Picked
  <2>2. bet[b] \in BetRow
    BY <1>1, <2>1 DEF TypeOK, NoBet
  <2>3. Won(b, w) => bet[b].odds \in Price
    BY <1>2, <2>1 DEF ResolutionLocal, Won
  <2> QED BY <2>1, <2>2, <2>3
<1>5. /\ Post("settle", legs, rows) /\ UNCHANGED <<funded, clock>> /\ Done(t)
      /\ \A b \in Bets \ rows : bet'[b] = bet[b]
      /\ \A b \in rows : bet'[b] =
           [bet[b] EXCEPT !.status = IF Won(b, w) THEN "SETTLED_WON" ELSE "SETTLED_LOST"]
      /\ bet' = [b \in Bets |-> bet'[b]]
  BY <1>3 DEF ResolveCommit
<1>6. \A b \in rows : legs[b] = SettleLegs(b, w)
  BY DEF SettlementLegs
<1> HIDE DEF rows, legs, w
<1>7. \A b \in rows :
        /\ bet'[b] \in BetRow /\ SoundRow(bet'[b]) /\ WholeLegs(legs[b])
        /\ \A a \in Account : Move(Position(bet'[b]), a) =
             Move(Position(bet[b]), a) + Effect(legs[b], a)
        /\ (Won(b, w)  => legs[b].stake.amount > 0 /\ legs[b].loss.amount = 0)
        /\ (~Won(b, w) => legs[b].loss.amount > 0 /\ legs[b].stake.amount = 0)
  <2> TAKE b \in rows
  <2> DEFINE new == bet'[b]
  <2>1. new = [bet[b] EXCEPT !.status = IF Won(b, w) THEN "SETTLED_WON" ELSE "SETTLED_LOST"]
    BY <1>5
  <2>2. b \in Bets /\ bet[b] \in BetRow /\ bet[b].status = "PENDING"
          /\ (Won(b, w) => bet[b].odds \in Price)
    BY <1>3, <1>4
  <2> HIDE DEF new
  <2>3. /\ new \in BetRow /\ SoundRow(new)
        /\ WholeLegs(SettleLegs(b, w))
        /\ \A a \in Account : Move(Position(new), a) =
             Move(Position(bet[b]), a) + Effect(SettleLegs(b, w), a)
        /\ Won(b, w)  => SettleLegs(b, w).stake.amount > 0 /\ SettleLegs(b, w).loss.amount = 0
        /\ ~Won(b, w) => SettleLegs(b, w).loss.amount > 0 /\ SettleLegs(b, w).stake.amount = 0
    BY <2>1, <2>2, SettleIdentity
  <2>4. legs[b] = SettleLegs(b, w) /\ bet'[b] = new
    BY <1>6 DEF new
  <2> QED BY <2>3, <2>4
<1>8. bet' \in [Bets -> BetRow \cup {NoBet}]
  <2>1. \A b \in Bets : bet'[b] \in BetRow \cup {NoBet}
    BY <1>1, <1>5, <1>7 DEF TypeOK
  <2> QED BY <1>5, <2>1
<1>9. /\ balance' \in [Account -> Nat]
      /\ keys' \subseteq Passes \X Bets \X LegNames
      /\ SoundRows' /\ Books'
  BY <1>3, <1>5, <1>7, <1>8, PostStep DEF Passes
<1>10. tx' \in [Tx -> Request] /\ LocksExclusive' /\ Locals'
  <2>1. keys \subseteq keys'
    BY <1>5 DEF Post
  <2>2. \A b \in Bets : bet[b] # NoBet => bet'[b] # NoBet
    BY <1>5, <1>7 DEF NoBet, BetRow, BetStatus, Settled
  <2>3. \A u \in Tx \ {t} : \A b \in tx[u].held : bet'[b] = bet[b]
    <3> SUFFICES ASSUME NEW u \in Tx \ {t}, NEW b \in tx[u].held PROVE bet'[b] = bet[b]
      OBVIOUS
    <3>1. b \in Bets
      BY <1>1, RequestKinds DEF TypeOK
    <3>2. b \notin rows
      BY <1>1, <1>3 DEF LocksExclusive
    <3> QED BY <1>5, <3>1, <3>2
  <2> QED BY <1>5, <2>1, <2>2, <2>3, CommitLocals
<1>11. market' \in [Markets -> MarketRow]
  <2>1. mark_resolved(tx[t].row, tx[t].winner, market[tx[t].market]) \in MarketRow
    BY <1>1, <1>2 DEF TypeOK, Resolution, mark_resolved, MarketRow, Statuses
  <2> QED BY <1>1, <1>2, <2>1 DEF ResolveCommit, TypeOK
<1>12. TypeOK'
  BY <1>1, <1>5, <1>8, <1>9, <1>10, <1>11 DEF TypeOK
<1>13. LedgerTellsStatus'
  <2>1. /\ keys' = keys \cup KeysOf("settle", legs, rows)
        /\ KeysOf("settle", legs, rows) \cap keys = {}
    BY <1>5 DEF Post, Postable
  <2>2. \A p, b, leg : <<p, b, leg>> \in keys' <=>
          \/ <<p, b, leg>> \in keys
          \/ p = "settle" /\ b \in rows /\ leg \in LegNames /\ legs[b][leg].amount > 0
    <3> TAKE p, b, leg
    <3>1. <<p, b, leg>> \in KeysOf("settle", legs, rows) <=>
            /\ p = "settle" /\ b \in rows /\ leg \in LegNames
            /\ legs[b][leg].amount > 0
      BY KeysOfMember
    <3> QED BY <2>1, <3>1
  <2>3. \A b \in rows, leg \in LegNames :
          legs[b][leg].amount > 0 => <<"settle", b, leg>> \notin keys
    BY <2>1, KeysOfMember
  <2> SUFFICES ASSUME NEW b \in Bets
               PROVE  /\ bet'[b].status = "SETTLED_WON"  <=> InForce(b, "stake")'
                      /\ bet'[b].status = "SETTLED_LOST" <=> InForce(b, "loss")'
                      /\ bet'[b].status = "CLOSED" <=>
                           \E leg \in LegNames : <<"close", b, leg>> \in keys'
                      /\ \A leg \in {"stake", "loss"} :
                           <<"reverse", b, leg>> \in keys' => <<"settle", b, leg>> \in keys'
    BY DEF LedgerTellsStatus
  <2>4. /\ bet[b].status = "SETTLED_WON"  <=> InForce(b, "stake")
        /\ bet[b].status = "SETTLED_LOST" <=> InForce(b, "loss")
        /\ bet[b].status = "CLOSED" <=> \E leg \in LegNames : <<"close", b, leg>> \in keys
        /\ \A leg \in {"stake", "loss"} :
             <<"reverse", b, leg>> \in keys => <<"settle", b, leg>> \in keys
    BY <1>1 DEF LedgerTellsStatus
  <2>5. \A leg \in LegNames :
          /\ (<<"close", b, leg>> \in keys' <=> <<"close", b, leg>> \in keys)
          /\ (<<"reverse", b, leg>> \in keys' <=> <<"reverse", b, leg>> \in keys)
    BY <2>2
  <2>6. "stake" \in LegNames /\ "loss" \in LegNames
    BY DEF LegNames
  <2>7. CASE b \notin rows
    <3>1. bet'[b] = bet[b]
      BY <1>5, <2>7
    <3>2. \A leg \in LegNames : <<"settle", b, leg>> \in keys' <=> <<"settle", b, leg>> \in keys
      BY <2>2, <2>7
    <3> QED BY <2>4, <2>5, <2>6, <3>1, <3>2 DEF InForce
  <2>8. CASE b \in rows
    <3>1. bet'[b].status = IF Won(b, w) THEN "SETTLED_WON" ELSE "SETTLED_LOST"
      BY <1>4, <1>5, <2>8 DEF BetRow
    <3>2. ~InForce(b, "stake") /\ ~InForce(b, "loss")
            /\ \A leg \in LegNames : <<"close", b, leg>> \notin keys
      BY <1>4, <2>4, <2>8
    <3>3. CASE Won(b, w)
      <4>1. legs[b]["stake"].amount > 0 /\ ~(legs[b]["loss"].amount > 0)
        BY <1>7, <2>8, <3>3
      <4>2. /\ <<"settle", b, "stake">> \in keys' /\ <<"settle", b, "stake">> \notin keys
            /\ (<<"settle", b, "loss">> \in keys' <=> <<"settle", b, "loss">> \in keys)
        BY <2>2, <2>3, <2>6, <2>8, <4>1
      <4> QED BY <2>2, <2>4, <2>5, <2>6, <3>1, <3>2, <3>3, <4>2 DEF InForce
    <3>4. CASE ~Won(b, w)
      <4>1. legs[b]["loss"].amount > 0 /\ ~(legs[b]["stake"].amount > 0)
        BY <1>7, <2>8, <3>4
      <4>2. /\ <<"settle", b, "loss">> \in keys' /\ <<"settle", b, "loss">> \notin keys
            /\ (<<"settle", b, "stake">> \in keys' <=> <<"settle", b, "stake">> \in keys)
        BY <2>2, <2>3, <2>6, <2>8, <4>1
      <4> QED BY <2>2, <2>4, <2>5, <2>6, <3>1, <3>2, <3>4, <4>2 DEF InForce
    <3> QED BY <3>3, <3>4
  <2> QED BY <2>7, <2>8
<1> QED BY <1>9, <1>10, <1>12, <1>13 DEF IInv

(* A reversal that can post finds the outcomes it has seen: a fresh key   *)
(* shows that an outcome is still in force.                                *)
LEMMA ReversalSeesInForce ==
    ASSUME IInv, NEW t \in Tx, ReverseCommit(t)
    PROVE  \A b \in tx[t].held : bet[b].status = tx[t].seen[b]
<1> DEFINE rows == tx[t].held
           legs == ReversalLegs(t)
           seen == tx[t].seen
<1>1. TypeOK /\ SoundRows /\ LedgerTellsStatus /\ LocksExclusive
  BY DEF IInv
<1>2. tx[t] \in Reversal /\ ReversalLocal(tx[t])
  BY <1>1, RequestKinds DEF IInv, TypeOK, ReverseCommit, Reversing, Locals, Local
<1>3. rows \subseteq DOMAIN seen /\ rows \subseteq Bets
        /\ \A b \in rows : bet[b] \in BetRow /\ seen[b] \in Settled /\ SoundRow(bet[b])
  BY <1>1, <1>2, SeenType DEF ReversalLocal, Reversal, TypeOK, SoundRows
<1>4. \A b \in rows :
        /\ (seen[b] = "SETTLED_WON"  => <<"settle", b, "stake">> \in keys)
        /\ (seen[b] = "SETTLED_LOST" => <<"settle", b, "loss">> \in keys)
  BY <1>2, <1>3 DEF ReversalLocal
<1>5. Post("reverse", legs, rows)
  BY DEF ReverseCommit
<1>6. \A b \in rows : legs[b] = ReverseLegs(b, seen[b])
  BY DEF ReversalLegs
<1> HIDE DEF rows, legs, seen
<1>7. /\ keys' = keys \cup KeysOf("reverse", legs, rows)
      /\ KeysOf("reverse", legs, rows) \cap keys = {}
  BY <1>5 DEF Post, Postable
<1>8. \A b \in rows, leg \in LegNames :
        legs[b][leg].amount > 0 => <<"reverse", b, leg>> \notin keys
  BY <1>7, KeysOfMember
<1>9. "stake" \in LegNames /\ "loss" \in LegNames
  BY DEF LegNames
<1>10. \A b \in rows : bet[b].status = seen[b]
  <2> TAKE b \in rows
  <2>1. bet[b].stake > 0
    BY <1>3, ConstantTypes DEF BetRow
  <2>2. CASE seen[b] = "SETTLED_WON"
    <3>1. legs[b]["stake"].amount > 0
      <4>1. ReverseLegs(b, seen[b])["stake"].amount = bet[b].stake
        BY <2>2 DEF ReverseLegs, Leg
      <4> QED BY <1>6, <2>1, <4>1
    <3> QED BY <1>1, <1>3, <1>4, <1>8, <1>9, <2>2, <3>1 DEF LedgerTellsStatus, InForce
  <2>3. CASE seen[b] = "SETTLED_LOST"
    <3>1. legs[b]["loss"].amount > 0
      <4>1. ReverseLegs(b, seen[b])["loss"].amount = bet[b].stake
        BY <2>3 DEF ReverseLegs, Leg
      <4> QED BY <1>6, <2>1, <4>1
    <3> QED BY <1>1, <1>3, <1>4, <1>8, <1>9, <2>3, <3>1 DEF LedgerTellsStatus, InForce
  <2> QED BY <1>3, <2>2, <2>3 DEF Settled
<1> QED BY <1>10 DEF rows, seen

LEMMA ReverseCommitStep ==
    ASSUME IInv, NEW t \in Tx, ReverseCommit(t)
    PROVE  IInv'
<1> DEFINE rows == tx[t].held
           legs == ReversalLegs(t)
           seen == tx[t].seen
<1>1. TypeOK /\ SoundRows /\ LedgerTellsStatus /\ LocksExclusive
  BY DEF IInv
<1>2. tx[t] \in Reversal /\ ReversalLocal(tx[t])
  BY <1>1, RequestKinds DEF IInv, TypeOK, ReverseCommit, Reversing, Locals, Local
<1>3. rows \subseteq DOMAIN seen /\ rows \subseteq Bets
        /\ \A b \in rows : bet[b] \in BetRow /\ seen[b] \in Settled /\ SoundRow(bet[b])
  BY <1>1, <1>2, SeenType DEF ReversalLocal, Reversal, TypeOK, SoundRows
<1>4. /\ Post("reverse", legs, rows) /\ UNCHANGED <<funded, clock>> /\ Done(t)
      /\ \A b \in Bets \ rows : bet'[b] = bet[b]
      /\ \A b \in rows : bet'[b] = [bet[b] EXCEPT !.status = "PENDING"]
      /\ bet' = [b \in Bets |-> bet'[b]]
  BY <1>3 DEF ReverseCommit
<1>5. \A b \in rows : legs[b] = ReverseLegs(b, seen[b])
  BY DEF ReversalLegs
<1>6. \A b \in rows : bet[b].status = seen[b]
  BY ReversalSeesInForce
<1> HIDE DEF rows, legs, seen
<1>7. /\ keys' = keys \cup KeysOf("reverse", legs, rows)
      /\ KeysOf("reverse", legs, rows) \cap keys = {}
  BY <1>4 DEF Post, Postable
<1>8. "stake" \in LegNames /\ "loss" \in LegNames
  BY DEF LegNames
<1>9. \A b \in rows :
        /\ bet'[b] \in BetRow /\ SoundRow(bet'[b]) /\ WholeLegs(legs[b])
        /\ \A a \in Account : Move(Position(bet'[b]), a) =
             Move(Position(bet[b]), a) + Effect(legs[b], a)
        /\ (bet[b].status = "SETTLED_WON" =>
              legs[b].stake.amount > 0 /\ legs[b].loss.amount = 0)
        /\ (bet[b].status = "SETTLED_LOST" =>
              legs[b].loss.amount > 0 /\ legs[b].stake.amount = 0)
  <2> TAKE b \in rows
  <2> DEFINE new == bet'[b]
  <2>1. new = [bet[b] EXCEPT !.status = "PENDING"]
    BY <1>4
  <2>2. b \in Bets /\ bet[b] \in BetRow /\ bet[b].status \in Settled /\ SoundRow(bet[b])
    BY <1>3, <1>6
  <2>3. legs[b] = ReverseLegs(b, bet[b].status)
    BY <1>5, <1>6
  <2> HIDE DEF new
  <2>4. /\ new \in BetRow /\ SoundRow(new) /\ WholeLegs(legs[b])
        /\ \A a \in Account : Move(Position(new), a) =
             Move(Position(bet[b]), a) + Effect(legs[b], a)
        /\ (bet[b].status = "SETTLED_WON" =>
              legs[b].stake.amount > 0 /\ legs[b].loss.amount = 0)
        /\ (bet[b].status = "SETTLED_LOST" =>
              legs[b].loss.amount > 0 /\ legs[b].stake.amount = 0)
    BY <2>1, <2>2, <2>3, ReverseIdentity
  <2> QED BY <2>4 DEF new
<1>10. bet' \in [Bets -> BetRow \cup {NoBet}]
  <2>1. \A b \in Bets : bet'[b] \in BetRow \cup {NoBet}
    BY <1>1, <1>4, <1>9 DEF TypeOK
  <2> QED BY <1>4, <2>1
<1>11. /\ balance' \in [Account -> Nat]
       /\ keys' \subseteq Passes \X Bets \X LegNames
       /\ SoundRows' /\ Books'
  BY <1>3, <1>4, <1>9, <1>10, PostStep DEF Passes
<1>12. tx' \in [Tx -> Request] /\ LocksExclusive' /\ Locals'
  <2>1. \A b \in Bets : bet[b] # NoBet => bet'[b] # NoBet
    BY <1>4, <1>9 DEF NoBet, BetRow, BetStatus, Settled
  <2>2. \A u \in Tx \ {t} : \A b \in tx[u].held : bet'[b] = bet[b]
    <3> SUFFICES ASSUME NEW u \in Tx \ {t}, NEW b \in tx[u].held PROVE bet'[b] = bet[b]
      OBVIOUS
    <3>1. b \in Bets
      BY <1>1, RequestKinds DEF TypeOK
    <3>2. b \notin rows
      BY <1>1 DEF LocksExclusive, rows
    <3> QED BY <1>4, <3>1, <3>2
  <2> QED BY <1>4, <1>7, <2>1, <2>2, CommitLocals
<1>13. market' \in [Markets -> MarketRow]
  <2>1. mark_unresolved(tx[t].row, market[tx[t].market]) \in MarketRow
    BY <1>1, <1>2 DEF TypeOK, Reversal, mark_unresolved, MarketRow, Statuses
  <2> QED BY <1>1, <1>2, <2>1 DEF ReverseCommit, TypeOK
<1>14. TypeOK'
  BY <1>1, <1>4, <1>10, <1>11, <1>12, <1>13 DEF TypeOK
<1>15. LedgerTellsStatus'
  <2> SUFFICES ASSUME NEW b \in Bets
               PROVE  /\ bet'[b].status = "SETTLED_WON"  <=> InForce(b, "stake")'
                      /\ bet'[b].status = "SETTLED_LOST" <=> InForce(b, "loss")'
                      /\ bet'[b].status = "CLOSED" <=>
                           \E leg \in LegNames : <<"close", b, leg>> \in keys'
                      /\ \A leg \in {"stake", "loss"} :
                           <<"reverse", b, leg>> \in keys' => <<"settle", b, leg>> \in keys'
    BY DEF LedgerTellsStatus
  <2>1. /\ bet[b].status = "SETTLED_WON"  <=> InForce(b, "stake")
        /\ bet[b].status = "SETTLED_LOST" <=> InForce(b, "loss")
        /\ bet[b].status = "CLOSED" <=> \E leg \in LegNames : <<"close", b, leg>> \in keys
        /\ \A leg \in {"stake", "loss"} :
             <<"reverse", b, leg>> \in keys => <<"settle", b, leg>> \in keys
    BY <1>1 DEF LedgerTellsStatus
  <2>2. \A leg : /\ (<<"close", b, leg>> \in keys' <=> <<"close", b, leg>> \in keys)
                 /\ (<<"settle", b, leg>> \in keys' <=> <<"settle", b, leg>> \in keys)
    BY <1>7 DEF KeysOf
  <2>3. \A leg : <<"reverse", b, leg>> \in keys' <=>
          \/ <<"reverse", b, leg>> \in keys
          \/ b \in rows /\ leg \in LegNames /\ legs[b][leg].amount > 0
    <3> TAKE leg
    <3>1. <<"reverse", b, leg>> \in KeysOf("reverse", legs, rows) <=>
            /\ b \in rows /\ leg \in LegNames /\ legs[b][leg].amount > 0
      BY KeysOfMember
    <3> QED BY <1>7, <3>1
  <2>4. CASE b \notin rows
    <3>1. bet'[b] = bet[b]
      BY <1>4, <2>4
    <3> QED BY <2>1, <2>2, <2>3, <2>4, <3>1 DEF InForce
  <2>5. CASE b \in rows
    <3>1. bet'[b].status = "PENDING" /\ bet[b].status \in Settled
      BY <1>3, <1>4, <1>6, <2>5 DEF BetRow
    <3>2. CASE bet[b].status = "SETTLED_WON"
      <4>1. legs[b]["stake"].amount > 0 /\ ~(legs[b]["loss"].amount > 0)
        BY <1>9, <2>5, <3>2
      <4>2. /\ InForce(b, "stake") /\ ~InForce(b, "loss")
            /\ <<"reverse", b, "stake">> \in keys'
            /\ (<<"reverse", b, "loss">> \in keys' <=> <<"reverse", b, "loss">> \in keys)
        BY <1>8, <2>1, <2>3, <2>5, <3>2, <4>1
      <4> QED BY <2>1, <2>2, <3>1, <3>2, <4>2 DEF InForce
    <3>3. CASE bet[b].status = "SETTLED_LOST"
      <4>1. legs[b]["loss"].amount > 0 /\ ~(legs[b]["stake"].amount > 0)
        BY <1>9, <2>5, <3>3
      <4>2. /\ InForce(b, "loss") /\ ~InForce(b, "stake")
            /\ <<"reverse", b, "loss">> \in keys'
            /\ (<<"reverse", b, "stake">> \in keys' <=> <<"reverse", b, "stake">> \in keys)
        BY <1>8, <2>1, <2>3, <2>5, <3>3, <4>1
      <4> QED BY <2>1, <2>2, <3>1, <3>3, <4>2 DEF InForce
    <3> QED BY <3>1, <3>2, <3>3 DEF Settled
  <2> QED BY <2>4, <2>5
<1> QED BY <1>11, <1>12, <1>14, <1>15 DEF IInv

LEMMA SellCommitStep ==
    ASSUME IInv, NEW t \in Tx, SellCommit(t)
    PROVE  IInv'
<1> DEFINE s    == tx[t].bet
           rows == {s}
           legs == SaleLegs(t)
           new  == bet'[s]
<1>1. TypeOK /\ SoundRows /\ LedgerTellsStatus /\ LocksExclusive
  BY DEF IInv
<1>2. tx[t] \in Sale /\ SaleLocal(tx[t])
  BY <1>1, RequestKinds DEF IInv, TypeOK, SellCommit, Selling, Locals, Local
<1>3. /\ s \in Bets /\ bet[s] \in BetRow /\ bet[s].status = "PENDING"
      /\ bet[s].odds \in Price /\ tx[t].price \in Quote /\ tx[t].held = {s}
  BY <1>1, <1>2 DEF SaleLocal, Sale, SellCommit, TypeOK
<1>4. /\ Post("close", legs, rows) /\ UNCHANGED <<market, funded, clock>> /\ Done(t)
      /\ bet' = [bet EXCEPT ![s].status = "CLOSED", ![s].exit_odds = tx[t].price]
  BY DEF SellCommit
<1>5. /\ new = [bet[s] EXCEPT !.status = "CLOSED", !.exit_odds = tx[t].price]
      /\ \A b \in Bets \ rows : bet'[b] = bet[b]
  BY <1>1, <1>3, <1>4 DEF TypeOK
<1>6. legs[s] = CloseLegs(s, tx[t].price)
  BY DEF SaleLegs
<1> HIDE DEF s, legs, new
<1>7. /\ new \in BetRow /\ SoundRow(new) /\ WholeLegs(legs[s])
      /\ \A a \in Account : Move(Position(new), a) =
            Move(Position(bet[s]), a) + Effect(legs[s], a)
      /\ legs[s].stake.amount > 0 \/ legs[s].loss.amount > 0
  <2> DEFINE price == tx[t].price
  <2>1. new = [bet[s] EXCEPT !.status = "CLOSED", !.exit_odds = price]
    BY <1>5
  <2>2. s \in Bets /\ bet[s] \in BetRow /\ bet[s].status = "PENDING"
          /\ bet[s].odds \in Price /\ price \in Quote
    BY <1>3
  <2>3. legs[s] = CloseLegs(s, price)
    BY <1>6
  <2> HIDE DEF price, rows
  <2>4. /\ new \in BetRow /\ SoundRow(new) /\ WholeLegs(CloseLegs(s, price))
        /\ \A a \in Account : Move(Position(new), a) =
              Move(Position(bet[s]), a) + Effect(CloseLegs(s, price), a)
        /\ \/ CloseLegs(s, price).stake.amount > 0
           \/ CloseLegs(s, price).loss.amount > 0
    BY <2>1, <2>2, CloseIdentity
  <2> QED BY <2>3, <2>4
<1>8. bet' \in [Bets -> BetRow \cup {NoBet}]
  <2>1. \A b \in Bets : bet'[b] \in BetRow \cup {NoBet}
    BY <1>1, <1>5, <1>7 DEF TypeOK, new
  <2>2. bet' = [b \in Bets |-> bet'[b]]
    BY <1>1, <1>4 DEF TypeOK
  <2> QED BY <2>1, <2>2
<1>9. /\ balance' \in [Account -> Nat]
      /\ keys' \subseteq Passes \X Bets \X LegNames
      /\ SoundRows' /\ Books'
  <2>1. \A b \in rows :
          /\ WholeLegs(legs[b]) /\ SoundRow(bet'[b])
          /\ \A a \in Account : Move(Position(bet'[b]), a) =
                Move(Position(bet[b]), a) + Effect(legs[b], a)
    BY <1>7 DEF new
  <2> HIDE DEF rows
  <2>2. rows \in SUBSET Bets
    BY <1>3 DEF rows
  <2>3. Post("close", legs, rows) /\ UNCHANGED funded
    BY <1>4
  <2>4. \A b \in Bets \ rows : bet'[b] = bet[b]
    BY <1>5
  <2> QED BY <1>8, <2>1, <2>2, <2>3, <2>4, PostStep DEF Passes
<1>10. tx' \in [Tx -> Request] /\ LocksExclusive' /\ Locals'
  <2>1. keys \subseteq keys'
    BY <1>4 DEF Post
  <2>2. \A b \in Bets : bet[b] # NoBet => bet'[b] # NoBet
    BY <1>5, <1>7 DEF NoBet, BetRow, BetStatus, Settled, new
  <2>3. \A u \in Tx \ {t} : \A b \in tx[u].held : bet'[b] = bet[b]
    <3> SUFFICES ASSUME NEW u \in Tx \ {t}, NEW b \in tx[u].held PROVE bet'[b] = bet[b]
      OBVIOUS
    <3>1. b \in Bets
      BY <1>1, RequestKinds DEF TypeOK
    <3>2. b \notin rows
      BY <1>1, <1>3 DEF LocksExclusive
    <3> QED BY <1>5, <3>1, <3>2
  <2> QED BY <1>4, <2>1, <2>2, <2>3, CommitLocals
<1>11. TypeOK'
  BY <1>1, <1>4, <1>8, <1>9, <1>10 DEF TypeOK
<1>12. LedgerTellsStatus'
  <2> SUFFICES ASSUME NEW b \in Bets
               PROVE  /\ bet'[b].status = "SETTLED_WON"  <=> InForce(b, "stake")'
                      /\ bet'[b].status = "SETTLED_LOST" <=> InForce(b, "loss")'
                      /\ bet'[b].status = "CLOSED" <=>
                           \E leg \in LegNames : <<"close", b, leg>> \in keys'
                      /\ \A leg \in {"stake", "loss"} :
                           <<"reverse", b, leg>> \in keys' => <<"settle", b, leg>> \in keys'
    BY DEF LedgerTellsStatus
  <2>1. /\ bet[b].status = "SETTLED_WON"  <=> InForce(b, "stake")
        /\ bet[b].status = "SETTLED_LOST" <=> InForce(b, "loss")
        /\ bet[b].status = "CLOSED" <=> \E leg \in LegNames : <<"close", b, leg>> \in keys
        /\ \A leg \in {"stake", "loss"} :
             <<"reverse", b, leg>> \in keys => <<"settle", b, leg>> \in keys
    BY <1>1 DEF LedgerTellsStatus
  <2>2. keys' = keys \cup KeysOf("close", legs, rows)
    BY <1>4 DEF Post
  <2>3. \A leg : /\ (<<"settle", b, leg>> \in keys' <=> <<"settle", b, leg>> \in keys)
                 /\ (<<"reverse", b, leg>> \in keys' <=> <<"reverse", b, leg>> \in keys)
    BY <2>2 DEF KeysOf
  <2>4. \A leg : <<"close", b, leg>> \in keys' <=>
          \/ <<"close", b, leg>> \in keys
          \/ b \in rows /\ leg \in LegNames /\ legs[b][leg].amount > 0
    <3> TAKE leg
    <3>1. <<"close", b, leg>> \in KeysOf("close", legs, rows) <=>
            /\ b \in rows /\ leg \in LegNames /\ legs[b][leg].amount > 0
      BY KeysOfMember
    <3> QED BY <2>2, <3>1
  <2>5. CASE b # s
    <3>1. bet'[b] = bet[b] /\ b \notin rows
      BY <1>5, <2>5
    <3> QED BY <2>1, <2>3, <2>4, <3>1 DEF InForce
  <2>6. CASE b = s
    <3>1. bet'[b].status = "CLOSED"
      BY <1>3, <1>5, <2>6 DEF BetRow, new
    <3>2. \E leg \in LegNames : <<"close", b, leg>> \in keys'
      <4>1. legs[s]["stake"].amount > 0 \/ legs[s]["loss"].amount > 0
        BY <1>7
      <4> QED BY <2>4, <2>6, <4>1 DEF LegNames
    <3>3. ~InForce(b, "stake") /\ ~InForce(b, "loss")
      BY <1>3, <2>1, <2>6
    <3> QED BY <2>1, <2>3, <3>1, <3>2, <3>3 DEF InForce
  <2> QED BY <2>5, <2>6
<1> QED BY <1>9, <1>10, <1>11, <1>12 DEF IInv

LEMMA PlaceCommitStep ==
    ASSUME IInv, NEW t \in Tx, PlaceCommit(t)
    PROVE  IInv'
<1> DEFINE u   == tx[t].user
           m   == tx[t].market
           row == [status |-> "PENDING", user |-> u, market |-> m,
                   outcome |-> tx[t].outcome, stake |-> tx[t].stake,
                   odds |-> tx[t].price, exit_odds |-> None]
           leg == Leg(WalletOf[u], LiabilityOf[m], tx[t].stake)
<1>1. TypeOK /\ SoundRows /\ LedgerTellsStatus /\ Books
  BY DEF IInv
<1>2. tx[t] \in Placing
  BY <1>1, RequestKinds DEF TypeOK, PlaceCommit
<1>3. /\ tx[t].stake \in Nat /\ tx[t].stake > 0 /\ tx[t].stake \in Stakes
      /\ WalletOf[u] \in Account /\ LiabilityOf[m] \in Account
      /\ WalletOf[u] # LiabilityOf[m] /\ row \in BetRow
  BY <1>2, ConstantTypes, AccountsAssumption, SystemAccountsAssumption, DistinctAccounts
     DEF Placing, BetRow, BetStatus
<1>4. PICK n \in Bets : NextRow(n) /\ bet' = [bet EXCEPT ![n] = row]
  BY DEF PlaceCommit
<1>5. /\ balance' = [a \in Account |-> balance[a] + Move(leg, a)]
      /\ balance[WalletOf[u]] >= tx[t].stake
      /\ Done(t) /\ UNCHANGED <<market, keys, funded, clock>>
  BY DEF PlaceCommit
<1>6. bet[n] = NoBet /\ bet'[n] = row /\ \A b \in Bets \ {n} : bet'[b] = bet[b]
  BY <1>1, <1>4 DEF NextRow, TypeOK
<1>7. SoundRow(row) /\ Position(row) = leg /\ leg.amount \in Int /\ row # NoBet
  BY <1>3 DEF SoundRow, Position, Leg, NoBet
<1>8. row.status = "PENDING"
  OBVIOUS
<1> HIDE DEF row
<1>9. bet' \in [Bets -> BetRow \cup {NoBet}]
  BY <1>1, <1>3, <1>4 DEF TypeOK
<1>10. balance' \in [Account -> Nat]
  <2>1. \A a \in Account : balance[a] + Move(leg, a) \in Nat
    BY <1>1, <1>3, <1>5 DEF TypeOK, Move, Leg
  <2> QED BY <1>5, <2>1
<1>11. SoundRows'
  <2>1. \A b \in Bets : SoundRow(bet'[b])
    BY <1>1, <1>6, <1>7 DEF SoundRows
  <2> QED BY <2>1 DEF SoundRows, SoundRow
<1>12. Books'
  <2>1. ASSUME NEW a \in Account
        PROVE  balance'[a] = funded'[a] + Holding(bet', a)
    <3> DEFINE e   == [b \in Bets |-> IF b = n THEN Move(leg, a) ELSE 0]
               new == bet'
    <3>1. Move(leg, a) \in Int
      BY <1>7, MoveInt
    <3>2. \A b \in Bets : SoundRow(bet[b]) /\ e[b] \in Int
      BY <1>1, <3>1 DEF SoundRows
    <3>3. \A b \in Bets : Move(Position(new[b]), a) = Move(Position(bet[b]), a) + e[b]
      <4> TAKE b \in Bets
      <4>1. CASE b = n
        <5>1. Move(Position(bet[b]), a) = 0
          BY <1>6, <4>1 DEF NoBet, Position, NoLeg, Leg, Move
        <5>2. Move(Position(new[b]), a) = Move(leg, a) /\ e[b] = Move(leg, a)
          BY <1>6, <1>7, <4>1
        <5> HIDE DEF e, new
        <5> QED BY <3>1, <5>1, <5>2
      <4>2. CASE b # n
        <5>1. new[b] = bet[b] /\ e[b] = 0
          BY <1>6, <4>2
        <5>2. Move(Position(bet[b]), a) \in Int
          BY <3>2, PositionInt
        <5> HIDE DEF e, new
        <5> QED BY <5>1, <5>2
      <4> QED BY <4>1, <4>2
    <3>4. SumTo(e, MaxBets) = Move(leg, a)
      <4>1. MaxBets \in Nat /\ n \in 1..MaxBets /\ e[n] = Move(leg, a)
        BY ConstantTypes DEF Bets
      <4>2. \A i \in 1..MaxBets : i # n => e[i] = 0
        BY DEF Bets
      <4> HIDE DEF e, leg
      <4>3. SumTo(e, MaxBets) = e[n]
        BY <3>1, <4>1, <4>2, SumToSingle
      <4> QED BY <4>1, <4>3
    <3>5. /\ Holding(new, a) = Holding(bet, a) + SumTo(e, MaxBets)
          /\ Holding(bet, a) \in Int
      <4>1. Shifted(bet, new, e, a)
        BY <3>2, <3>3 DEF Shifted
      <4> HIDE DEF e, new, leg
      <4>2. /\ Holding(new, a) = Holding(bet, a) + SumTo(e, MaxBets)
            /\ Holding(bet, a) \in Int
            /\ SumTo(e, MaxBets) \in Int
        BY ONLY <4>1, HoldingStep
      <4> QED BY <4>2
    <3>6. balance[a] = funded[a] + Holding(bet, a) /\ funded[a] \in Int
      BY <1>1 DEF Books, TypeOK
    <3>7. balance'[a] = balance[a] + Move(leg, a) /\ funded' = funded
      BY <1>5
    <3> HIDE DEF e, leg
    <3> QED BY <3>1, <3>4, <3>5, <3>6, <3>7 DEF new
  <2> QED BY <2>1 DEF Books, Holding
<1>13. tx' \in [Tx -> Request] /\ LocksExclusive' /\ Locals'
  <2>1. \A b \in Bets : bet[b] # NoBet => bet'[b] # NoBet
    BY <1>6, <1>7
  <2>2. \A v \in Tx \ {t} : \A b \in tx[v].held : bet'[b] = bet[b]
    <3> SUFFICES ASSUME NEW v \in Tx \ {t}, NEW b \in tx[v].held PROVE bet'[b] = bet[b]
      OBVIOUS
    <3>1. tx[v] \in Request /\ Local(tx[v])
      BY <1>1 DEF TypeOK, IInv, Locals
    <3>2. b \in Bets
      BY <3>1, RequestKinds
    <3>3. bet[b] # NoBet
      <4>1. CASE tx[v].op = "sell"
        BY <3>1, <4>1 DEF Local, SaleLocal
      <4>2. CASE tx[v].op = "resolve"
        BY <3>1, <4>2 DEF Local, ResolutionLocal
      <4>3. CASE tx[v].op = "reverse"
        BY <3>1, <4>3 DEF Local, ReversalLocal
      <4>4. tx[v].op \in {"sell", "resolve", "reverse"}
        BY <3>1 DEF Request, Idle, Placing, AdminEdit, Sale, Resolution, Reversal
      <4> QED BY <4>1, <4>2, <4>3, <4>4
    <3> QED BY <1>6, <3>2, <3>3
  <2> QED BY <1>5, <2>1, <2>2, CommitLocals
<1>14. TypeOK'
  BY <1>1, <1>5, <1>9, <1>10, <1>13 DEF TypeOK
<1>15. LedgerTellsStatus'
  <2>1. \A b \in Bets : \A s \in {"SETTLED_WON", "SETTLED_LOST", "CLOSED"} :
          bet'[b].status = s <=> bet[b].status = s
    BY <1>6, <1>8 DEF NoBet
  <2> QED BY <1>1, <1>5, <2>1 DEF LedgerTellsStatus, InForce
<1> QED BY <1>11, <1>12, <1>13, <1>14, <1>15 DEF IInv

(* A recharge moves money that both sides of Books count.                  *)
LEMMA RechargeStep ==
    ASSUME IInv, NEW u \in Users, NEW amount \in RechargeAmounts, Recharge(u, amount)
    PROVE  IInv'
<1> DEFINE leg == Leg(HousePromo, WalletOf[u], amount)
<1>1. TypeOK /\ Books
  BY DEF IInv
<1>2. amount \in Nat /\ HousePromo \in Account /\ WalletOf[u] \in Account
  BY MoneyAssumption, AccountsAssumption, SystemAccountsAssumption DEF Amount
<1>3. /\ balance[HousePromo] >= amount
      /\ balance' = [a \in Account |-> balance[a] + Move(leg, a)]
      /\ funded'  = [a \in Account |-> funded[a] + Move(leg, a)]
      /\ UNCHANGED <<market, bet, keys, clock, tx>>
  BY DEF Recharge
<1>4. \A a \in Account : balance[a] + Move(leg, a) \in Nat /\ Move(leg, a) \in Int
  BY <1>1, <1>2, <1>3 DEF TypeOK, Move, Leg
<1>5. TypeOK'
  BY <1>1, <1>3, <1>4 DEF TypeOK
<1>6. Books'
  <2>1. ASSUME NEW a \in Account PROVE balance'[a] = funded'[a] + Holding(bet, a)
    <3>1. Holding(bet, a) \in Int
      <4> DEFINE z == [b \in Bets |-> 0]
      <4>1. Shifted(bet, bet, z, a)
        BY PositionInt DEF IInv, SoundRows, Shifted
      <4> HIDE DEF z, leg
      <4>2. Holding(bet, a) = Holding(bet, a) + SumTo(z, MaxBets) /\ Holding(bet, a) \in Int
        BY ONLY <4>1, HoldingStep
      <4> QED BY <4>2
    <3>2. balance[a] = funded[a] + Holding(bet, a) /\ funded[a] \in Int
      BY <1>1 DEF Books, TypeOK
    <3>3. balance'[a] = balance[a] + Move(leg, a) /\ funded'[a] = funded[a] + Move(leg, a)
      BY <1>3
    <3> HIDE DEF leg
    <3> QED BY <1>4, <3>1, <3>2, <3>3
  <2> QED BY <1>3, <2>1 DEF Books, Holding
<1>7. SoundRows' /\ LocksExclusive'
  BY <1>3 DEF IInv, SoundRows, LocksExclusive
<1>8. Locals' /\ LedgerTellsStatus'
  BY <1>3 DEF IInv, Locals, Local, SaleLocal, ResolutionLocal, ReversalLocal,
              LedgerTellsStatus, InForce
<1> QED BY <1>5, <1>6, <1>7, <1>8 DEF IInv

(* The clock moves no money. *)
LEMMA FrameStep ==
    ASSUME IInv, UNCHANGED <<market, bet, balance, keys, funded, tx>>, clock' \in Time
    PROVE  IInv'
<1> USE DEF IInv
<1>1. TypeOK'
  BY DEF TypeOK
<1>2. SoundRows' /\ LocksExclusive'
  BY DEF SoundRows, LocksExclusive
<1>3. Locals'
  BY DEF Locals, Local, SaleLocal, ResolutionLocal, ReversalLocal
<1>4. LedgerTellsStatus'
  BY DEF LedgerTellsStatus, InForce
<1>5. Books'
  BY DEF Books, Holding
<1> QED BY <1>1, <1>2, <1>3, <1>4, <1>5

-----------------------------------------------------------------------------
(* The theorems *)

LEMMA InitIInv == Init => IInv
<1> SUFFICES ASSUME Init PROVE IInv
  OBVIOUS
<1>1. TypeOK
  <2>1. market \in [Markets -> MarketRow] /\ clock \in Time
    BY MoneyAssumption, BoundsAssumption DEF Init, MarketRow, Statuses, Time
  <2>2. funded \in [Account -> Nat] /\ balance \in [Account -> Nat]
    BY MoneyAssumption DEF Init
  <2> QED BY <2>1, <2>2, IdleLocal DEF Init, TypeOK
<1>2. SoundRows /\ LocksExclusive
  BY DEF Init, SoundRows, SoundRow, LocksExclusive, Idle
<1>3. Locals
  BY IdleLocal DEF Init, Locals
<1>4. LedgerTellsStatus
  BY DEF Init, LedgerTellsStatus, InForce, NoBet
<1>5. Books
  <2> SUFFICES ASSUME NEW a \in Account PROVE balance[a] = funded[a] + Holding(bet, a)
    BY DEF Books
  <2> DEFINE f == [b \in Bets |-> Move(Position(bet[b]), a)]
  <2>1. \A b \in 1..MaxBets : f[b] = 0
    BY DEF Init, Bets, NoBet, Position, NoLeg, Leg, Move
  <2>2. SumTo(f, MaxBets) = 0
    <3> HIDE DEF f
    <3> QED BY <2>1, ConstantTypes, SumToZero
  <2>3. balance[a] = funded[a] /\ funded[a] \in Int
    BY <1>1 DEF Init, TypeOK
  <2> QED BY <2>2, <2>3 DEF Holding
<1> QED BY <1>1, <1>2, <1>3, <1>4, <1>5 DEF IInv

LEMMA NextIInv == IInv /\ [Next]_vars => IInv'
<1> SUFFICES ASSUME IInv, [Next]_vars PROVE IInv'
  OBVIOUS
<1>1. ASSUME NEW u \in Users, NEW amount \in RechargeAmounts, Recharge(u, amount)
      PROVE  IInv'
  BY <1>1, RechargeStep
<1>2. CASE Tick
  <2>1. clock' \in Time
    BY <1>2, BoundsAssumption DEF Tick, Time, IInv, TypeOK
  <2> QED BY <1>2, <2>1, FrameStep DEF Tick
<1>3. ASSUME NEW t \in Tx, Arrive(t) PROVE IInv'
  BY <1>3, PlaceReadStep, SellLoadStep, ResolveSelectStep, ReverseLoadStep, AdminStep
     DEF Arrive, PlayerPlaces, PlayerSells, AdminSettles, AdminEdits
<1>4. ASSUME NEW t \in Tx, Step(t) PROVE IInv'
  BY <1>4, PlaceCommitStep, SellLockStep, SellReadStep, SellCommitStep, ResolveLockStep,
     ResolveReadStep, ResolveCommitStep, ReverseLockStep, ReverseReadStep,
     ReverseCommitStep, AdminStep, AbortStep
     DEF Step
<1>5. ASSUME NEW t \in Tx, Crash(t) PROVE IInv'
  BY <1>5, AbortStep
<1>6. CASE UNCHANGED vars
  BY <1>6, FrameStep DEF vars, IInv, TypeOK
<1> QED BY <1>1, <1>2, <1>3, <1>4, <1>5, <1>6 DEF Next

(* The inductive invariant holds of every interleaving of requests.        *)
THEOREM BettingInvariant == Spec => []IInv
BY InitIInv, NextIInv, PTL DEF Spec

(* Rows and requests keep their types.                                     *)
THEOREM TypeCorrect == Spec => []TypeOK
<1>1. IInv => TypeOK
  BY DEF IInv
<1> QED BY <1>1, BettingInvariant, PTL

(* Books: a bet is paid once and undone to the unit, whatever resolutions, *)
(* reversals, cash-outs and crashes interleave.                            *)
THEOREM BooksBalance == Spec => []Books
<1>1. IInv => Books
  BY DEF IInv
<1> QED BY <1>1, BettingInvariant, PTL

(* LedgerTellsStatus: the transfers of a bet alone tell its status.        *)
THEOREM LedgerDecides == Spec => []LedgerTellsStatus
<1>1. IInv => LedgerTellsStatus
  BY DEF IInv
<1> QED BY <1>1, BettingInvariant, PTL

-----------------------------------------------------------------------------
(* The escrow accounts *)

\* Nothing is recharged into an escrow account.
EscrowUnfunded == \A m \in Markets : funded[LiabilityOf[m]] = 0

LEMMA EscrowUnfundedInvariant == Spec => []EscrowUnfunded
<1>1. Init => EscrowUnfunded
  BY AccountsAssumption, SystemAccountsAssumption, DistinctAccounts DEF Init, EscrowUnfunded
<1>2. IInv /\ EscrowUnfunded /\ [Next]_vars => EscrowUnfunded'
  <2> SUFFICES ASSUME IInv, EscrowUnfunded, [Next]_vars PROVE EscrowUnfunded'
    OBVIOUS
  <2>1. ASSUME NEW u \in Users, NEW amount \in RechargeAmounts, Recharge(u, amount)
        PROVE  EscrowUnfunded'
    <3> SUFFICES ASSUME NEW m \in Markets PROVE funded'[LiabilityOf[m]] = 0
      BY DEF EscrowUnfunded
    <3>1. /\ LiabilityOf[m] \in Account /\ LiabilityOf[m] # HousePromo
          /\ LiabilityOf[m] # WalletOf[u]
      BY AccountsAssumption, SystemAccountsAssumption, DistinctAccounts
    <3> QED BY <2>1, <3>1 DEF Recharge, EscrowUnfunded, Move, Leg
  <2>2. CASE UNCHANGED funded
    BY <2>2 DEF EscrowUnfunded
  <2>3. ASSUME NEW t \in Tx, Arrive(t) \/ Step(t) \/ Crash(t) PROVE UNCHANGED funded
    BY <2>3 DEF Arrive, PlayerPlaces, PlayerSells, AdminSettles, AdminEdits,
                PlaceRead, SellLoad, ResolveSelect, ReverseLoad, AdminLoad,
       Step, PlaceCommit, PlaceInsufficient, SellLock, SellRead, SellCommit, SellFail,
       ResolveLock, ResolveRead, ResolveCommit, ResolveFail,
       ReverseLock, ReverseRead, ReverseCommit, ReverseFail,
       DeadlockAbort, CloseCommit, UpdateCommit, Crash
  <2> QED BY <2>1, <2>2, <2>3 DEF Next, Tick, vars
<1> QED BY <1>1, <1>2, BettingInvariant, PTL DEF Spec

(* What a bet accounts for in the escrow account of a market is its stake  *)
(* while it is pending there, and nothing after that.                      *)
LEMMA EscrowShare ==
    ASSUME NEW row, SoundRow(row), NEW m \in Markets
    PROVE  Move(Position(row), LiabilityOf[m]) =
             IF row.status = "PENDING" /\ row.market = m THEN row.stake ELSE 0
<1> DEFINE pool == LiabilityOf[m]
<1>1. pool \in Account /\ pool \notin {HousePromo, HouseRevenue}
        /\ \A u \in Users : pool # WalletOf[u]
        /\ \A n \in Markets : LiabilityOf[n] = pool => n = m
  BY AccountsAssumption, SystemAccountsAssumption, DistinctAccounts
<1>2. CASE row = NoBet
  BY <1>1, <1>2 DEF NoBet, Position, NoLeg, Leg, Move
<1>3. CASE row \in BetRow /\ row.status = "PENDING"
  <2>1. Position(row) = Leg(WalletOf[row.user], LiabilityOf[row.market], row.stake)
    BY <1>3 DEF Position
  <2>2. row.user \in Users /\ row.market \in Markets /\ row.stake \in Nat
    BY <1>3, ConstantTypes DEF BetRow
  <2> HIDE DEF pool
  <2>3. Move(Position(row), pool) = IF row.market = m THEN row.stake ELSE 0
    BY <1>1, <2>1, <2>2 DEF Move, Leg, pool
  <2> QED BY <1>3, <2>3 DEF pool
<1>4. CASE row \in BetRow /\ row.status # "PENDING"
  <2>1. row.user \in Users /\ row.status # "NONE"
    BY <1>4 DEF BetRow, BetStatus, Settled
  <2>2. \/ Position(row) = Leg(HousePromo, WalletOf[row.user], RealizedPnl(row))
        \/ Position(row) = Leg(WalletOf[row.user], HouseRevenue, -RealizedPnl(row))
    BY <1>4, <2>1 DEF Position
  <2> HIDE DEF pool
  <2>3. Move(Position(row), pool) = 0
    BY <1>1, <2>1, <2>2 DEF Move, Leg
  <2> QED BY <1>4, <2>3 DEF pool
<1> QED BY <1>2, <1>3, <1>4 DEF SoundRow

(* EscrowBacksPending: the escrow account of a market holds exactly the    *)
(* stakes of its pending bets, at every moment.                            *)
THEOREM EscrowBacked == Spec => []EscrowBacksPending
<1>1. IInv /\ EscrowUnfunded => EscrowBacksPending
  <2> SUFFICES ASSUME IInv, EscrowUnfunded, NEW m \in Markets
               PROVE  balance[LiabilityOf[m]] =
                        SumTo([b \in Bets |-> IF b \in BetsOf(m, {"PENDING"})
                                              THEN bet[b].stake ELSE 0], MaxBets)
    BY DEF EscrowBacksPending
  <2> DEFINE pool == LiabilityOf[m]
             f == [b \in Bets |-> Move(Position(bet[b]), pool)]
             g == [b \in Bets |-> IF b \in BetsOf(m, {"PENDING"}) THEN bet[b].stake ELSE 0]
  <2>1. \A b \in 1..MaxBets : f[b] \in Int /\ g[b] = f[b]
    <3> TAKE b \in 1..MaxBets
    <3>1. b \in Bets /\ SoundRow(bet[b])
      BY DEF Bets, IInv, SoundRows
    <3>2. f[b] = IF bet[b].status = "PENDING" /\ bet[b].market = m THEN bet[b].stake ELSE 0
      BY <3>1, EscrowShare
    <3>3. Move(Position(bet[b]), pool) \in Int
      BY <3>1, PositionInt
    <3> QED BY <3>1, <3>2, <3>3 DEF BetsOf
  <2>2. SumTo(g, MaxBets) = SumTo(f, MaxBets) /\ SumTo(f, MaxBets) \in Int
    <3>1. MaxBets \in Nat
      BY ConstantTypes
    <3> HIDE DEF f, g
    <3> QED BY <2>1, <3>1, SumToAgree, SumToInt
  <2>3. balance[pool] = funded[pool] + SumTo(f, MaxBets) /\ funded[pool] = 0
    BY AccountsAssumption DEF IInv, Books, Holding, EscrowUnfunded
  <2> HIDE DEF f, g, pool
  <2>4. balance[pool] = SumTo(g, MaxBets)
    BY <2>2, <2>3
  <2> QED BY <2>4 DEF g, pool
<1> QED BY <1>1, BettingInvariant, EscrowUnfundedInvariant, PTL

-----------------------------------------------------------------------------
(* The markets *)

(* No step puts a market back to OPEN.                                     *)
LEMMA MarketStep ==
    ASSUME TypeOK, [Next]_vars, NEW m \in Markets
    PROVE  market'[m].status = "OPEN" => market[m].status = "OPEN"
<1> USE DEF TypeOK
<1>1. CASE UNCHANGED market
  BY <1>1
<1>2. ASSUME NEW t \in Tx, ResolveCommit(t)
      PROVE  market'[m].status = "OPEN" => market[m].status = "OPEN"
  BY <1>2 DEF ResolveCommit, mark_resolved, MarketRow
<1>3. ASSUME NEW t \in Tx, ReverseCommit(t)
      PROVE  market'[m].status = "OPEN" => market[m].status = "OPEN"
  BY <1>3 DEF ReverseCommit, mark_unresolved, MarketRow
<1>4. ASSUME NEW t \in Tx, CloseCommit(t)
      PROVE  market'[m].status = "OPEN" => market[m].status = "OPEN"
  BY <1>4 DEF CloseCommit, MarketRow
<1>5. ASSUME NEW t \in Tx, NEW yes \in Quotes, NEW d \in Time, UpdateCommit(t, yes, d)
      PROVE  market'[m].status = "OPEN" => market[m].status = "OPEN"
  BY <1>5 DEF UpdateCommit, patched, MarketRow
<1>6. ASSUME NEW t \in Tx, Arrive(t) \/ Crash(t) PROVE UNCHANGED market
  BY <1>6 DEF Arrive, PlayerPlaces, PlayerSells, AdminSettles, AdminEdits,
              PlaceRead, SellLoad, ResolveSelect, ReverseLoad, AdminLoad, Crash
<1>7. ASSUME NEW t \in Tx, Step(t)
      PROVE  \/ UNCHANGED market
             \/ ResolveCommit(t) \/ ReverseCommit(t) \/ CloseCommit(t)
             \/ \E yes \in Quotes, d \in Time : UpdateCommit(t, yes, d)
  BY <1>7 DEF Step, PlaceCommit, PlaceInsufficient, SellLock, SellRead, SellCommit,
     SellFail, ResolveLock, ResolveRead, ResolveFail, ReverseLock, ReverseRead,
     ReverseFail, DeadlockAbort
<1>8. CASE UNCHANGED vars \/ Tick \/ \E u \in Users, amount \in RechargeAmounts : Recharge(u, amount)
  BY <1>8 DEF vars, Tick, Recharge
<1> QED BY <1>1, <1>2, <1>3, <1>4, <1>5, <1>6, <1>7, <1>8 DEF Next

(* NeverReopens: a market that has left OPEN never takes bets again, even  *)
(* when admin writes and settlements work on rows they loaded before.      *)
THEOREM MarketsStayClosed == Spec => NeverReopens
<1>1. TypeOK /\ [Next]_vars =>
        [\A m \in Markets : market'[m].status = "OPEN" => market[m].status = "OPEN"]_vars
  BY MarketStep
<1> QED BY <1>1, TypeCorrect, PTL DEF Spec, NeverReopens

\* A settlement or reversal works on bets of its own market, and once it has
\* read the market row as no longer OPEN the market is no longer OPEN.
RequestsKnowTheirMarket ==
    \A t \in Tx :
        /\ Resolving(t) =>
             /\ \A b \in tx[t].found : bet[b].market = tx[t].market
             /\ tx[t].row # None /\ tx[t].row.status # "OPEN" =>
                  market[tx[t].market].status # "OPEN"
        /\ Reversing(t) =>
             \A b \in DOMAIN tx[t].seen : bet[b].market = tx[t].market

(* What a step does to a resolution in flight: it begins, it reads the     *)
(* market row, or it keeps its market, its rows and what it has read.      *)
LEMMA ResolutionStep ==
    ASSUME TypeOK, [Next]_vars, NEW t \in Tx, Resolving(t)'
    PROVE  \/ \E m \in Markets, w \in WinnerIds : ResolveSelect(t, m, w)
           \/ /\ Resolving(t)
              /\ tx'[t].market = tx[t].market /\ tx'[t].found = tx[t].found
              /\ \/ tx'[t].row = tx[t].row
                 \/ tx'[t].row = market[tx[t].market] /\ UNCHANGED market
<1> DEFINE Goal == \/ \E m \in Markets, w \in WinnerIds : ResolveSelect(t, m, w)
                   \/ /\ Resolving(t)
                      /\ tx'[t].market = tx[t].market /\ tx'[t].found = tx[t].found
                      /\ \/ tx'[t].row = tx[t].row
                         \/ tx'[t].row = market[tx[t].market] /\ UNCHANGED market
<1>1. CASE tx'[t] = tx[t]
  BY <1>1 DEF Resolving
<1>2. ASSUME NEW u \in Tx, Arrive(u) PROVE Goal
  BY <1>2 DEF Arrive, PlayerPlaces, PlayerSells, AdminSettles, AdminEdits,
              PlaceRead, SellLoad, ResolveSelect, ReverseLoad, AdminLoad, Begin,
     Resolving, TypeOK
<1>3. ASSUME NEW u \in Tx, Done(u) PROVE Goal
  BY <1>3 DEF Done, Idle, Resolving, TypeOK
<1>4. ASSUME NEW u \in Tx, SellLock(u) \/ SellRead(u) \/ ReverseLock(u) \/ ReverseRead(u)
      PROVE  Goal
  <2>1. tx[u].op \in {"sell", "reverse"} /\ tx[u] \in Request
    BY <1>4 DEF SellLock, SellRead, ReverseLock, ReverseRead, Selling, Reversing, TypeOK
  <2>2. tx[u] \in Sale \cup Reversal
    BY <2>1, RequestKinds
  <2>3. Done(u) \/ tx' = [tx EXCEPT ![u] = [tx[u] EXCEPT !.held = @ \cup Wanted(u)]]
          \/ tx' = [tx EXCEPT ![u] = [tx[u] EXCEPT !.row = market[tx[u].market]]]
          \/ tx' = [tx EXCEPT ![u] = [tx[u] EXCEPT !.price =
                          PriceOf(bet[tx[u].bet].market, bet[tx[u].bet].outcome)]]
    BY <1>4 DEF SellLock, SellRead, ReverseLock, ReverseRead, LockNext, Proceed
  <2>4. Done(u) \/ u # t
    BY <2>1, <2>2, <2>3 DEF TypeOK, Resolving, Sale, Reversal
  <2> QED BY <1>1, <1>3, <2>3, <2>4 DEF TypeOK
<1>5. ASSUME NEW u \in Tx, ResolveLock(u) \/ ResolveRead(u) PROVE Goal
  <2>1. tx[u] \in Resolution
    BY <1>5, RequestKinds DEF ResolveLock, ResolveRead, Resolving, TypeOK
  <2>2. CASE u # t
    <3>1. tx'[t] = tx[t]
      BY <1>5, <2>2 DEF ResolveLock, ResolveRead, LockNext, Proceed, Done, TypeOK
    <3> QED BY <3>1, <1>1
  <2>3. CASE u = t
    BY <1>3, <1>5, <2>1, <2>3
       DEF ResolveLock, ResolveRead, LockNext, Proceed, Resolving, Resolution, TypeOK
  <2> QED BY <2>2, <2>3
<1>6. ASSUME NEW u \in Tx, Step(u) \/ Crash(u)
      PROVE  \/ Done(u)
             \/ SellLock(u) \/ SellRead(u) \/ ReverseLock(u) \/ ReverseRead(u)
             \/ ResolveLock(u) \/ ResolveRead(u)
  BY <1>6 DEF Step, PlaceCommit, PlaceInsufficient, SellCommit, SellFail, ResolveCommit,
     ResolveFail, ReverseCommit, ReverseFail, DeadlockAbort, CloseCommit, UpdateCommit, Crash
<1>7. CASE UNCHANGED vars \/ Tick \/ \E u \in Users, amount \in RechargeAmounts : Recharge(u, amount)
  BY <1>1, <1>7 DEF vars, Tick, Recharge
<1> QED BY <1>2, <1>3, <1>4, <1>5, <1>6, <1>7 DEF Next

(* A reversal in flight has just begun, or keeps its market and its rows.  *)
LEMMA ReversalStep ==
    ASSUME TypeOK, [Next]_vars, NEW t \in Tx, Reversing(t)'
    PROVE  \/ \E m \in Markets : ReverseLoad(t, m)
           \/ Reversing(t) /\ tx'[t].market = tx[t].market /\ tx'[t].seen = tx[t].seen
<1> DEFINE Goal == \/ \E m \in Markets : ReverseLoad(t, m)
                   \/ /\ Reversing(t)
                      /\ tx'[t].market = tx[t].market /\ tx'[t].seen = tx[t].seen
<1>1. CASE tx'[t] = tx[t]
  BY <1>1 DEF Reversing
<1>2. ASSUME NEW u \in Tx, Arrive(u) PROVE Goal
  BY <1>2 DEF Arrive, PlayerPlaces, PlayerSells, AdminSettles, AdminEdits,
              PlaceRead, SellLoad, ResolveSelect, ReverseLoad, AdminLoad, Begin,
     Reversing, TypeOK
<1>3. ASSUME NEW u \in Tx, Done(u) PROVE Goal
  BY <1>3 DEF Done, Idle, Reversing, TypeOK
<1>4. ASSUME NEW u \in Tx, SellLock(u) \/ SellRead(u) \/ ResolveLock(u) \/ ResolveRead(u)
      PROVE  Goal
  <2>1. tx[u].op \in {"sell", "resolve"} /\ tx[u] \in Request
    BY <1>4 DEF SellLock, SellRead, ResolveLock, ResolveRead, Selling, Resolving, TypeOK
  <2>2. tx[u] \in Sale \cup Resolution
    BY <2>1, RequestKinds
  <2>3. Done(u) \/ tx' = [tx EXCEPT ![u] = [tx[u] EXCEPT !.held = @ \cup Wanted(u)]]
          \/ tx' = [tx EXCEPT ![u] = [tx[u] EXCEPT !.row = market[tx[u].market]]]
          \/ tx' = [tx EXCEPT ![u] = [tx[u] EXCEPT !.price =
                          PriceOf(bet[tx[u].bet].market, bet[tx[u].bet].outcome)]]
    BY <1>4 DEF SellLock, SellRead, ResolveLock, ResolveRead, LockNext, Proceed
  <2>4. Done(u) \/ u # t
    BY <2>1, <2>2, <2>3 DEF TypeOK, Reversing, Sale, Resolution
  <2> QED BY <1>1, <1>3, <2>3, <2>4 DEF TypeOK
<1>5. ASSUME NEW u \in Tx, ReverseLock(u) \/ ReverseRead(u) PROVE Goal
  <2>1. tx[u] \in Reversal
    BY <1>5, RequestKinds DEF ReverseLock, ReverseRead, Reversing, TypeOK
  <2>2. CASE u # t
    <3>1. tx'[t] = tx[t]
      BY <1>5, <2>2 DEF ReverseLock, ReverseRead, LockNext, Proceed, TypeOK
    <3> QED BY <3>1, <1>1
  <2>3. CASE u = t
    BY <1>5, <2>1, <2>3
       DEF ReverseLock, ReverseRead, LockNext, Proceed, Reversing, Reversal, TypeOK
  <2> QED BY <2>2, <2>3
<1>6. ASSUME NEW u \in Tx, Step(u) \/ Crash(u)
      PROVE  \/ Done(u)
             \/ SellLock(u) \/ SellRead(u) \/ ReverseLock(u) \/ ReverseRead(u)
             \/ ResolveLock(u) \/ ResolveRead(u)
  BY <1>6 DEF Step, PlaceCommit, PlaceInsufficient, SellCommit, SellFail, ResolveCommit,
     ResolveFail, ReverseCommit, ReverseFail, DeadlockAbort, CloseCommit, UpdateCommit, Crash
<1>7. CASE UNCHANGED vars \/ Tick \/ \E u \in Users, amount \in RechargeAmounts : Recharge(u, amount)
  BY <1>1, <1>7 DEF vars, Tick, Recharge
<1> QED BY <1>2, <1>3, <1>4, <1>5, <1>6, <1>7 DEF Next

(* A bet keeps its market, and only a resolution that has it settles it.   *)
LEMMA BetStep ==
    ASSUME IInv, [Next]_vars, NEW b \in Bets
    PROVE  /\ bet[b] # NoBet => bet'[b].market = bet[b].market
           /\ bet'[b].status \in Settled =>
                \/ bet[b].status \in Settled /\ bet[b] # NoBet
                \/ \E t \in Tx : ResolveCommit(t) /\ b \in Picked(t)
<1> DEFINE Goal == /\ bet[b] # NoBet => bet'[b].market = bet[b].market
                   /\ bet'[b].status \in Settled =>
                        \/ bet[b].status \in Settled /\ bet[b] # NoBet
                        \/ \E t \in Tx : ResolveCommit(t) /\ b \in Picked(t)
<1>1. bet[b] \in BetRow \cup {NoBet} /\ bet \in [Bets -> BetRow \cup {NoBet}]
  BY DEF IInv, TypeOK
<1>2. CASE bet'[b] = bet[b]
  BY <1>1, <1>2 DEF NoBet, Settled
<1>3. ASSUME NEW t \in Tx, PlaceCommit(t) PROVE Goal
  <2>1. PICK c \in Bets : bet[c] = NoBet /\ bet' = [bet EXCEPT ![c] =
              [status |-> "PENDING", user |-> tx[t].user, market |-> tx[t].market,
               outcome |-> tx[t].outcome, stake |-> tx[t].stake,
               odds |-> tx[t].price, exit_odds |-> None]]
    BY <1>3 DEF PlaceCommit, NextRow
  <2> QED BY <1>1, <1>2, <2>1 DEF Settled
<1>4. ASSUME NEW t \in Tx, SellCommit(t) PROVE Goal
  <2>1. tx[t] \in Sale /\ Local(tx[t])
    BY <1>4, RequestKinds DEF SellCommit, Selling, IInv, TypeOK, Locals
  <2>2. bet[tx[t].bet] \in BetRow
    BY <1>4, <2>1 DEF Local, SaleLocal, Sale, IInv, TypeOK
  <2> QED BY <1>1, <1>2, <1>4, <2>1, <2>2 DEF SellCommit, Sale, BetRow, Settled
<1>5. ASSUME NEW t \in Tx, ResolveCommit(t) PROVE Goal
  <2>1. b \in Picked(t) => bet[b] \in BetRow
    BY <1>1 DEF Picked, NoBet
  <2> QED BY <1>1, <1>2, <1>5, <2>1 DEF ResolveCommit, BetRow
<1>6. ASSUME NEW t \in Tx, ReverseCommit(t) PROVE Goal
  <2>1. tx[t] \in Reversal /\ Local(tx[t])
    BY <1>6, RequestKinds DEF ReverseCommit, Reversing, IInv, TypeOK, Locals
  <2>2. b \in tx[t].held => bet[b] \in BetRow
    BY <1>1, <1>6, <2>1 DEF Local, ReversalLocal, ReverseCommit, Reversing
  <2> QED BY <1>1, <1>2, <1>6, <2>2 DEF ReverseCommit, BetRow, Settled
<1>7. CASE UNCHANGED bet
  BY <1>2, <1>7
<1>8. ASSUME NEW t \in Tx, Arrive(t) \/ Step(t) \/ Crash(t)
      PROVE  \/ UNCHANGED bet
             \/ PlaceCommit(t) \/ SellCommit(t) \/ ResolveCommit(t) \/ ReverseCommit(t)
  BY <1>8 DEF Arrive, PlayerPlaces, PlayerSells, AdminSettles, AdminEdits,
              PlaceRead, SellLoad, ResolveSelect, ReverseLoad, AdminLoad,
     Step, PlaceInsufficient, SellLock, SellRead, SellFail, ResolveLock, ResolveRead,
     ResolveFail, ReverseLock, ReverseRead, ReverseFail, DeadlockAbort, CloseCommit,
     UpdateCommit, Crash
<1> QED BY <1>3, <1>4, <1>5, <1>6, <1>7, <1>8 DEF Next, Tick, Recharge, vars

LEMMA RequestsKnowTheirMarketStep ==
    ASSUME IInv, RequestsKnowTheirMarket, [Next]_vars
    PROVE  RequestsKnowTheirMarket'
<1>1. TypeOK
  BY DEF IInv
<1>2. ASSUME NEW t \in Tx, Resolving(t)'
      PROVE  /\ \A b \in tx'[t].found : bet'[b].market = tx'[t].market
             /\ tx'[t].row # None /\ tx'[t].row.status # "OPEN" =>
                  market'[tx'[t].market].status # "OPEN"
  <2>1. ASSUME NEW m \in Markets, NEW w \in WinnerIds, ResolveSelect(t, m, w)
        PROVE  /\ \A b \in tx'[t].found : bet'[b].market = tx'[t].market
               /\ tx'[t].row = None
    BY <1>1, <2>1 DEF ResolveSelect, Begin, BetsOf, TypeOK
  <2>2. CASE /\ Resolving(t)
             /\ tx'[t].market = tx[t].market /\ tx'[t].found = tx[t].found
             /\ \/ tx'[t].row = tx[t].row
                \/ tx'[t].row = market[tx[t].market] /\ UNCHANGED market
    <3>1. tx[t] \in Resolution /\ Local(tx[t])
      BY <1>1, <2>2, RequestKinds DEF Resolving, TypeOK, IInv, Locals
    <3>2. \A b \in tx[t].found : bet[b] # NoBet /\ b \in Bets /\ bet[b].market = tx[t].market
      BY <2>2, <3>1 DEF Local, ResolutionLocal, Resolving, Resolution, RequestsKnowTheirMarket
    <3>3. \A b \in tx[t].found : bet'[b].market = bet[b].market
      BY <3>2, BetStep
    <3>4. tx[t].market \in Markets
      BY <3>1 DEF Resolution
    <3>5. market'[tx[t].market].status = "OPEN" => market[tx[t].market].status = "OPEN"
      BY <1>1, <3>4, MarketStep
    <3> QED BY <2>2, <3>2, <3>3, <3>5 DEF RequestsKnowTheirMarket
  <2> QED BY <1>1, <1>2, <2>1, <2>2, ResolutionStep
<1>3. ASSUME NEW t \in Tx, Reversing(t)'
      PROVE  \A b \in DOMAIN tx'[t].seen : bet'[b].market = tx'[t].market
  <2>1. ASSUME NEW m \in Markets, ReverseLoad(t, m)
        PROVE  \A b \in DOMAIN tx'[t].seen : bet'[b].market = tx'[t].market
    BY <1>1, <2>1 DEF ReverseLoad, Begin, BetsOf, TypeOK
  <2>2. CASE Reversing(t) /\ tx'[t].market = tx[t].market /\ tx'[t].seen = tx[t].seen
    <3>1. tx[t] \in Reversal /\ Local(tx[t])
      BY <1>1, <2>2, RequestKinds DEF Reversing, TypeOK, IInv, Locals
    <3>2. \A b \in DOMAIN tx[t].seen :
            bet[b] # NoBet /\ b \in Bets /\ bet[b].market = tx[t].market
      BY <2>2, <3>1, SeenType
         DEF Local, ReversalLocal, Reversing, Reversal, RequestsKnowTheirMarket
    <3>3. \A b \in DOMAIN tx[t].seen : bet'[b].market = bet[b].market
      BY <3>2, BetStep
    <3> QED BY <2>2, <3>2, <3>3
  <2> QED BY <1>1, <1>3, <2>1, <2>2, ReversalStep
<1> QED BY <1>2, <1>3 DEF RequestsKnowTheirMarket, Resolving, Reversing

LEMMA RequestsKnowTheirMarketInvariant == Spec => []RequestsKnowTheirMarket
<1>1. Init => RequestsKnowTheirMarket
  BY DEF Init, RequestsKnowTheirMarket, Resolving, Reversing, Idle
<1> QED BY <1>1, RequestsKnowTheirMarketStep, BettingInvariant, PTL DEF Spec

LEMMA SettledMarketNotOpenStep ==
    ASSUME IInv, RequestsKnowTheirMarket, SettledMarketNotOpen, [Next]_vars
    PROVE  SettledMarketNotOpen'
<1>1. TypeOK
  BY DEF IInv
<1> SUFFICES ASSUME NEW m \in Markets, NEW b \in Bets,
                    bet'[b].status \in Settled, bet'[b].market = m
             PROVE  market'[m].status # "OPEN"
  BY DEF SettledMarketNotOpen, BetsOf
<1>2. CASE bet[b].status \in Settled /\ bet[b] # NoBet
  <2>1. bet[b].market = m
    BY <1>2, BetStep
  <2> QED BY <1>1, <1>2, <2>1, MarketStep DEF SettledMarketNotOpen, BetsOf
<1>3. ASSUME NEW t \in Tx, ResolveCommit(t), b \in Picked(t)
      PROVE  market'[m].status # "OPEN"
  <2>1. tx[t] \in Resolution /\ Local(tx[t])
    BY <1>1, <1>3, RequestKinds DEF ResolveCommit, Resolving, TypeOK, IInv, Locals
  <2>2. b \in tx[t].found /\ bet[b] # NoBet
    BY <1>3, <2>1 DEF Picked, Local, ResolutionLocal, ResolveCommit, Resolving
  <2>3. tx[t].market = m
    BY <1>3, <2>2, BetStep DEF RequestsKnowTheirMarket, ResolveCommit
  <2>4. market'[m] = mark_resolved(tx[t].row, tx[t].winner, market[m])
    BY <1>1, <1>3, <2>3 DEF ResolveCommit, TypeOK
  <2>5. tx[t].row.status = "RESOLVED" => market[m].status # "OPEN"
    BY <1>3, <2>3 DEF RequestsKnowTheirMarket, ResolveCommit
  <2>6. market[m] \in MarketRow
    BY <1>1 DEF TypeOK
  <2> QED BY <2>4, <2>5, <2>6 DEF mark_resolved, MarketRow
<1> QED BY <1>2, <1>3, BetStep

(* SettledMarketNotOpen: no bet is settled on a market that still takes    *)
(* bets, whatever the admin requests read before they wrote.               *)
THEOREM SettledMarketsStayShut == Spec => []SettledMarketNotOpen
<1>1. Init => SettledMarketNotOpen
  BY DEF Init, SettledMarketNotOpen, BetsOf, NoBet, Settled
<1> QED BY <1>1, SettledMarketNotOpenStep, BettingInvariant,
           RequestsKnowTheirMarketInvariant, PTL DEF Spec

-----------------------------------------------------------------------------
(* Betting implements Bookmaker: concurrent requests act on the bets as if *)
(* each were one atomic step.                                              *)

(* Bookmaker has its own copy of the definitions of Positions.             *)

LEMMA SameSets ==
    /\ Atomic!Account = Account /\ Atomic!Bets = Bets /\ Atomic!Quote = Quote
    /\ Atomic!BetRow = BetRow /\ Atomic!NoBet = NoBet /\ Atomic!Settled = Settled
BY DEF Atomic!Account, Account, Atomic!Bets, Bets, Atomic!Quote, Quote,
   Atomic!BetRow, BetRow, Atomic!BetStatus, BetStatus, Atomic!Outcomes, Outcomes,
   Atomic!NoBet, NoBet, Atomic!Settled, Settled

LEMMA SameMove ==
    ASSUME NEW leg, NEW a
    PROVE  Atomic!Move(leg, a) = Move(leg, a)
BY DEF Atomic!Move, Move

LEMMA SamePosition ==
    ASSUME NEW row
    PROVE  Atomic!Position(row) = Position(row)
<1>1. Atomic!RealizedPnl(row) = RealizedPnl(row)
  BY DEF Atomic!RealizedPnl, RealizedPnl, Atomic!profit_or_loss, profit_or_loss,
     Atomic!compute_payout, compute_payout, Atomic!cashout_value, cashout_value,
     Atomic!quantize_money, quantize_money
<1> QED BY <1>1 DEF Atomic!Position, Position, Atomic!NoLeg, NoLeg, Atomic!Leg, Leg

LEMMA SameHolding ==
    ASSUME NEW rows, NEW a
    PROVE  Atomic!Holding(rows, a) = Holding(rows, a)
<1>1. \A f, n : Atomic!SumTo(f, n) = SumTo(f, n)
  BY DEF Atomic!SumTo, SumTo, Atomic!PartialSums, PartialSums
<1>2. [b \in Bets |-> Atomic!Move(Atomic!Position(rows[b]), a)] =
      [b \in Bets |-> Move(Position(rows[b]), a)]
  BY SameMove, SamePosition
<1> QED BY <1>1, <1>2, SameSets DEF Atomic!Holding, Holding

-----------------------------------------------------------------------------
LEMMA HoldingInt ==
    ASSUME NEW rows, NEW a, \A b \in Bets : SoundRow(rows[b])
    PROVE  Holding(rows, a) \in Int
<1> DEFINE f == [b \in Bets |-> Move(Position(rows[b]), a)]
<1>1. MaxBets \in Nat
  BY ConstantTypes
<1>2. \A b \in 1..MaxBets : f[b] \in Int
  BY PositionInt DEF Bets
<1> HIDE DEF f
<1>3. SumTo(f, MaxBets) \in Int
  BY <1>1, <1>2, SumToInt
<1> QED BY <1>3 DEF Holding, f

(* The books on both sides of a step say that the money follows the rows.  *)
LEMMA MoneyFollowsBooks ==
    ASSUME IInv, IInv', UNCHANGED funded
    PROVE  Atomic!MoneyFollows
<1>1. TypeOK /\ TypeOK' /\ Books /\ Books' /\ SoundRows /\ SoundRows'
  BY DEF IInv
<1>2. balance' \in [Atomic!Account -> Nat]
  BY <1>1, SameSets DEF TypeOK
<1>3. ASSUME NEW a \in Atomic!Account
      PROVE  balance'[a] - balance[a] = Atomic!Holding(bet', a) - Atomic!Holding(bet, a)
  <2>1. a \in Account
    BY SameSets
  <2>2. balance[a] = funded[a] + Holding(bet, a) /\ balance'[a] = funded[a] + Holding(bet', a)
    BY <1>1, <2>1 DEF Books
  <2>3. funded[a] \in Int /\ Holding(bet, a) \in Int
    BY <1>1, <2>1, HoldingInt DEF TypeOK, SoundRows
  <2>4. Holding(bet', a) \in Int
    <3> DEFINE new == bet'
    <3>1. \A b \in Bets : SoundRow(new[b])
      BY <1>1 DEF SoundRows, SoundRow
    <3> HIDE DEF new
    <3>2. Holding(new, a) \in Int
      BY <3>1, HoldingInt
    <3> QED BY <3>2 DEF new
  <2>5. Atomic!Holding(bet', a) = Holding(bet', a) /\ Atomic!Holding(bet, a) = Holding(bet, a)
    BY SameHolding
  <2> QED BY <2>2, <2>3, <2>4, <2>5
<1> QED BY <1>2, <1>3 DEF Atomic!MoneyFollows

(* A step that changes no row and funds nothing moves no money.            *)
LEMMA QuietMoney ==
    ASSUME IInv, IInv', UNCHANGED <<bet, funded>>
    PROVE  UNCHANGED <<bet, balance>>
<1>1. TypeOK /\ TypeOK' /\ Books /\ Books'
  BY DEF IInv
<1>2. \A a \in Account : balance'[a] = balance[a]
  BY <1>1 DEF Books
<1> QED BY <1>1, <1>2 DEF TypeOK

-----------------------------------------------------------------------------
(* One step of Bookmaker for each step of a request that changes rows      *)

LEMMA RechargeFunds ==
    ASSUME IInv, NEW u \in Users, NEW amount \in RechargeAmounts, Recharge(u, amount)
    PROVE  Atomic!Fund(u)
<1> DEFINE leg == Leg(HousePromo, WalletOf[u], amount)
<1>1. /\ amount \in Nat /\ amount > 0 /\ WalletOf[u] \in Account
      /\ WalletOf[u] # HousePromo /\ HousePromo \in Account
  BY MoneyAssumption, AccountsAssumption, SystemAccountsAssumption, DistinctAccounts DEF Amount
<1>2. UNCHANGED bet /\ amount <= balance[HousePromo]
        /\ balance' = [a \in Account |-> balance[a] + Move(leg, a)]
  BY <1>1 DEF Recharge, IInv, TypeOK
<1>3. balance[WalletOf[u]] \in Nat
  BY <1>1 DEF IInv, TypeOK
<1>4. balance'[WalletOf[u]] = balance[WalletOf[u]] + amount
  BY <1>1, <1>2, <1>3 DEF Move, Leg
<1>5. balance'[WalletOf[u]] - balance[WalletOf[u]] = amount
  BY <1>1, <1>3, <1>4
<1>6. balance' = [a \in Account |->
         balance[a] + Move(Leg(HousePromo, WalletOf[u],
                               balance'[WalletOf[u]] - balance[WalletOf[u]]), a)]
  BY <1>2, <1>5
<1>7. balance' = [a \in Atomic!Account |->
         balance[a] + Atomic!Move(Atomic!Leg(HousePromo, WalletOf[u],
                               balance'[WalletOf[u]] - balance[WalletOf[u]]), a)]
  BY <1>6, SameSets, SameMove DEF Atomic!Leg, Leg
<1> QED BY <1>1, <1>2, <1>5, <1>7 DEF Atomic!Fund

LEMMA PlaceCommitPlaces ==
    ASSUME IInv, IInv', NEW t \in Tx, PlaceCommit(t)
    PROVE  \E b \in Atomic!Bets : Atomic!Place(b)
<1> DEFINE row == [status |-> "PENDING", user |-> tx[t].user, market |-> tx[t].market,
                   outcome |-> tx[t].outcome, stake |-> tx[t].stake,
                   odds |-> tx[t].price, exit_odds |-> None]
<1>1. PICK b \in Bets : bet[b] = NoBet /\ bet' = [bet EXCEPT ![b] = row]
  BY DEF PlaceCommit, NextRow
<1>2. bet'[b] = row
  BY <1>1 DEF IInv, TypeOK
<1>3. tx[t] \in Placing
  BY RequestKinds DEF IInv, TypeOK, PlaceCommit
<1>4. row \in BetRow /\ row.status = "PENDING"
  BY <1>3 DEF Placing, BetRow, BetStatus
<1>5. Atomic!MoneyFollows
  BY MoneyFollowsBooks DEF PlaceCommit
<1>6. bet' = [bet EXCEPT ![b] = bet'[b]]
  BY <1>1, <1>2
<1> HIDE DEF row
<1>7. Atomic!Place(b)
  BY <1>1, <1>2, <1>4, <1>5, <1>6, SameSets DEF Atomic!Place
<1> QED BY <1>7, SameSets

LEMMA SellCommitCashesOut ==
    ASSUME IInv, IInv', NEW t \in Tx, SellCommit(t)
    PROVE  \E b \in Atomic!Bets : Atomic!CashOut(b)
<1>1. tx[t] \in Sale /\ SaleLocal(tx[t])
  BY RequestKinds DEF IInv, TypeOK, SellCommit, Selling, Locals, Local
<1>2. tx[t].bet \in Bets /\ tx[t].price \in Quote /\ bet[tx[t].bet].status = "PENDING"
  BY <1>1 DEF SellCommit, Sale, SaleLocal
<1>3. bet' = [bet EXCEPT ![tx[t].bet].status = "CLOSED",
                         ![tx[t].bet].exit_odds = tx[t].price]
  BY DEF SellCommit
<1>4. Atomic!MoneyFollows
  BY MoneyFollowsBooks DEF SellCommit
<1> QED BY <1>2, <1>3, <1>4, SameSets DEF Atomic!CashOut

LEMMA ResolveCommitSettles ==
    ASSUME IInv, IInv', RequestsKnowTheirMarket, NEW t \in Tx, ResolveCommit(t)
    PROVE  \/ UNCHANGED <<bet, balance>>
           \/ \E m \in Markets, w \in WinnerIds, rows \in SUBSET Atomic!Bets :
                Atomic!Settle(m, w, rows)
<1> DEFINE rows == Picked(t)
           m == tx[t].market
           w == tx[t].winner
<1>1. tx[t] \in Resolution /\ ResolutionLocal(tx[t])
  BY RequestKinds DEF IInv, TypeOK, ResolveCommit, Resolving, Locals, Local
<1>2. m \in Markets /\ w \in WinnerIds /\ rows \subseteq Bets
  BY <1>1 DEF Resolution, Picked
<1>3. \A b \in rows : bet[b].status = "PENDING" /\ bet[b].market = m
  BY <1>1 DEF Picked, ResolutionLocal, RequestsKnowTheirMarket, ResolveCommit
<1>4. bet' = [b \in Bets |->
                IF b \in rows
                THEN [bet[b] EXCEPT !.status =
                        IF bet[b].outcome = w THEN "SETTLED_WON" ELSE "SETTLED_LOST"]
                ELSE bet[b]]
  BY DEF ResolveCommit, Won
<1>5. Atomic!MoneyFollows /\ UNCHANGED funded
  BY MoneyFollowsBooks DEF ResolveCommit
<1> HIDE DEF rows, m, w
<1>6. CASE rows = {}
  <2>1. bet' = bet
    BY <1>4, <1>6 DEF IInv, TypeOK
  <2> QED BY <1>5, <2>1, QuietMoney
<1>7. CASE rows # {}
  <2>1. Atomic!Settle(m, w, rows)
    BY <1>3, <1>4, <1>5, <1>7, SameSets DEF Atomic!Settle, Atomic!Turn
  <2> QED BY <1>2, <2>1, SameSets
<1> QED BY <1>6, <1>7

LEMMA ReverseCommitReverses ==
    ASSUME IInv, IInv', RequestsKnowTheirMarket, NEW t \in Tx, ReverseCommit(t)
    PROVE  \/ UNCHANGED <<bet, balance>>
           \/ \E m \in Markets, rows \in SUBSET Atomic!Bets : Atomic!Reverse(m, rows)
<1> DEFINE rows == tx[t].held
           m == tx[t].market
<1>1. tx[t] \in Reversal /\ ReversalLocal(tx[t])
  BY RequestKinds DEF IInv, TypeOK, ReverseCommit, Reversing, Locals, Local
<1>2. m \in Markets /\ rows \subseteq Bets /\ rows \subseteq DOMAIN tx[t].seen
  BY <1>1 DEF Reversal, ReversalLocal
<1>3. \A b \in rows : bet[b].status \in Settled /\ bet[b].market = m
  <2> TAKE b \in rows
  <2>1. bet[b].status = tx[t].seen[b]
    BY ReversalSeesInForce
  <2>2. tx[t].seen[b] \in Settled
    BY <1>1, <1>2, SeenType DEF Reversal
  <2> QED BY <1>2, <2>1, <2>2 DEF RequestsKnowTheirMarket, ReverseCommit
<1>4. bet' = [b \in Bets |-> IF b \in rows THEN [bet[b] EXCEPT !.status = "PENDING"]
                                          ELSE bet[b]]
  BY DEF ReverseCommit
<1>5. Atomic!MoneyFollows /\ UNCHANGED funded
  BY MoneyFollowsBooks DEF ReverseCommit
<1> HIDE DEF rows, m
<1>6. CASE rows = {}
  <2>1. bet' = bet
    BY <1>4, <1>6 DEF IInv, TypeOK
  <2> QED BY <1>5, <2>1, QuietMoney
<1>7. CASE rows # {}
  <2>1. Atomic!Reverse(m, rows)
    BY <1>3, <1>4, <1>5, <1>7, SameSets DEF Atomic!Reverse, Atomic!Turn
  <2> QED BY <1>2, <2>1, SameSets
<1> QED BY <1>6, <1>7

-----------------------------------------------------------------------------
LEMMA InitialRefinement == Init => Atomic!Init
<1>1. Init => balance \in [Account -> Nat]
  BY InitIInv DEF IInv, TypeOK
<1> QED BY <1>1, SameSets DEF Init, Atomic!Init

LEMMA StepRefinement ==
    IInv /\ IInv' /\ RequestsKnowTheirMarket /\ [Next]_vars => [Atomic!Next]_<<bet, balance>>
<1> SUFFICES ASSUME IInv, IInv', RequestsKnowTheirMarket, [Next]_vars
             PROVE  [Atomic!Next]_<<bet, balance>>
  OBVIOUS
<1>1. ASSUME NEW u \in Users, NEW amount \in RechargeAmounts, Recharge(u, amount)
      PROVE  Atomic!Next
  BY <1>1, RechargeFunds DEF Atomic!Next
<1>2. ASSUME NEW t \in Tx, PlaceCommit(t) PROVE Atomic!Next
  BY <1>2, PlaceCommitPlaces DEF Atomic!Next
<1>3. ASSUME NEW t \in Tx, SellCommit(t) PROVE Atomic!Next
  BY <1>3, SellCommitCashesOut DEF Atomic!Next
<1>4. ASSUME NEW t \in Tx, ResolveCommit(t) PROVE Atomic!Next \/ UNCHANGED <<bet, balance>>
  BY <1>4, ResolveCommitSettles DEF Atomic!Next
<1>5. ASSUME NEW t \in Tx, ReverseCommit(t) PROVE Atomic!Next \/ UNCHANGED <<bet, balance>>
  BY <1>5, ReverseCommitReverses DEF Atomic!Next
<1>6. ASSUME NEW t \in Tx, Arrive(t) \/ Step(t) \/ Crash(t)
      PROVE  \/ UNCHANGED <<bet, balance>>
             \/ PlaceCommit(t) \/ SellCommit(t) \/ ResolveCommit(t) \/ ReverseCommit(t)
  BY <1>6 DEF Arrive, PlayerPlaces, PlayerSells, AdminSettles, AdminEdits,
              PlaceRead, SellLoad, ResolveSelect, ReverseLoad, AdminLoad,
     Step, PlaceInsufficient, SellLock, SellRead, SellFail, ResolveLock, ResolveRead,
     ResolveFail, ReverseLock, ReverseRead, ReverseFail, DeadlockAbort, CloseCommit,
     UpdateCommit, Crash
<1>7. CASE Tick \/ UNCHANGED vars
  BY <1>7 DEF Tick, vars
<1> QED BY <1>1, <1>2, <1>3, <1>4, <1>5, <1>6, <1>7 DEF Next

(* ActsAtomically: whatever the interleaving, every request acts on bets   *)
(* and balances as one atomic step of Bookmaker or not at all.             *)
THEOREM BettingImplementsBookmaker == Spec => ActsAtomically
<1>1. Init => Atomic!Init
  BY InitialRefinement
<1>2. IInv /\ IInv' /\ RequestsKnowTheirMarket /\ [Next]_vars => [Atomic!Next]_<<bet, balance>>
  BY StepRefinement
<1> QED BY <1>1, <1>2, BettingInvariant, RequestsKnowTheirMarketInvariant, PTL
        DEF Spec, ActsAtomically, Atomic!Spec
-----------------------------------------------------------------------------
(* The marks of one open position (OpenPosition), whatever its stake, its  *)
(* entry price and the quotes its outcome gets.                            *)

\* The bet keeps its stake and the price it was locked at; a quote is one that
\* was written, until the market is gone.
Holds ==
    /\ held_stake \in Amount /\ held_price \in Price
    /\ shown_quote \in Quote \cup {Gone}

LEMMA HoldsInvariant == PositionSpec => []Holds
<1>1. PositionInit => Holds
  BY PositionAssumption DEF PositionInit, Holds
<1>2. Holds /\ [PositionNext]_positionVars => Holds'
  BY PositionAssumption DEF Holds, PositionNext, MarketReplaced, Requote, positionVars
<1> QED BY <1>1, <1>2, PTL DEF PositionSpec

(* The figures of a position, in the arithmetic of Payout. *)
LEMMA Figures ==
    /\ potential_payout = compute_payout(held_stake, held_price)
    /\ current_odds = shown_quote
    /\ priced <=> shown_quote # Gone
    /\ priced => current_value = cashout_value(held_stake, held_price, shown_quote)
    /\ ~priced => current_value = quantize_money(held_stake, 1)
    /\ unrealized_pnl = current_value - held_stake
BY DEF potential_payout, current_odds, priced, current_value, unrealized_pnl, profit_or_loss

LEMMA FigureTypes ==
    ASSUME Holds
    PROVE  /\ PriceScale \in Nat /\ held_stake \in Nat /\ held_price \in Nat \ {0}
           /\ held_price <= PriceScale
           /\ held_stake * PriceScale \in Nat
           /\ priced => /\ shown_quote \in Nat /\ shown_quote <= PriceScale
                               /\ held_stake * shown_quote \in Nat
<1>1. /\ PriceScale \in Nat /\ held_stake \in Nat /\ held_price \in Nat \ {0}
      /\ held_price <= PriceScale
  BY PriceScaleAssumption DEF Holds, Amount, Price
<1>2. priced => shown_quote \in Nat /\ shown_quote <= PriceScale
  BY PriceScaleAssumption, Figures DEF Holds, Quote
<1> QED BY <1>1, <1>2

(* Rounding half up returns the nearest whole amount, for every quotient.  *)
LEMMA HalfUpIsNearest ==
    ASSUME NEW num \in Nat, NEW den \in Nat \ {0}
    PROVE  IsNearest(quantize_money(num, den), num, den)
<1> DEFINE amount == quantize_money(num, den)
           whole  == amount * den
<1>1. /\ amount \in Nat
      /\ (2 * den) * amount <= 2 * num + den
      /\ 2 * num + den < (2 * den) * amount + 2 * den
  BY HalfUpBounds DEF quantize_money, HalfUp
<1> HIDE DEF amount
<1>2. /\ whole \in Nat /\ (2 * den) * amount = 2 * whole
      /\ (amount - 1) * den = whole - den /\ (amount + 1) * den = whole + den
  BY <1>1
<1>3. amount * den = whole
  OBVIOUS
<1> HIDE DEF whole
<1>4. 2 * whole <= 2 * num + den /\ 2 * num < 2 * whole + den
  BY <1>1, <1>2
<1>5. ASSUME NEW other \in {amount - 1, amount + 1}
      PROVE  (IF amount * den >= num THEN amount * den - num ELSE num - amount * den)
               <= (IF other * den >= num THEN other * den - num ELSE num - other * den)
  BY <1>2, <1>3, <1>4
<1>6. 2 * (num - amount * den) # den
  BY <1>2, <1>3, <1>4
<1>7. IsNearest(amount, num, den)
  BY <1>5, <1>6 DEF IsNearest
<1> QED BY <1>7 DEF amount

\* potential_payout and current_value are the ledger amounts nearest to the
\* exact quotients of payout.py: no stake, price or quote makes either of them
\* drift by a unit or favour the house on a tie.
THEOREM MarksAreExact == PositionSpec => []MarksAreNearest
<1>1. ASSUME Holds PROVE MarksAreNearest
  <2>1. IsNearest(potential_payout, held_stake * PriceScale, held_price)
    BY <1>1, Figures, FigureTypes, HalfUpIsNearest DEF compute_payout
  <2>2. priced =>
          IsNearest(current_value, held_stake * current_odds, held_price)
    BY <1>1, Figures, FigureTypes, HalfUpIsNearest DEF cashout_value
  <2> QED BY <2>1, <2>2 DEF MarksAreNearest
<1> QED BY <1>1, HoldsInvariant, PTL

(* Selling and holding agree in every state that Holds describes. *)
LEMMA SaleAgrees ==
    ASSUME Holds
    PROVE  SaleAgreesWithSettlement
<1> DEFINE value == current_value
           win   == potential_payout
<1>1. /\ PriceScale \in Nat /\ held_stake \in Nat /\ held_price \in Nat \ {0}
      /\ held_stake * PriceScale \in Nat /\ held_price <= PriceScale
      /\ priced => /\ shown_quote \in Nat /\ shown_quote <= PriceScale
                          /\ held_stake * shown_quote \in Nat
  BY FigureTypes
<1>2. Gone \notin Quote /\ 0 \in Quote /\ PriceScale \in Quote /\ held_price \in Quote
  BY <1>1, PositionAssumption DEF Quote
<1>3. quantize_money(held_stake, 1) = held_stake
  BY <1>1, HalfUpBrackets, HalfUpBounds DEF quantize_money, HalfUp
<1>4. ASSUME NEW q \in Nat, held_stake * q \in Nat, q <= PriceScale
      PROVE  cashout_value(held_stake, held_price, q) <= compute_payout(held_stake, held_price)
  <2>1. held_stake * q <= held_stake * PriceScale
    BY <1>1, <1>4, MulMono
  <2> QED
    BY <1>1, <1>4, <2>1, HalfUpMonotone DEF cashout_value, compute_payout, quantize_money, HalfUp
<1>5. cashout_value(held_stake, held_price, held_price) = held_stake
  <2>1. held_price * held_stake = held_stake * held_price /\ held_stake * held_price \in Nat
    BY <1>1
  <2> QED
    BY <1>1, <2>1, HalfUpBrackets, HalfUpBounds DEF cashout_value, quantize_money, HalfUp
<1>6. cashout_value(held_stake, held_price, 0) = 0
  <2>1. held_stake * 0 = 0 /\ held_price * 0 = 0
    BY <1>1
  <2> QED
    BY <1>1, <2>1, HalfUpBrackets, HalfUpBounds DEF cashout_value, quantize_money, HalfUp
<1>7. held_stake <= win
  <2>1. held_stake * held_price \in Nat
    BY <1>1
  <2>2. win = compute_payout(held_stake, held_price)
    BY Figures
  <2> QED BY <1>1, <1>4, <1>5, <2>1, <2>2
<1>8. cashout_value(held_stake, held_price, PriceScale) = compute_payout(held_stake, held_price)
  BY DEF cashout_value, compute_payout
<1>9. /\ win = compute_payout(held_stake, held_price) /\ current_odds = shown_quote
      /\ priced <=> shown_quote # Gone
      /\ priced => value = cashout_value(held_stake, held_price, shown_quote)
      /\ ~priced => value = quantize_money(held_stake, 1)
      /\ unrealized_pnl = value - held_stake
  BY Figures
<1> HIDE DEF value, win
<1>10. CASE shown_quote = Gone
  <2>1. value = held_stake /\ unrealized_pnl = 0
    BY <1>1, <1>3, <1>9, <1>10
  <2>2. shown_quote # 0 /\ shown_quote # PriceScale
    BY <1>2, <1>10
  <2> QED BY <1>7, <1>9, <1>10, <2>1, <2>2 DEF SaleAgreesWithSettlement, value, win
<1>11. CASE shown_quote # Gone
  <2>1. value = cashout_value(held_stake, held_price, shown_quote) /\ priced
    BY <1>9, <1>11
  <2>2. shown_quote = PriceScale => value = win
    BY <1>8, <1>9, <2>1
  <2>3. shown_quote = 0 => unrealized_pnl = -held_stake
    BY <1>1, <1>6, <1>9, <2>1
  <2>4. shown_quote \in {held_price, Gone} => unrealized_pnl = 0
    BY <1>1, <1>5, <1>9, <1>11, <2>1
  <2>5. value <= win
    BY <1>1, <1>4, <1>9, <2>1
  <2> QED BY <1>9, <2>2, <2>3, <2>4, <2>5 DEF SaleAgreesWithSettlement, value, win
<1> QED BY <1>10, <1>11

\* A certain outcome sells for the winning payout, an impossible one for
\* nothing, an unmoved quote or a lost market for the stake; and no quote makes
\* a cash-out worth more than the win.
THEOREM SellingMeetsSettlement == PositionSpec => []SaleAgreesWithSettlement
<1>1. Holds => SaleAgreesWithSettlement
  BY SaleAgrees
<1> QED BY <1>1, HoldsInvariant, PTL
=============================================================================
