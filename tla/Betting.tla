------------------------------- MODULE Betting -------------------------------
(***************************************************************************)
(* Bets, cash-outs, settlements and reversals on prediction markets, as    *)
(* concurrent requests against one Postgres database at READ COMMITTED     *)
(* (bets/service.py, settlement/service.py, settlement/adapters.py,        *)
(* markets/service.py, wallet/service.py).                                 *)
(*                                                                         *)
(* A request is a slot of tx.  Its steps are cut where another request can *)
(* come between: a read on another session, a read without a lock, the     *)
(* moment a row lock is granted, and the commit.  The writes of one        *)
(* database transaction become visible at its commit, in one step.  The    *)
(* account rows are only touched under FOR UPDATE locks that are held      *)
(* until the commit, so the commit step stands for lock, check, post and   *)
(* commit; WalletTransactions takes those apart statement by statement.    *)
(***************************************************************************)
EXTENDS Positions

CONSTANTS
    WinnerIds,        \* outcome ids an admin may pass to /resolve (not validated)
    Quotes,           \* YES quotes an admin may set
    KeyRank,          \* the order of the bets by primary key, a random UUID
    Tx,               \* bound: requests in flight at once
    PromoOpening,     \* seeded balance of house_promo
    RechargeAmounts, MaxFunding,   \* bound: what a wallet is recharged with in all
    MaxTime           \* bound: the clock, in steps between deadlines

Time     == 0..MaxTime
Statuses == {"OPEN", "CLOSED", "RESOLVED"}

ASSUME BoundsAssumption == MaxTime \in Nat /\ KeyRank \in [Bets -> Nat]
ASSUME MoneyAssumption ==
    /\ RechargeAmounts \subseteq Amount /\ PromoOpening \in Nat /\ MaxFunding \in Nat
    /\ Quotes \subseteq Quote
ASSUME NoneAssumption == None \notin WinnerIds

VARIABLES
    market,    \* the markets rows, with the YES quote of the outcomes rows
    bet,       \* the bets rows; NoBet where no row has been inserted yet
    balance,   \* the accounts rows
    keys,      \* transfers.idempotency_key values in use
    funded,    \* history: what recharges and the seed put into each account
    clock,
    tx         \* the requests in flight

vars == <<market, bet, balance, keys, funded, clock, tx>>

-----------------------------------------------------------------------------
(* Rows *)

MarketRow == [status: Statuses, deadline: Time, winner: WinnerIds \cup {None},
              yes: Quote]

Idle == [op |-> "idle", held |-> {}]

\* The locals of a request's handler, and the bets rows it holds locked.
Placing == [op: {"place"}, held: {{}}, user: Users, market: Markets,
            outcome: Outcomes, stake: Stakes, price: Quote]
Sale    == [op: {"sell"}, held: SUBSET Bets, bet: Bets, now: Time, price: Quote \cup {None}]
Seen    == UNION {[rows -> Settled] : rows \in SUBSET Bets}
Resolution == [op: {"resolve"}, held: SUBSET Bets, market: Markets, winner: WinnerIds,
               found: SUBSET Bets, row: MarketRow \cup {None}]
Reversal   == [op: {"reverse"}, held: SUBSET Bets, market: Markets, seen: Seen,
               row: MarketRow \cup {None}]
AdminEdit  == [op: {"close", "update"}, held: {{}}, market: Markets, row: MarketRow,
               now: Time]
Request == {Idle} \cup Placing \cup Sale \cup Resolution \cup Reversal \cup AdminEdit

PriceOf(m, o) == IF o = "YES" THEN market[m].yes ELSE PriceScale - market[m].yes

is_open(m, now) == market[m].status = "OPEN" /\ now < market[m].deadline

BetsOf(m, statuses) ==
    {b \in Bets : bet[b].status \in statuses /\ bet[b].market = m}

\* The bets row a request has to lock next: a set of at most one row.  A
\* resolution meets the rows in the order of the table, a reversal in the order
\* of their ids, which is another one: ids are random.
First(rows, rank) == {b \in rows : \A c \in rows : rank[b] <= rank[c]}
Wanted(t) ==
    CASE tx[t].op = "sell"    -> {tx[t].bet} \ tx[t].held
      [] tx[t].op = "resolve" -> First(tx[t].found \ tx[t].held, [b \in Bets |-> b])
      [] tx[t].op = "reverse" -> First(DOMAIN tx[t].seen \ tx[t].held, KeyRank)
      [] OTHER -> {}

\* Mutation: FOR UPDATE left out.
LocksIgnored(t, rows) == TRUE

\* Nobody else holds the locks of these rows.
LocksFree(t, rows) == \A u \in Tx \ {t} : tx[u].held \cap rows = {}

Begin(t, request) == tx[t] = Idle /\ tx' = [tx EXCEPT ![t] = request]
Proceed(t, request) == tx' = [tx EXCEPT ![t] = request]
Done(t) == tx' = [tx EXCEPT ![t] = Idle]

LockNext(t) ==
    /\ Wanted(t) # {} /\ LocksFree(t, Wanted(t))
    /\ Proceed(t, [tx[t] EXCEPT !.held = @ \cup Wanted(t)])

-----------------------------------------------------------------------------
(* The ledger transfers of one bet: a stake, a winnings and a loss leg, of *)
(* which the code posts those with a positive amount (CHECK amount > 0).   *)

LegNames == {"stake", "win", "loss"}
Passes   == {"settle", "reverse", "close"}

\* What all legs of a bet change in an account.
Effect(legs, a) == Move(legs.stake, a) + Move(legs.win, a) + Move(legs.loss, a)

Won(b, winner) == bet[b].outcome = winner

\* Mutation: a losing stake is left in escrow.
SettleLegsUnswept(b, winner) ==
    LET row == bet[b]
        pnl == profit_or_loss(row.stake, compute_payout(row.stake, row.odds))
    IN  [stake |-> IF Won(b, winner)
                   THEN Leg(LiabilityOf[row.market], WalletOf[row.user], row.stake) ELSE NoLeg,
         win   |-> IF Won(b, winner) THEN Leg(HousePromo, WalletOf[row.user], pnl) ELSE NoLeg,
         loss  |-> NoLeg]

SettleLegs(b, winner) ==
    LET row == bet[b]
        pnl == profit_or_loss(row.stake, compute_payout(row.stake, row.odds))
    IN  IF Won(b, winner)
        THEN [stake |-> Leg(LiabilityOf[row.market], WalletOf[row.user], row.stake),
              win   |-> Leg(HousePromo, WalletOf[row.user], pnl),
              loss  |-> NoLeg]
        ELSE [stake |-> NoLeg, win |-> NoLeg,
              loss  |-> Leg(LiabilityOf[row.market], HouseRevenue, row.stake)]

ReverseLegs(b, seen) ==
    LET row == bet[b]
        winnings == profit_or_loss(row.stake, compute_payout(row.stake, row.odds))
    IN  IF seen = "SETTLED_WON"
        THEN [stake |-> Leg(WalletOf[row.user], LiabilityOf[row.market], row.stake),
              win   |-> Leg(WalletOf[row.user], HousePromo, winnings),
              loss  |-> NoLeg]
        ELSE [stake |-> NoLeg, win |-> NoLeg,
              loss  |-> Leg(HouseRevenue, LiabilityOf[row.market], row.stake)]

CloseLegs(b, price) ==
    LET row    == bet[b]
        payout == cashout_value(row.stake, row.odds, price)
        pool   == LiabilityOf[row.market]
    IN  IF payout >= row.stake
        THEN [stake |-> Leg(pool, WalletOf[row.user], row.stake),
              win   |-> Leg(HousePromo, WalletOf[row.user], payout - row.stake),
              loss  |-> NoLeg]
        ELSE [stake |-> Leg(pool, WalletOf[row.user], payout),
              win   |-> NoLeg,
              loss  |-> Leg(pool, HouseRevenue, row.stake - payout)]

\* What the legs of the bets in rows change in an account.
TotalEffect(legs, rows, a) ==
    SumTo([b \in Bets |-> IF b \in rows THEN Effect(legs[b], a) ELSE 0], MaxBets)

\* Mutation: transfers posted without an idempotency key.
KeysUnused(pass, legs, rows) == {}

KeysOf(pass, legs, rows) ==
    {key \in {pass} \X rows \X LegNames : legs[key[2]][key[3]].amount > 0}

Posted(legs, rows) == [a \in Account |-> balance[a] + TotalEffect(legs, rows, a)]

\* Mutation: no CHECK (balance >= 0).
PostableUnchecked(pass, legs, rows) == KeysOf(pass, legs, rows) \cap keys = {}

\* _post_transfer for every leg: idempotency_key is UNIQUE, balance CHECKed.
\* One pass only debits or only credits any one account, so the CHECK of the
\* last UPDATE of an account is the check of them all.
Postable(pass, legs, rows) ==
    /\ KeysOf(pass, legs, rows) \cap keys = {}
    /\ \A a \in Account : Posted(legs, rows)[a] >= 0

Post(pass, legs, rows) ==
    /\ Postable(pass, legs, rows)
    /\ balance' = Posted(legs, rows)
    /\ keys' = keys \cup KeysOf(pass, legs, rows)

-----------------------------------------------------------------------------
(* WalletService.recharge: house_promo -> user_wallet. *)

Recharge(u, amount) ==
    /\ funded[WalletOf[u]] + amount <= MaxFunding
    /\ balance[HousePromo] >= amount
    /\ LET leg == Leg(HousePromo, WalletOf[u], amount) IN
         /\ balance' = [a \in Account |-> balance[a] + Move(leg, a)]
         /\ funded'  = [a \in Account |-> funded[a] + Move(leg, a)]
    /\ UNCHANGED <<market, bet, keys, clock, tx>>

-----------------------------------------------------------------------------
(* BetService.place_bet *)

\* The market is read on a session of its own, before the transaction.
PlaceRead(t, u, m, o, stake) ==
    /\ is_open(m, clock)
    /\ Begin(t, [op |-> "place", held |-> {}, user |-> u, market |-> m,
                 outcome |-> o, stake |-> stake, price |-> PriceOf(m, o)])
    /\ UNCHANGED <<market, bet, balance, keys, funded, clock>>

NextRow(b) == bet[b] = NoBet /\ \A c \in 1..(b - 1) : bet[c] # NoBet

PlaceCommit(t) ==
    /\ tx[t].op = "place"
    /\ balance[WalletOf[tx[t].user]] >= tx[t].stake
    /\ \E b \in Bets :
         /\ NextRow(b)
         /\ bet' = [bet EXCEPT ![b] =
              [status |-> "PENDING", user |-> tx[t].user, market |-> tx[t].market,
               outcome |-> tx[t].outcome, stake |-> tx[t].stake,
               odds |-> tx[t].price, exit_odds |-> None]]
    /\ LET leg == Leg(WalletOf[tx[t].user], LiabilityOf[tx[t].market], tx[t].stake) IN
         balance' = [a \in Account |-> balance[a] + Move(leg, a)]
    /\ Done(t)
    /\ UNCHANGED <<market, keys, funded, clock>>

PlaceInsufficient(t) ==
    /\ tx[t].op = "place"
    /\ \/ balance[WalletOf[tx[t].user]] < tx[t].stake
       \/ \A b \in Bets : bet[b] # NoBet         \* bound on the bets table
    /\ Done(t)
    /\ UNCHANGED <<market, bet, balance, keys, funded, clock>>

-----------------------------------------------------------------------------
(* BetService.sell_position *)

\* Unlocked read of the bet by its owner; now is taken when the transaction
\* opens, before the row lock is waited for.
SellLoad(t, b) ==
    /\ bet[b].status = "PENDING"
    /\ Begin(t, [op |-> "sell", held |-> {}, bet |-> b,
                 now |-> clock, price |-> None])
    /\ UNCHANGED <<market, bet, balance, keys, funded, clock>>

Selling(t) == tx[t].op = "sell"

SellLock(t) ==
    /\ Selling(t) /\ tx[t].held = {}
    /\ IF bet[tx[t].bet].status = "PENDING"
       THEN LockNext(t)
       ELSE LocksFree(t, Wanted(t)) /\ Done(t)    \* BetNotClosable
    /\ UNCHANGED <<market, bet, balance, keys, funded, clock>>

\* The market is read on a session of its own, under the bet row lock.
SellRead(t) ==
    /\ Selling(t) /\ tx[t].held # {} /\ tx[t].price = None
    /\ LET row == bet[tx[t].bet] IN
         IF is_open(row.market, tx[t].now) /\ Payable(row.stake, row.odds)
         THEN Proceed(t, [tx[t] EXCEPT !.price = PriceOf(row.market, row.outcome)])
         ELSE Done(t)                             \* MarketClosed, or ValueError
    /\ UNCHANGED <<market, bet, balance, keys, funded, clock>>

SaleLegs(t) == [b \in {tx[t].bet} |-> CloseLegs(b, tx[t].price)]

SellCommit(t) ==
    /\ Selling(t) /\ tx[t].held # {} /\ tx[t].price # None
    /\ Post("close", SaleLegs(t), {tx[t].bet})
    /\ bet' = [bet EXCEPT ![tx[t].bet].status = "CLOSED",
                          ![tx[t].bet].exit_odds = tx[t].price]
    /\ Done(t)
    /\ UNCHANGED <<market, funded, clock>>

\* house_promo cannot cover the gain: the CHECK rolls the transaction back.
SellFail(t) ==
    /\ Selling(t) /\ tx[t].held # {} /\ tx[t].price # None
    /\ ~Postable("close", SaleLegs(t), {tx[t].bet})
    /\ Done(t)
    /\ UNCHANGED <<market, bet, balance, keys, funded, clock>>

-----------------------------------------------------------------------------
(* SettlementService.resolve_market *)

\* SELECT .. WHERE PENDING FOR UPDATE: the rows are those of the snapshot taken
\* when the statement starts.
ResolveSelect(t, m, winner) ==
    /\ Begin(t, [op |-> "resolve", held |-> {}, market |-> m, winner |-> winner,
                 found |-> BetsOf(m, {"PENDING"}), row |-> None])
    /\ UNCHANGED <<market, bet, balance, keys, funded, clock>>

Resolving(t) == tx[t].op = "resolve"

\* It locks them one by one, waiting for each, and keeps the lock of a row that
\* no longer satisfies the WHERE.
ResolveLock(t) ==
    /\ Resolving(t)
    /\ LockNext(t)
    /\ UNCHANGED <<market, bet, balance, keys, funded, clock>>

\* Mutation: the status filter is not applied again to the locked rows.
PickedStale(t) == tx[t].held

\* The rows it returns: those that are still pending once they are locked.
Picked(t) == {b \in tx[t].held : bet[b].status = "PENDING"}

\* build_settlement_plan raises on a winning bet whose locked price is 0.
Plannable(t) ==
    \A b \in Picked(t) : Won(b, tx[t].winner) => Payable(bet[b].stake, bet[b].odds)

\* mark_resolved loads the market row; nothing locks it.
ResolveRead(t) ==
    /\ Resolving(t) /\ tx[t].row = None
    /\ tx[t].found \subseteq tx[t].held
    /\ IF Plannable(t)
       THEN Proceed(t, [tx[t] EXCEPT !.row = market[tx[t].market]])
       ELSE Done(t)                               \* ValueError
    /\ UNCHANGED <<market, bet, balance, keys, funded, clock>>

SettlementLegs(t) == [b \in Picked(t) |-> SettleLegs(b, tx[t].winner)]

\* The UPDATE carries the columns the session changed from what it loaded.
mark_resolved(row, winner, current) ==
    IF row.status = "RESOLVED" THEN current
    ELSE [current EXCEPT !.status = "RESOLVED",
                         !.winner = IF row.winner = winner THEN @ ELSE winner]

ResolveCommit(t) ==
    /\ Resolving(t) /\ tx[t].row # None
    /\ Post("settle", SettlementLegs(t), Picked(t))
    /\ bet' = [b \in Bets |->
                 IF b \in Picked(t)
                 THEN [bet[b] EXCEPT !.status =
                         IF Won(b, tx[t].winner) THEN "SETTLED_WON" ELSE "SETTLED_LOST"]
                 ELSE bet[b]]
    /\ market' = [market EXCEPT ![tx[t].market] = mark_resolved(tx[t].row, tx[t].winner, @)]
    /\ Done(t)
    /\ UNCHANGED <<funded, clock>>

\* 23505 on a settle key that an earlier round used, or house_promo exhausted.
ResolveFail(t) ==
    /\ Resolving(t) /\ tx[t].row # None
    /\ ~Postable("settle", SettlementLegs(t), Picked(t))
    /\ Done(t)
    /\ UNCHANGED <<market, bet, balance, keys, funded, clock>>

-----------------------------------------------------------------------------
(* SettlementService.reverse_settlement *)

\* The SETTLED bets are read without a lock; with none of them the request
\* only writes an audit row.
ReverseLoad(t, m) ==
    /\ BetsOf(m, Settled) # {}
    /\ Begin(t, [op |-> "reverse", held |-> {}, market |-> m, row |-> None,
                 seen |-> [b \in BetsOf(m, Settled) |-> bet[b].status]])
    /\ UNCHANGED <<market, bet, balance, keys, funded, clock>>

Reversing(t) == tx[t].op = "reverse"

\* The flush of bet.status = PENDING updates the bets one by one, by primary
\* key, whatever their status is by then.
ReverseLock(t) ==
    /\ Reversing(t)
    /\ LockNext(t)
    /\ UNCHANGED <<market, bet, balance, keys, funded, clock>>

\* mark_unresolved loads the market row.
ReverseRead(t) ==
    /\ Reversing(t) /\ tx[t].row = None
    /\ DOMAIN tx[t].seen \subseteq tx[t].held
    /\ Proceed(t, [tx[t] EXCEPT !.row = market[tx[t].market]])
    /\ UNCHANGED <<market, bet, balance, keys, funded, clock>>

ReversalLegs(t) == [b \in tx[t].held |-> ReverseLegs(b, tx[t].seen[b])]

\* Mutation: a reversal reopens the market.
reopened(row, current) == [current EXCEPT !.status = "OPEN"]

mark_unresolved(row, current) ==
    IF row.status = "CLOSED" THEN current ELSE [current EXCEPT !.status = "CLOSED"]

ReverseCommit(t) ==
    /\ Reversing(t) /\ tx[t].row # None
    /\ Post("reverse", ReversalLegs(t), tx[t].held)
    /\ bet' = [b \in Bets |-> IF b \in tx[t].held
                              THEN [bet[b] EXCEPT !.status = "PENDING"] ELSE bet[b]]
    /\ market' = [market EXCEPT ![tx[t].market] = mark_unresolved(tx[t].row, @)]
    /\ Done(t)
    /\ UNCHANGED <<funded, clock>>

\* Mutation: a reversal that cannot post starts again from the rows it saw.
ReverseRetried(t) ==
    /\ Reversing(t) /\ tx[t].row # None
    /\ ~Postable("reverse", ReversalLegs(t), tx[t].held)
    /\ Proceed(t, [tx[t] EXCEPT !.held = {}, !.row = None])
    /\ UNCHANGED <<market, bet, balance, keys, funded, clock>>

\* 23505 (another reversal came first) or a winner has spent the winnings.
ReverseFail(t) ==
    /\ Reversing(t) /\ tx[t].row # None
    /\ ~Postable("reverse", ReversalLegs(t), tx[t].held)
    /\ Done(t)
    /\ UNCHANGED <<market, bet, balance, keys, funded, clock>>

-----------------------------------------------------------------------------
(* MarketService.close_market and update_market: load, check, write. *)

AdminLoad(t, m, op) ==
    /\ market[m].status = "OPEN"
    /\ Begin(t, [op |-> op, held |-> {}, market |-> m, row |-> market[m], now |-> clock])
    /\ UNCHANGED <<market, bet, balance, keys, funded, clock>>

CloseCommit(t) ==
    /\ tx[t].op = "close"
    /\ market' = [market EXCEPT ![tx[t].market].status = "CLOSED"]
    /\ Done(t)
    /\ UNCHANGED <<bet, balance, keys, funded, clock>>

\* Mutation: the whole row that was loaded is written back.
patched_whole(row, current, yes, deadline) == [row EXCEPT !.yes = yes, !.deadline = deadline]

patched(row, current, yes, deadline) ==
    [current EXCEPT !.yes      = IF row.yes = yes THEN @ ELSE yes,
                    !.deadline = IF row.deadline = deadline THEN @ ELSE deadline]

\* A PATCH may leave either field alone; a new deadline is in the future.
UpdateCommit(t, yes, deadline) ==
    /\ tx[t].op = "update"
    /\ deadline > tx[t].now \/ deadline = tx[t].row.deadline
    /\ market' = [market EXCEPT ![tx[t].market] = patched(tx[t].row, @, yes, deadline)]
    /\ Done(t)
    /\ UNCHANGED <<bet, balance, keys, funded, clock>>

Tick ==
    /\ clock < MaxTime
    /\ clock' = clock + 1
    /\ UNCHANGED <<market, bet, balance, keys, funded, tx>>

InLockCycle(t) ==
    \E circle \in SUBSET Tx :
      /\ t \in circle
      /\ \A u \in circle : \E v \in circle \ {u} : Wanted(u) \cap tx[v].held # {}

\* Postgres finds requests that wait for one another and fails one of them.
DeadlockAbort(t) ==
    /\ InLockCycle(t)
    /\ Done(t)
    /\ UNCHANGED <<market, bet, balance, keys, funded, clock>>

\* The process or its connection dies: the transaction rolls back.
Crash(t) ==
    /\ tx[t] # Idle
    /\ Done(t)
    /\ UNCHANGED <<market, bet, balance, keys, funded, clock>>

-----------------------------------------------------------------------------
Init ==
    /\ market \in [Markets -> {[status |-> "OPEN", deadline |-> d, winner |-> None,
                                yes |-> q] : d \in Time \ {0}, q \in Quotes}]
    /\ clock   = 0
    /\ bet     = [b \in Bets |-> NoBet]
    /\ funded  = [a \in Account |-> IF a = HousePromo THEN PromoOpening ELSE 0]
    /\ balance = funded
    /\ keys    = {}
    /\ tx      = [t \in Tx |-> Idle]

\* What a request that has begun does next.
Step(t) ==
    \/ PlaceCommit(t) \/ PlaceInsufficient(t)
    \/ SellLock(t) \/ SellRead(t) \/ SellCommit(t) \/ SellFail(t)
    \/ ResolveLock(t) \/ ResolveRead(t) \/ ResolveCommit(t) \/ ResolveFail(t)
    \/ ReverseLock(t) \/ ReverseRead(t) \/ ReverseCommit(t) \/ ReverseFail(t)
    \/ DeadlockAbort(t)
    \/ CloseCommit(t)
    \/ \E yes \in Quotes, deadline \in Time : UpdateCommit(t, yes, deadline)

\* The routes of players (bets/router.py) and of admins (settlement/router.py,
\* and markets/router.py for a market's edits).
PlayerPlaces(t) ==
    \E u \in Users, m \in Markets, o \in Outcomes, s \in Stakes : PlaceRead(t, u, m, o, s)

PlayerSells(t) == \E b \in Bets : SellLoad(t, b)

AdminSettles(t) ==
    \E m \in Markets : ReverseLoad(t, m) \/ \E w \in WinnerIds : ResolveSelect(t, m, w)

AdminEdits(t) == \E m \in Markets, op \in {"close", "update"} : AdminLoad(t, m, op)

Arrive(t) == PlayerPlaces(t) \/ PlayerSells(t) \/ AdminSettles(t) \/ AdminEdits(t)

Next ==
    \/ \E u \in Users, amount \in RechargeAmounts : Recharge(u, amount)
    \/ Tick
    \/ \E t \in Tx : Arrive(t) \/ Step(t) \/ Crash(t)

Spec == Init /\ [][Next]_vars

\* A request runs on until it ends.  Postgres grants a row lock in the order
\* of the queue, so one that is waited for is granted even under contention.
Fairness == \A t \in Tx : /\ WF_vars(Step(t))
                          /\ SF_vars(SellLock(t) \/ ResolveLock(t) \/ ReverseLock(t))
FairSpec == Spec /\ Fairness

-----------------------------------------------------------------------------
(* What the code promises *)

\* The rows have the columns' types, and each request the locals of its handler.
TypeOK ==
    /\ market  \in [Markets -> MarketRow]
    /\ bet     \in [Bets -> BetRow \cup {NoBet}]
    /\ balance \in [Account -> Nat]
    /\ keys    \subseteq Passes \X Bets \X LegNames
    /\ funded  \in [Account -> Int]
    /\ clock   \in Time
    /\ tx      \in [Tx -> Request]

\* Every account holds what it was funded with plus what the bets rows say,
\* after any interleaving of placements, cash-outs, resolutions, reversals and
\* crashes: a bet is paid once, a reversal undoes its settlement to the unit,
\* and the P&L shown in the portfolio is the money that moved.
Books ==
    \A a \in Account : balance[a] = funded[a] + Holding(bet, a)

\* A market's liability account holds the stakes of its pending bets: enough to
\* return every one of them, and nothing is stranded there by a settled bet.
EscrowBacksPending ==
    \A m \in Markets :
        balance[LiabilityOf[m]] =
            SumTo([b \in Bets |-> IF b \in BetsOf(m, {"PENDING"})
                                  THEN bet[b].stake ELSE 0], MaxBets)

\* The transfers of a bet alone tell its status: an outcome is in force when it
\* was settled and not reversed.  So a stale settlement, reversal or cash-out
\* can only roll back.
InForce(b, leg) == <<"settle", b, leg>> \in keys /\ <<"reverse", b, leg>> \notin keys
LedgerTellsStatus ==
    \A b \in Bets :
        /\ bet[b].status = "SETTLED_WON"  <=> InForce(b, "stake")
        /\ bet[b].status = "SETTLED_LOST" <=> InForce(b, "loss")
        /\ bet[b].status = "CLOSED" <=> \E leg \in LegNames : <<"close", b, leg>> \in keys
        /\ \A leg \in {"stake", "loss"} :
             <<"reverse", b, leg>> \in keys => <<"settle", b, leg>> \in keys

\* Whatever their interleaving, requests act on the bets as if each were one
\* atomic step on the rows of that moment (BetService, SettlementService), and
\* the money follows: no bet changes status on stale data.
Atomic == INSTANCE Bookmaker
ActsAtomically == Atomic!Spec

\* A market that has left OPEN takes no bets again: a reversal puts it back to
\* CLOSED, and no stale admin write reopens it.
NeverReopens ==
    [][\A m \in Markets : market'[m].status = "OPEN" => market[m].status = "OPEN"]_vars

\* No bet is settled on a market that still takes bets, even when the market
\* row was read before another request changed it.
SettledMarketNotOpen ==
    \A m \in Markets : BetsOf(m, Settled) # {} => market[m].status # "OPEN"

\* Every request ends: what it waits for is given up by others, or Postgres
\* breaks the circle.
EveryRequestEnds == \A t \in Tx : (tx[t] # Idle) ~> (tx[t] = Idle)

-----------------------------------------------------------------------------
\* What a comment promises and the code does not keep, bets/market_port.py: "A
\* market accepts bets only while OPEN and strictly before its deadline."  The
\* snapshot is not read again in the transaction.
NoLateBet ==
    [][\A b \in Bets : bet[b] = NoBet /\ bet'[b] # NoBet => is_open(bet'[b].market, clock)]_vars
=============================================================================
