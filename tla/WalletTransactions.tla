-------------------------- MODULE WalletTransactions --------------------------
(***************************************************************************)
(* Database transactions on the ledger, statement by statement: recharges, *)
(* signup bonuses, stakes, and the mirror of live-bets bets (wallet/       *)
(* service.py, bets/service.py, integrations/livebets/service.py).         *)
(*                                                                         *)
(* A request is a slot of tx.  It takes row locks on accounts one at a     *)
(* time and keeps them to its commit; what it has written is seen by the   *)
(* others at the commit, but an uncommitted insert makes an insert of the  *)
(* same primary key wait.                                                  *)
(***************************************************************************)
EXTENDS Ledger, Sums, Sequences, FiniteSetsExt

CONSTANTS
    Users, WalletOf,
    Pool,               \* the liability account of a market
    Escrow,             \* livebets_escrow
    NumLiveBets,        \* live-bets bets, numbered
    Stakes, Payouts,    \* what live-bets may report, stakes within the limits
    ClientKeys, Amounts, BonusAmount,
    MaxStakes,          \* bound: bets placed on the market
    PromoOpening,       \* seeded balance of house_promo
    Tx,                 \* bound: requests in flight at once
    None

LiveBets == 1..NumLiveBets
Refunded == {"REFUNDED", "VOIDED"}
Terminal == {"WON", "LOST"} \cup Refunded

\* The idempotency keys, and for a stake, which has none, the bet it belongs to.
Key == ({"recharge"} \X ClientKeys) \cup ({"bonus"} \X Users) \cup ({"bet"} \X (1..MaxStakes))
       \cup ({"placed", "settled", "stake", "winnings"} \X LiveBets)

ASSUME LedgerAssumption ==
    /\ WalletOf \in [Users -> Account] /\ Pool \in Account /\ Escrow \in Account
    /\ \A u \in Users : WalletOf[u] \notin {HousePromo, HouseRevenue, Pool, Escrow}
    /\ Pool \notin {HousePromo, HouseRevenue, Escrow}
    /\ Escrow \notin {HousePromo, HouseRevenue}
ASSUME QuantitiesAssumption ==
    /\ NumLiveBets \in Nat /\ MaxStakes \in Nat /\ PromoOpening \in Nat
    /\ Stakes \subseteq Nat \ {0} /\ Payouts \subseteq Nat
    /\ Amounts \subseteq Nat \ {0} /\ BonusAmount \in Nat \ {0}
ASSUME NoneIsNoPayout == None \notin Payouts

VARIABLES
    balance,     \* the accounts rows
    transfers,   \* the transfers rows with their two entries
    mirror,      \* the livebets_bets rows; NoMirror where no row is committed
    upstream,    \* the bets as GET /v2/bets/{id} of live-bets reports them
    tx           \* the requests in flight

vars == <<balance, transfers, mirror, upstream, tx>>

-----------------------------------------------------------------------------
Transfer == [key: Key, leg: [debit: Account, credit: Account, amount: Nat \ {0}]]

NoMirror == [status |-> "NONE"]
Mirrored == [user: Users, stake: Stakes, status: {"PENDING"} \cup Terminal]
BetView  == [status: {"PENDING"} \cup Terminal, stake: Stakes, payout: Payouts \cup {None}]

Idle == [op |-> "idle", held |-> {}]

\* Requests that know the transfers they will post, and lock for them.
Funding    == [op: {"fund", "replay"}, held: SUBSET Account, posts: Seq(Transfer)]
Staking    == [op: {"stake"}, held: SUBSET Account, posts: Seq(Transfer)]
Settling   == [op: {"settle"}, held: SUBSET Account, bet: LiveBets, view: BetView,
               posts: Seq(Transfer)]
\* Requests of the bridge before that.
Verified   == [op: {"verified"}, held: {{}}, bet: LiveBets, view: BetView, user: Users]
Placement  == [op: {"place", "claim", "covered"}, held: SUBSET Account, bet: LiveBets,
               user: Users, stake: Stakes]
Request == {Idle} \cup Funding \cup Staking \cup Settling \cup Verified \cup Placement

Row(key, debit, credit, amount) == [key |-> key, leg |-> Leg(debit, credit, amount)]

Used(key) == \E row \in transfers : row.key = key

\* What the rows posted by one request change in an account.
Effect(posts, a) == SumTo([i \in 1..Len(posts) |-> Move(posts[i].leg, a)], Len(posts))

\* Mutation: the idempotency key is not UNIQUE.
DuplicateAllowed(posts) == TRUE

FreshKeys(posts) == \A i \in 1..Len(posts) : ~Used(posts[i].key)
\* Mutation: no CHECK (balance >= 0).
Unchecked(posts) == TRUE

Covered(posts) == \A a \in Account : balance[a] + Effect(posts, a) >= 0

\* _post_transfer for each row: the key is UNIQUE and the balance CHECKed.  A
\* request only debits or only credits any one account.
Post(posts) ==
    /\ FreshKeys(posts) /\ Covered(posts)
    /\ balance' = [a \in Account |-> balance[a] + Effect(posts, a)]
    /\ transfers' = transfers \cup {posts[i] : i \in 1..Len(posts)}

Begin(t, request) == tx[t] = Idle /\ tx' = [tx EXCEPT ![t] = request]
Proceed(t, request) == tx' = [tx EXCEPT ![t] = request]
Done(t) == tx' = [tx EXCEPT ![t] = Idle]

-----------------------------------------------------------------------------
(* Row locks on accounts *)

\* The accounts of the transfers a request will post, locked in UUID order.
Touched(t) == UNION {{row.leg.debit, row.leg.credit} :
                       row \in {tx[t].posts[i] : i \in 1..Len(tx[t].posts)}}

Ordered(t) == tx[t].op \in {"fund", "stake", "settle"}

Least(accounts) == {a \in accounts : \A c \in accounts : a <= c}

\* Mutation: the accounts are locked as the transfers name them, debit first.
NextAsNamed(t) ==
    LET open == {i \in 1..Len(tx[t].posts) :
                   ~({tx[t].posts[i].leg.debit, tx[t].posts[i].leg.credit} \subseteq tx[t].held)}
        leg  == tx[t].posts[CHOOSE i \in open : \A j \in open : i <= j].leg
    IN  IF open = {} THEN {}
        ELSE IF leg.debit \notin tx[t].held THEN {leg.debit} ELSE {leg.credit}

NextAccount(t) == Least(Touched(t) \ tx[t].held)

\* The account a request has to lock next, a set of at most one.  A placement
\* locks only the wallet; the UPDATE of the escrow account locks that one.
Wanted(t) ==
    IF Ordered(t) THEN NextAccount(t)
    ELSE CASE tx[t].op = "claim"   -> {WalletOf[tx[t].user]} \ tx[t].held
           [] tx[t].op = "covered" -> {Escrow} \ tx[t].held
           [] OTHER -> {}

\* Mutation: FOR UPDATE left out.
LocksIgnored(t, accounts) == TRUE

LocksFree(t, accounts) == \A u \in Tx \ {t} : tx[u].held \cap accounts = {}

Lock(t) ==
    /\ Wanted(t) # {} /\ LocksFree(t, Wanted(t))
    /\ Proceed(t, [tx[t] EXCEPT !.held = @ \cup Wanted(t)])
    /\ UNCHANGED <<balance, transfers, mirror, upstream>>

Ready(t, op) == tx[t].op = op /\ Touched(t) \subseteq tx[t].held

-----------------------------------------------------------------------------
(* WalletService.recharge and grant_signup_bonus *)

Fund(t, key, u, amount) ==
    /\ Begin(t, [op |-> "fund", held |-> {},
                 posts |-> <<Row(key, HousePromo, WalletOf[u], amount)>>])
    /\ UNCHANGED <<balance, transfers, mirror, upstream>>

\* The admin chooses the key of a recharge; a retry carries it again.
Recharge(t, u, k, amount) == Fund(t, <<"recharge", k>>, u, amount)

\* Granted when the address is verified, at registration in demo mode.
GrantSignupBonus(t, u) == Fund(t, <<"bonus", u>>, u, BonusAmount)

FundCommit(t) ==
    /\ Ready(t, "fund")
    /\ Post(tx[t].posts)
    /\ Done(t)
    /\ UNCHANGED <<mirror, upstream>>

\* 23505: the transaction has rolled back, its locks are gone.
FundReplay(t) ==
    /\ Ready(t, "fund") /\ ~FreshKeys(tx[t].posts)
    /\ Proceed(t, [tx[t] EXCEPT !.op = "replay", !.held = {}])
    /\ UNCHANGED <<balance, transfers, mirror, upstream>>

\* The first transfer of the key is read back; scalar_one needs it to be there.
FundReply(t) ==
    /\ tx[t].op = "replay"
    /\ Used(tx[t].posts[1].key)
    /\ Done(t)
    /\ UNCHANGED <<balance, transfers, mirror, upstream>>

\* house_promo is exhausted: the CHECK rolls back.
FundFail(t) ==
    /\ Ready(t, "fund") /\ FreshKeys(tx[t].posts) /\ ~Covered(tx[t].posts)
    /\ Done(t)
    /\ UNCHANGED <<balance, transfers, mirror, upstream>>

-----------------------------------------------------------------------------
(* The transaction of BetService.place_bet.  The transfer has no key; n is *)
(* the bet it is inserted with.                                            *)

StakeBegin(t, u, stake, n) ==
    /\ ~Used(<<"bet", n>>)
    /\ \A v \in Tx : tx[v].op = "stake" => tx[v].posts[1].key # <<"bet", n>>
    /\ Begin(t, [op |-> "stake", held |-> {},
                 posts |-> <<Row(<<"bet", n>>, WalletOf[u], Pool, stake)>>])
    /\ UNCHANGED <<balance, transfers, mirror, upstream>>

StakeCommit(t) ==
    /\ Ready(t, "stake")
    /\ Post(tx[t].posts)
    /\ Done(t)
    /\ UNCHANGED <<mirror, upstream>>

StakeRefuse(t) ==
    /\ Ready(t, "stake") /\ ~Covered(tx[t].posts)       \* InsufficientBalance
    /\ Done(t)
    /\ UNCHANGED <<balance, transfers, mirror, upstream>>

-----------------------------------------------------------------------------
(* LiveBetsBridge.record_placed *)

\* The bet is read from live-bets before the transaction.
PlacedVerify(t, u, b) ==
    /\ upstream[b].status = "PENDING"
    /\ Begin(t, [op |-> "place", held |-> {}, bet |-> b, user |-> u,
                 stake |-> upstream[b].stake])
    /\ UNCHANGED <<balance, transfers, mirror, upstream>>

Claims(t, b) == tx[t].op \in {"claim", "covered"} /\ tx[t].bet = b

\* INSERT .. ON CONFLICT DO NOTHING: waits for an uncommitted insert of the bet,
\* and does nothing if the row is there.
PlacedClaim(t) ==
    /\ tx[t].op = "place"
    /\ \A v \in Tx \ {t} : ~Claims(v, tx[t].bet)
    /\ IF mirror[tx[t].bet] = NoMirror
       THEN Proceed(t, [tx[t] EXCEPT !.op = "claim"])
       ELSE Done(t)
    /\ UNCHANGED <<balance, transfers, mirror, upstream>>

\* The balance is read under the lock of the wallet.
PlacedCheck(t) ==
    /\ tx[t].op = "claim" /\ tx[t].held # {}
    /\ IF balance[WalletOf[tx[t].user]] >= tx[t].stake
       THEN Proceed(t, [tx[t] EXCEPT !.op = "covered"])
       ELSE Done(t)                                    \* InsufficientBalance
    /\ UNCHANGED <<balance, transfers, mirror, upstream>>

PlacedCommit(t) ==
    /\ tx[t].op = "covered" /\ Escrow \in tx[t].held
    /\ Post(<<Row(<<"placed", tx[t].bet>>, WalletOf[tx[t].user], Escrow, tx[t].stake)>>)
    /\ mirror' = [mirror EXCEPT ![tx[t].bet] =
                    [user |-> tx[t].user, stake |-> tx[t].stake, status |-> "PENDING"]]
    /\ Done(t)
    /\ UNCHANGED upstream

-----------------------------------------------------------------------------
(* LiveBetsBridge.record_settled *)

SettledVerify(t, u, b) ==
    /\ upstream[b].status \in Terminal
    /\ Begin(t, [op |-> "verified", held |-> {}, bet |-> b, user |-> u, view |-> upstream[b]])
    /\ UNCHANGED <<balance, transfers, mirror, upstream>>

\* POST /api/admin/livebets/bets/{id}/reconcile: the mirror row is read in a
\* transaction of its own, then settled for its owner.
reconcile_bet(t, u, b) ==
    /\ mirror[b].status = "PENDING" /\ mirror[b].user = u
    /\ SettledVerify(t, u, b)

\* Mutation: whoever calls is paid.
SettleableByAnyone(row, view, u) ==
    /\ row.status = "PENDING" /\ row.stake = view.stake
    /\ view.status = "WON" => view.payout # None /\ view.payout >= row.stake

Settleable(row, view, u) ==
    /\ row.status = "PENDING" /\ row.user = u /\ row.stake = view.stake
    /\ view.status = "WON" => view.payout # None /\ view.payout >= row.stake

\* Mutation: winnings come out of the escrow of the other bets.
PostsFromEscrow(b, stake, view, u) ==
    CASE view.status = "LOST" -> <<Row(<<"settled", b>>, Escrow, HouseRevenue, stake)>>
      [] view.status \in Refunded -> <<Row(<<"settled", b>>, Escrow, WalletOf[u], stake)>>
      [] view.status = "WON" -> <<Row(<<"stake", b>>, Escrow, WalletOf[u], view.payout)>>

SettlePosts(b, stake, view, u) ==
    CASE view.status = "LOST" -> <<Row(<<"settled", b>>, Escrow, HouseRevenue, stake)>>
      [] view.status \in Refunded -> <<Row(<<"settled", b>>, Escrow, WalletOf[u], stake)>>
      [] view.status = "WON" ->
           LET returned == Row(<<"stake", b>>, Escrow, WalletOf[u], stake)
               winnings == Row(<<"winnings", b>>, HousePromo, WalletOf[u], view.payout - stake)
           IN  IF view.payout > stake THEN <<returned, winnings>> ELSE <<returned>>

\* The mirror row is read without a lock.
SettledRead(t) ==
    /\ tx[t].op = "verified"
    /\ LET row == mirror[tx[t].bet] IN
         IF Settleable(row, tx[t].view, tx[t].user)
         THEN Proceed(t, [op |-> "settle", held |-> {}, bet |-> tx[t].bet, view |-> tx[t].view,
                          posts |-> SettlePosts(tx[t].bet, row.stake, tx[t].view, tx[t].user)])
         ELSE Done(t)                                  \* an error, or a replay
    /\ UNCHANGED <<balance, transfers, mirror, upstream>>

\* Mutation: the mirror row keeps its status.
SettledUnmarked(t) ==
    /\ Ready(t, "settle")
    /\ Post(tx[t].posts)
    /\ Done(t)
    /\ UNCHANGED <<mirror, upstream>>

SettledCommit(t) ==
    /\ Ready(t, "settle")
    /\ Post(tx[t].posts)
    /\ mirror' = [mirror EXCEPT ![tx[t].bet].status = tx[t].view.status]
    /\ Done(t)
    /\ UNCHANGED upstream

\* 23505: another call has settled the bet.  Or house_promo is exhausted.
SettledFail(t) ==
    /\ Ready(t, "settle")
    /\ ~(FreshKeys(tx[t].posts) /\ Covered(tx[t].posts))
    /\ Done(t)
    /\ UNCHANGED <<balance, transfers, mirror, upstream>>

\* live-bets settles a bet once, possibly with another stake than it took.
UpstreamSettles(b, view) ==
    /\ upstream[b].status = "PENDING" /\ view.status \in Terminal
    /\ view.status # "WON" => view.payout = None
    /\ upstream' = [upstream EXCEPT ![b] = view]
    /\ UNCHANGED <<balance, transfers, mirror, tx>>

-----------------------------------------------------------------------------
(* wallet/reconcile.py *)

ledger_sum(a) == MapThenSumSet(LAMBDA row : Move(row.leg, a), transfers)

_RECONCILE_EXCLUDED_ACCOUNT_IDS == {HousePromo}

\* The accounts reported as drifting, in one statement and so from one snapshot.
_reconcile_with_session ==
    {a \in Account \ _RECONCILE_EXCLUDED_ACCOUNT_IDS : balance[a] # ledger_sum(a)}

-----------------------------------------------------------------------------
LockCircle(circle) ==
    \A u \in circle : \E v \in circle \ {u} : Wanted(u) \cap tx[v].held # {}

DeadlockAbort(t) ==
    /\ \E circle \in SUBSET Tx : t \in circle /\ LockCircle(circle)
    /\ Done(t)
    /\ UNCHANGED <<balance, transfers, mirror, upstream>>

\* The process or its connection dies: the transaction rolls back.
Crash(t) ==
    /\ tx[t] # Idle
    /\ Done(t)
    /\ UNCHANGED <<balance, transfers, mirror, upstream>>

Init ==
    /\ balance   = [a \in Account |-> IF a = HousePromo THEN PromoOpening ELSE 0]
    /\ transfers = {}
    /\ mirror    = [b \in LiveBets |-> NoMirror]
    /\ upstream  \in [LiveBets -> {[status |-> "PENDING", stake |-> s, payout |-> None] :
                                     s \in Stakes}]
    /\ tx        = [t \in Tx |-> Idle]

Step(t) ==
    \/ Lock(t)
    \/ FundCommit(t) \/ FundReplay(t) \/ FundReply(t) \/ FundFail(t)
    \/ StakeCommit(t) \/ StakeRefuse(t)
    \/ PlacedClaim(t) \/ PlacedCheck(t) \/ PlacedCommit(t)
    \/ SettledRead(t) \/ SettledCommit(t) \/ SettledFail(t)
    \/ DeadlockAbort(t)

Arrive(t) ==
    \/ \E u \in Users, k \in ClientKeys, amount \in Amounts : Recharge(t, u, k, amount)
    \/ \E u \in Users : GrantSignupBonus(t, u)
    \/ \E u \in Users, s \in Stakes, n \in 1..MaxStakes : StakeBegin(t, u, s, n)
    \/ \E u \in Users, b \in LiveBets : \/ PlacedVerify(t, u, b)
                                     \/ SettledVerify(t, u, b) \/ reconcile_bet(t, u, b)

Next ==
    \/ \E b \in LiveBets, view \in BetView : UpstreamSettles(b, view)
    \/ \E t \in Tx : Arrive(t) \/ Step(t) \/ Crash(t)

Spec == Init /\ [][Next]_vars

-----------------------------------------------------------------------------
(* What the code promises *)

\* The rows have the columns' types, no balance is negative, and each request
\* has the locals of its handler.
TypeOK ==
    /\ balance   \in [Account -> Nat]
    /\ transfers \subseteq Transfer
    /\ mirror    \in [LiveBets -> Mirrored \cup {NoMirror}]
    /\ upstream  \in [LiveBets -> BetView]
    /\ tx        \in [Tx -> Request]

\* A retried call moves its money once (wallet/service.py): one transfer for a
\* key, and the nightly reconciliation, whenever it runs, finds no account that
\* has more or less than its entries say, nor house_promo beyond its opening.
KeysPayOnce ==
    /\ \A x, y \in transfers : x.key = y.key => x = y
    /\ _reconcile_with_session = {}
    /\ balance[HousePromo] = PromoOpening + ledger_sum(HousePromo)

\* "Escrow nets to zero" (livebets/service.py): it holds the stakes of the
\* mirrored bets that are pending, and nothing when all are settled.
EscrowBacksMirror ==
    balance[Escrow] = SumTo([b \in LiveBets |-> IF mirror[b].status = "PENDING"
                                                THEN mirror[b].stake ELSE 0], NumLiveBets)

\* The transfers of a live bet tell the status of its mirror row, which is the
\* one live-bets reports: repeated and concurrent calls settle it in one way.
TransfersTellMirror ==
    \A b \in LiveBets :
        /\ Used(<<"placed", b>>)  <=> mirror[b] # NoMirror
        /\ Used(<<"stake", b>>)   <=> mirror[b].status = "WON"
        /\ Used(<<"settled", b>>) <=> mirror[b].status \in {"LOST"} \cup Refunded
        /\ Used(<<"winnings", b>>) => mirror[b].status = "WON"
        /\ mirror[b].status \in Terminal => mirror[b].status = upstream[b].status

\* A placement that has claimed the bet and seen the money in the wallet can
\* post: nobody mirrors the bet or debits the wallet while it waits for the
\* escrow account.  record_placed handles no failure from there on.
PlacementWillPost ==
    \A t \in Tx : tx[t].op = "covered" =>
        /\ balance[WalletOf[tx[t].user]] >= tx[t].stake
        /\ mirror[tx[t].bet] = NoMirror /\ ~Used(<<"placed", tx[t].bet>>)

\* The recharges, bonuses and stakes on the market that have moved money.
Moved == {row.key : row \in {x \in transfers : x.key[1] \in {"recharge", "bonus", "bet"}}}

\* Whatever their interleaving, retries and failures, requests move money as if
\* each were one atomic step, made at most once (WalletService, LiveBetsBridge):
\* no bet is mirrored at another stake or paid on another result than live-bets
\* reports, and none to another wallet.
Promised == INSTANCE Cashier WITH done <- Moved, reported <- upstream
ActsAtomically == Promised!Spec

\* Locking in UUID order, transfers never wait for one another in a circle
\* (wallet/service.py): every circle has a live-bets placement in it.
CirclesNeedAPlacement ==
    \A circle \in (SUBSET Tx) \ {{}} :
        LockCircle(circle) => \E t \in circle : tx[t].op = "covered"
=============================================================================
