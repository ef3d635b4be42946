# XPredict in TLA+

XPredict is a play-money prediction market: a FastAPI backend over one Postgres
database, Celery workers, Redis, and a Next.js frontend.  Players stake play
dollars on the outcomes of markets, may cash a position out before the market is
resolved, and are paid when an admin (or the Polymarket sync) resolves it.  All
money moves through an append-only double-entry ledger.

This directory holds TLA+ modules translated from the code in `src/`, the TLC
configurations that check them, and TLAPS proofs.  `PROJECT.json` maps each
definition to the lines it models.  Paths below are relative to
`src/backend/app/`, those that begin with `bin/`, `alembic/` to `src/backend/`.

## The system

| Part | State | Operations | Correct when |
|---|---|---|---|
| **Bets** `bets/` | `bets` rows (status PENDING, CLOSED, SETTLED_WON, SETTLED_LOST; locked stake and price) | `place_bet`, `sell_position`, `get_portfolio` | a bet is paid once, by one of cash-out or settlement, on the price locked in |
| **Settlement** `settlement/service.py`, `plan.py`, `payout.py`, `adapters.py` | status and winner on the `markets` row, bet statuses, transfers | `resolve_market`, `reverse_settlement`, `/force-settle` | all or nothing; a repeated or concurrent call pays nothing twice; a reversal restores every balance to the unit |
| **Event settlement** `settlement/event_service.py`, `event_router.py` | groups of markets; nothing of their own about the outcome | create, update, resolve, void, reverse | a child that fails takes nothing back from its siblings and is reported; a re-run finishes |
| **Markets** `markets/` | `markets`, `outcomes`, `odds_snapshots` | `create_market`, `update_market`, `close_market` | a market that left OPEN never takes bets again |
| **Wallet ledger** `wallet/` | `accounts` (balance cached, CHECK >= 0), `transfers` (UNIQUE key), `entries` | `_post_transfer`, `recharge`, `transfer`, `grant_signup_bonus`, `create_wallet` | balances are the sums of the entries; a retried call moves money once; no lock cycle |
| **Reconciliation** `wallet/reconcile.py` | reads only | nightly comparison of balances and entries | no false alarm on a consistent ledger |
| **LiveBets bridge** `integrations/livebets/` | mirror of bets at a partner, one status each | `record_placed`, `record_settled`, `reconcile_bet` | repeated and reordered calls move money once |
| **Polymarket sync** `integrations/polymarket/` | mirrored markets, Redis locks | poll and upsert, snapshot, detect and settle resolutions | bets are paid on what the oracle confirmed, after the grace period, and a late poll does not undo it |
| **Accounts** `auth/`, `admin/service.py`, `bin/create_admin.py` | `users`, `refresh_tokens` | registration, verification and bonus, logins, logout, resets, bans | no session survives a reset; the bonus is given once; the audit log says who is banned |
| **Real-time odds** `realtime/`, frontend hook `use-market-socket.ts` | registry of sockets per process, a Redis channel per market | connect, disconnect, publish, broadcast, reconnect | only committed odds are shown; ceilings hold; one bad socket does not starve the others |
| **Migrations** `alembic/` | the schema and `alembic_version` | upgrade, downgrade | schema and version agree; nothing owed is dropped |
| **Demo seed** `bin/seed_demo.py` | rows of all tables | seed, reset | a killed run can be finished or reset, nothing is there twice |
| Connection pool, audit viewer, CRM lists, KPIs and exports, catalog, branding, slots, rate limits, wiring, frontend pages | rows of their own or none | inserts, queries, proxies | — |

How they interact: a request handler runs on one `AsyncSession`.  `place_bet` and
`sell_position` read the market through `HouseMarketReadAdapter`, **on another
session**, so the snapshot belongs to no transaction of theirs.  Settlement and
cash-out meet on the `bets` rows (`SELECT .. FOR UPDATE`), all money meets on the
`accounts` rows (locked in the order of their UUIDs), and the admin endpoints and
the resolver meet on the `markets` row, which nothing locks.  The event service and the
detection of resolutions call `resolve_market` for each market, each on a fresh session;
the poll overwrites the same `markets` rows.  Odds edits are published on Redis after
their commit.  The gates of `Accounts` stand before the money routes and are not
repeated in their transactions.

What is hard here: two sessions at READ COMMITTED that read before the other
commits; a `FOR UPDATE` that waits, row by row, and re-checks its WHERE on what it
finds; idempotency keys that a second round meets again; CHECK constraints that
fail after half of a transaction; rounding that must come out the same at
settlement, reversal, cash-out and in the portfolio; loops of transactions that stop
half-way; locks that expire; and a process that dies with locks held.  `PROJECT.json`
lists these hazards at their lines, with the property that covers each one or the
reason why none does.

## The modules

| Module | Models | Used by |
|---|---|---|
| `Sums` | finite sums as a recursive function | `Positions`, `WalletTransactions` |
| `Ledger` | the accounts and one transfer between two of them | `Positions`, `WalletTransactions` |
| `Payout` | `settlement/payout.py`: rounding, payout, P&L, cash-out value | `Positions`, `OpenPosition` |
| `Positions` | the `bets` rows and the money a bet row stands for (`bets/portfolio.py`) | `Bookmaker`, `Betting` |
| `Bookmaker` | abstract specification: every operation on bets is one atomic step | refined by `Betting` |
| `Betting` | bets, cash-outs, settlements, reversals, market edits and recharges as concurrent requests | `MCBetting` |
| `OpenPosition` | the marks of one position while its market is requoted or replaced | run `position_marks`, `BettingProofs` |
| `Cashier` | abstract specification: every movement of money is one step, made at most once | refined by `WalletTransactions` |
| `WalletTransactions` | recharges, bonuses, stakes and live-bets calls, row lock by row lock; reconciliation | `MCWallet` |
| `EventSettlement` | an event settled child by child, beside bets, edits, closes and reversals | `MCEventSettlement` |
| `AutoResolution` | abstract specification: when and on what a mirrored market pays | refined by `PolymarketSync` |
| `PolymarketSync` | poll, detection, Redis locks, oracle, force-settle | `MCPolymarket` |
| `Accounts` | registration, verification, bonus, sessions, resets, bans, gates | `MCAccounts` |
| `Migrations` | the revisions and Alembic's commands | `DemoSeed` |
| `DemoSeed` | the seed program over a migrated database | `MCDemoSeed` |
| `OddsStream` | odds edits, Redis, the workers' registries, sockets and pages | `MCOddsStream` |
| `MC...` | values of the constants for TLC | the runs |
| `ArithmeticProofs` | lemmas on sums over indices and over finite sets, on division and rounding | the proofs below |
| `BettingProofs` | theorems of `Payout`, `OpenPosition` and `Betting`; that `Betting` implements `Bookmaker` | TLAPS |
| `WalletProofs` | theorems of `WalletTransactions`; that it implements `Cashier` | TLAPS |
| `EventSettlementProofs`, `AccountsProofs`, `OddsStreamProofs` | theorems of the module they are named after | TLAPS |
| `DemoSeedProofs` | theorems of `Migrations` and `DemoSeed` | TLAPS |
| `PolymarketProofs` | theorems of `PolymarketSync`; that it implements `AutoResolution` | TLAPS |

### Payout

An amount is a whole number of ledger units (`NUMERIC(18,4)`), a price a whole
number of odds units (`NUMERIC(8,6)`), of which `PriceScale` make 1.0.
`quantize_money(num, den)` is ROUND_HALF_UP of a non-negative quotient.  The code
computes `stake / price` (and `stake / entry * quote`) in 28-digit Decimal before it
rounds, and the model takes the exact quotient; the two round alike unless the
exact quotient lies within the 28-digit error of a tie.

### Betting

The variables are the rows other requests can see, and the requests:

| Variable | Code |
|---|---|
| `market` | `markets` row (`status`, `deadline`, `winning_outcome_id`) with the YES quote of its two `outcomes` rows; NO is the complement, which `update_market` maintains |
| `bet` | `bets` rows in the order of insertion; `NoBet` is a row not yet inserted |
| `balance` | `accounts.balance`, accounts numbered in the order of their UUIDs |
| `keys` | the `transfers.idempotency_key` values in use, as `<<pass, bet, leg>>` |
| `funded` | history variable: opening balances and recharges per account |
| `clock` | `datetime.now(UTC)`, in steps between deadlines |
| `tx` | one slot per request in flight: its operation, the handler's locals, and the `bets` rows it holds locked |

A handler is cut where another request can come between its statements:

* **place_bet** — `PlaceRead` reads and checks the market on the other session;
  `PlaceCommit` / `PlaceInsufficient` is the transaction (lock the wallet, check the
  balance, insert the bet at the price *read before*, post the stake).
* **sell_position** — `SellLoad` (unlocked read, and `now`), `SellLock` (`FOR UPDATE`,
  re-read, refused unless PENDING), `SellRead` (market on the other session, under
  the row lock; may refuse), `SellCommit` or `SellFail`.
* **resolve_market** — `ResolveSelect` takes the snapshot of PENDING rows;
  `ResolveLock` locks them one by one; `Picked` are the rows that are still PENDING
  once locked, as Postgres re-evaluates the WHERE; `ResolveRead` builds the plan
  (raises on a winning bet with price 0) and loads the market row; `ResolveCommit`
  posts all legs, sets the statuses and writes the market columns that the session
  changed; `ResolveFail` is a duplicate key or an exhausted `house_promo`.
* **reverse_settlement** — `ReverseLoad` reads the settled rows *without* a lock;
  `ReverseLock` is the flush of the status updates, row by row in primary-key order;
  then as above.  Its legs are computed from the statuses that were read, and the
  UPDATE has no status in its WHERE: only the UNIQUE `reverse:` and `settle:` keys
  stand between a stale reversal and the ledger.
* **close_market, update_market** — `AdminLoad` loads the row and checks OPEN;
  `CloseCommit` / `UpdateCommit` write the changed columns.
* **recharge** — `Recharge`, one step.
* `DeadlockAbort` is Postgres' deadlock detector, `Crash` a lost connection or
  process: both roll back.  `Tick` moves the clock.

A resolution scans the bets in insertion order, a reversal updates them in the
order of `KeyRank`, which is arbitrary (random UUIDs).

What is abstracted, and why nothing is lost for the properties:

* The account rows are only touched under `FOR UPDATE` locks taken in one order and
  held to the commit, so the commit step stands for lock, check, post, commit.
  `WalletTransactions` does without this abstraction.
* One pass only debits or only credits any one account, so the CHECK on the last
  balance stands for the CHECK after each leg.
* The adapter's two SELECTs (market, outcomes) are one read.
* A reversal with no settled bet writes only an audit row, and is left out; so are
  audit rows in general (they are inserted in the same transaction).
* Stake limits are the set `Stakes`; `/force-settle` is `resolve_market`.
* The gates of `bets/router.py` are in `Accounts`; the recharge's own idempotency key,
  the signup bonus and the live-bets transfers are in `WalletTransactions`.  The routes
  themselves are `PlayerPlaces`, `PlayerSells`, `AdminSettles` and `AdminEdits`.
* `MarketStatus` also lists DRAFT and CANCELLED, which no operation modelled here
  writes.

### Bookmaker

No requests, no locks, no keys: `Place`, `CashOut`, `Settle`, `Reverse` and `Fund`
act on the rows of the moment, and `MoneyFollows` says that balances change by
what the changed rows account for.  `ActsAtomically` (that `Betting` implements it
with the identity mapping on `bet` and `balance`) is what the locks, the re-check
and the keys are for: whatever the interleaving, no bet is moved on stale data.

### OpenPosition

One position, whose market gets any quote at any time (`Requote`), or disappears when an
admin replaces the outcomes of an event that had no bets when the router looked
(`MarketReplaced`; `EventSettlement` shows how).  The portfolio then shows it at its
stake.  Nothing happens after that, hence `CHECK_DEADLOCK FALSE`.  Its specification is
called `PositionSpec`, and its variables are `held_stake`, `held_price` and `shown_quote`, so that
`BettingProofs` can extend it beside `Betting`.

### WalletTransactions

`Betting` takes the ledger's locks for granted and cuts handlers between the rows
of bets and markets.  `WalletTransactions` cuts them between the **account** rows: a
request of `tx` takes the row locks of accounts one at a time (`Lock`), keeps them to
its commit, and posts there.  The two modules share `Ledger`.

| Variable | Code |
|---|---|
| `balance`, `transfers` | `accounts` and `transfers` rows, a transfer with its two `entries` |
| `mirror` | `livebets_bets` rows (player, stake, status); `NoMirror` where none is committed |
| `upstream` | what `GET /v2/bets/{id}` of live-bets answers: status, stake, payout |
| `tx` | requests in flight: operation, locals, accounts locked |

* **recharge, grant_signup_bonus** — `Recharge` / `GrantSignupBonus` begin, the locks
  follow in UUID order, then `FundCommit`, or `FundReplay` (23505: roll back, release)
  and `FundReply` (read the winner's transfer; `scalar_one` needs it), or `FundFail`.
* **the transaction of place_bet** — `StakeBegin`, `StakeCommit`, `StakeRefuse`.  Its
  transfer has no key; it is named by the bet it is inserted with.  The market part
  is `Betting`'s.
* **record_placed** — `PlacedVerify` (outside the transaction), `PlacedClaim` (the
  `ON CONFLICT DO NOTHING` insert, which *waits* for another uncommitted insert of
  the bet), the lock of the wallet, `PlacedCheck`, then the lock of the escrow
  account **that the UPDATE in `_post_transfer` takes**, `PlacedCommit`.
* **record_settled** — `SettledVerify`, `SettledRead` (unlocked read of the mirror row,
  ownership, status, stake, payout; the legs are fixed here), locks in UUID order,
  `SettledCommit` or `SettledFail`.
* **reconcile_bet** — the admin's call of `record_settled` in the name of the player of a
  mirror row that is still PENDING.
* **_reconcile_with_session** — the accounts whose balance is not the sum of their entries
  (`ledger_sum`), `house_promo` excepted, whose opening has no entry.  It is an operator on
  the state and not an action, since it only reads in one transaction; `KeysPayOnce` says
  that it finds nothing whenever it runs.
* `UpstreamSettles` is live-bets.  `DeadlockAbort` and `Crash` roll back.

A transaction is one action at its commit because what it inserts and updates is
seen by nobody before; the inserts that others would wait for are the claim (modelled)
and the idempotency keys (two transfers with one key share an account, so their
requests are already serialised by its lock).  The `FOR KEY SHARE` locks of the
foreign keys of `entries` fall on accounts the same statements lock anyway.

The keys an admin chooses for recharges are taken to differ from the derived ones
(`bonus:`, `livebets:`, `settle:` and so on).

What is assumed of live-bets: a bet's stake may differ between placement and
settlement (`record_settled` refuses it), and a terminal status is final.  The code
relies on the latter: each of WON, and LOST/REFUNDED/VOIDED, has keys of its own, so
the keys alone would not stop a bet that is first reported WON and later VOIDED while
two calls are in flight.  Every player has a wallet from the start (`create_wallet` is in `Accounts`), and
`WalletService.transfer` has no caller.

`Cashier` is what all this comes to: `Recharge`, `GrantBonus`, `Stake`, `Place` and `Settle` move
their money in one step, a key at most once; `Settle` pays on the result that live-bets
reports, at the stake that was placed, to the wallet that staked or to the house; no account
goes below zero.  It has no requests, no locks and no transfers.  `ActsAtomically` says that
`WalletTransactions` implements it, with `upstream` for `reported` and the keys of recharges, bonuses
and stakes (`Moved`) for `done`.  There the status of the mirror alone keeps `Place` and `Settle`
from being repeated; here it takes the claim, the locks and the keys.  A live bet thus never
pays another wallet than the one that staked it, whoever calls.

### EventSettlement

An event's outcome is stored nowhere: `derive_event_status` reads it off the children.

| Variable | Code |
|---|---|
| `group` | the ids of the children, `markets.group_id` = the event |
| `market`, `bet`, `keys` | the `markets` rows, the status of the bets on each child, the idempotency keys in use |
| `run` | the requests in flight: children still to visit, the child whose transaction is open and what it read, the children noted as failed |

`resolve_event`, `void_event` and `reverse_event` are the read pass that fixes the list of
children (the winner first, then by id).  `SettleBegin` .. `SettleCommit` or `ChildFail` is
`resolve_market` on one child in its own transaction, `ReverseBegin` .. `ReverseCommit`,
`ReverseNothing` or `ChildFail` is `reverse_settlement`.  A child may raise at any time and
for any reason; the loop notes it and goes on.  `Report` is the audit row, the derived
status and the response.  `update_house_event` is cut between the router's check for bets
and the edit, `place_bet` between its market read and its commit.  `Crash` ends a request
anywhere.

`close_market` closes any market, the children of an event included: `CloseLoad` loads the row
and refuses it unless OPEN, `CloseCommit` writes CLOSED whatever the row has become (and
raises when it is gone).  `mark_resolved` and `mark_unresolved` load the market row late, once
the bets are locked or updated and the transfers posted, so `MarketLoad` is a step of its own
between `SettleBegin` / `ReverseBegin` and the commit; what the commit writes is the columns in
which the row differs from what was loaded (`stamped`, `reopened`).

One bet, on YES, stands for the bets of a child: `Betting` has what a child's
transaction does to many bets.  Settling on the losing and on the winning side, the keys of
the first round and the row lock on the bet are kept, since a re-run after a reversal
depends on them.  Metadata and odds are left out, and deleted rows are those whose status is
ABSENT.  Cash-outs are `Betting`'s, and so are the routes that settle or reverse one market:
what they do to a child is what a loop does that dies after it or fails on all others.
`moved` is history: which children were reversed, replaced, or closed when they were RESOLVED
already, while a run was on.  The last is why `ReportTellsTheTruth` cannot promise more: a
close that had loaded the child OPEN may take it back to CLOSED after the loop has stamped and
counted it; without the exception TLC finds that run.  `RerunFinishes` says that a re-run repairs it.

`RerunFinishes` is stated for the calm after the storm: from some time on the event is
only resolved and voided, on whatever winner, and nobody bets, edits, closes or reverses.  Then,
if runs that report no failure keep coming back, the event ends with every child RESOLVED and no
bet pending.

### PolymarketSync and AutoResolution

`AutoResolution` is what the mirror promises about money: a market pays by itself only on
the outcome the oracle confirmed, after one grace period that began after the oracle
resolved; an admin may pay on anything and take it back.  `AutoSpec` says that
`PolymarketSync` implements it.

| Variable | Code |
|---|---|
| `gamma` | what Gamma answers for a market: closed, UMA status, prices |
| `row` | status and winner of the `markets` row; `grace` is `uma_resolved_at` unset, less, or more than the grace period ago |
| `due` | the markets whose deadline has passed |
| `bet`, `keys` | one bet on YES per market; settle and reverse keys in use |
| `lock` | the two Redis keys: whose token they hold |
| `run`, `late` | the task runs in progress; those whose lock expired under them (history) |

* **poll** — `PollStart` (SET NX EX), per category `PollFetch` (any part of the category:
  Gamma's top lists, the dedup over the cycle, the volume floor) and `PollCommit` (upsert; a
  child that conflicts is left out) or `PollFail`, then `PollEnd` (compare-and-delete).  The
  status that is written is the one of the fetch.
* **detect** — `DetectStart` loads the candidates once with the `uma_resolved_at` of that
  moment; per candidate `DetectFetch`, then `DetectSkip`, `DetectStamp` or `DetectSettle`;
  a fetch or stamp that raises ends the run (`DetectEnd`), a settlement that raises does not.
* `LockExpires`, `Crash` (the lock stays with the dead run's token), `ForceSettle`,
  `reverse_settlement`, `close_market`, `place_bet`, and the outside: `Upstream`, `DeadlinePasses`,
  `GraceElapses`.

The settlement of a market is one step here, as are a placement and a close; `Betting` has
their interleavings, and `EventSettlement` the close that comes too late.  Such a close of a
mirrored market would make it a candidate of the detection again, no more.  Edits of a
mirrored market's deadline or odds are left out.  `_derive_status` takes a closed and resolved market
for RESOLVED when any of its prices is 0 or 1, so that `["0","0"]` is RESOLVED without a winner
that `_map_winning_outcome_id` could name; that answer of Gamma is left out.  Once the oracle has resolved with a clear price it does not change its mind,
which is UMA's finality.  The top-25 poll upserts through the same code as the curated
one and is left out; `snapshot_odds` only appends.

### Accounts

One e-mail address, from before its registration.

| Variable | Code |
|---|---|
| `user` | the `users` row: superuser, verified, banned, password, `token_version` |
| `balance`, `bonuses` | its wallet, None before there is one; the number of bonus transfers |
| `token` | `refresh_tokens` rows; `auth` is the password that the login presented (history) |
| `mail` | the verification and reset links sent out that are still good |
| `trail` | what the last ban event of the audit log says |
| `req` | requests in flight; `saw` is the row as the login read it |
| `reset` | the newest password whose reset has completed (history) |

Each handler is cut at its commits: registration (`RegisterCheck`, `RegisterCommit` or
`RegisterTaken`, `Welcome` for the hook and for the one-click demo login), verification
(`VerifyCheck`, `VerifyCommit`, `Bonus`), login (`Authenticate`, `Issue`, `LoginSuspended`,
`admin_login_failed`), reset (`ResetCheck`, `ResetWrite`, `ResetRefresh`, `ResetRevoke`), ban
and unban (`BanCheck`, `BanCommit`), and the gates before the transactions that they let
in (`BetGate`, `LiveGate`, `RechargeGate`).  A login verifies the password on a row it read
before and issues the token with the `token_version` of that row, which is what
`NoSessionSurvivesReset` is about.

Abstractions: amounts are 1; passwords are numbered as they are set; the player's cookie and
the admin's bearer token are one kind of token; a new e-mail is one the user never had
before, so the links sent to older ones are dead; a password is changed and forgotten at
most `MaxPassword` times; fastapi-users' own routes are modelled from how the code uses
them.  `DEMO_MODE` is chosen in Init.

### Migrations and DemoSeed

The schema is a set of pairs of a table and a part of it.  `upgrade[r]` and `downgrade[r]`
are what revision `r` creates and drops; `down_revision` has the two branches and their
merge.  A command applies its revisions one after the other in one transaction
(`alembic/env.py`), and a statement is `Executable` when Postgres would accept it.  They are
taken in any order that respects `down_revision` (`Ready`); which of two parallel branches goes
first is left to Alembic.
The downgrades of 0011_livebets and 0012 look at the data first (`AlembicCheck`) and are cut
there; players go on betting on tables the transaction has not touched yet (`Free`).

`DemoSeed` runs the seed program transaction by transaction over `Plan`; `rows` counts how
often each step's rows are there.  What makes a step harmless to repeat is what the code
uses: the e-mail of a user, the keys of the credits, the UNIQUE slug of an event (which
raises), the demo admin as the marker of a seeded database.  Resolutions of the standalone
markets are one step, and so are the bets on one event.  A database with demo data is not
migrated (bound), and nobody else seeds at the same time.  The players, events and bets are
lists without repetition, as the lists in the program are (`DemoSeedAssumption`).

### OddsStream

| Variable | Code |
|---|---|
| `odds`, `edits`, `committed` | the odds of a market as version numbers, and which were ever committed |
| `writers` | odds edits between flush, commit and publication |
| `published`, `inbox`, `subUp` | the Redis channels and what each worker's subscriber has not taken |
| `registry`, `total` | `_connections` and `_total` of the `ConnectionManager` of a worker |
| `fans` | the broadcast a worker is in the middle of: targets left, sockets that failed |
| `sock`, `frames`, `got` | sockets, frames sent but not read, frames read |
| `current`, `shown` | `wsRef.current` and the odds on the page |
| `due` | frames that a worker owes an open socket (history) |

`connect`, `disconnect` and the snapshot of a broadcast are single steps, because the
manager's lock makes them so; each `send_json` is a step of its own, waits while the
socket's buffer is full, and raises on a closed one.  A hung socket is one whose browser is
gone without a word, until a keep-alive fails.  A worker may restart and its Redis connection
may drop, losing what was on the way.

The page loads the committed odds, connects, and reconnects after a close; the back-off,
the ping and the stale indicator are left out, since no property is about times.  Odds
published while a page has no socket are not sent again: neither the code nor a property
here promises that a page shows the *latest* odds.

## The runs

| Run | Checks | Bounds |
|---|---|---|
| `betting_races` | `TypeOK`, `Books`, `LedgerTellsStatus`, `EscrowBacksPending`, `SettledMarketNotOpen`, `ActsAtomically`, `NeverReopens` | 1 user, 1 market, 2 bets, 2 requests; YES quoted at 0, 3/4 and 1 (NO at 1, 1/4 and 0): a position moves to nothing and back, wins and sales are rounded, some on a tie, a win at 1 has no winnings and one at 0 cannot be paid; `house_promo` starts at 10, pays one large gain and runs out at the next |
| `requests_end` | `EveryRequestEnds` (with fairness) | 2 bets, 2 requests: the smallest lock cycle |
| `position_marks` | `MarksAreNearest`, `SaleAgreesWithSettlement` | scale 12, all quotes, 8 stakes: exact quotients, ties and remainders on both sides |
| `ledger_races` | `TypeOK`, `KeysPayOnce`, `EscrowBacksMirror`, `TransfersTellMirror`, `PlacementWillPost`, `CirclesNeedAPlacement`, `ActsAtomically` | 2 players, 2 live bets, 2 requests, 1 client key, 1 stake bet; a house that cannot pay bonus, recharge and winnings |
| `event_settlement` | `TypeOK`, `ReportTellsTheTruth`, `SiblingsStayIntact`, and with fairness `EveryRunEnds`, `RerunFinishes` | an event of 2 children, replaced by 2 others; 1 bet; 2 requests, one that resolves or reverses, one that voids, edits, bets or closes |
| `polymarket_mirror` | `TypeOK`, `OnTimeRunHoldsLock`, `AutoSpec`, and with fairness `MirrorFollowsOracle` | 1 market, 1 category, 2 task runs, the oracle on YES, the admin on NO |
| `accounts` | `TypeOK`, `NoSessionSurvivesReset`, `BonusOnce`, `AuditSaysWhoIsBanned` | 3 requests, 1 token, 3 passwords, a wallet of 0 or 1 |
| `odds_stream` | `TypeOK`, `ShownWasCommitted`, `RegistryCounts`, `FramesInOrder`, and with fairness `FrameReaches` | 1 worker, 1 market, 2 pages, 3 sockets, ceilings of 2, buffers of 1, 2 edits at a time, 1 failing socket, 1 Redis drop or restart |
| `demo_seed` | `SchemaIsAtRevision`, `NothingOwedIsDropped`, `NothingSeededTwice`, `SuccessIsComplete`, `NoRunRaises` | all 14 revisions; 2 users, 2 events, 2 bets; 1 live bet |
| `late_bet`, `unsettled_mirror`, `demo_reset` | one statement of the code each, **violated** | see *Disagreements* |

Why the bounds are enough to be interesting: most hazards listed involve two
requests, and one row or a pair of rows taken in opposite orders.  Slots
are reused, so runs contain any number of requests in sequence (resolve, reverse,
resolve, ...).  `KeyRank` puts the two bets in the opposite order of their
insertion.  Funding is bounded by `MaxFunding`, the clock by `MaxTime`, the rows by
`MaxBets`, the requests by `Tx`; the other modules name their bounds where they declare
them.  In `accounts` three requests are needed: a reset, the login it races with, and a
second reset.  In `event_settlement` one slot resolves or reverses, the other voids,
edits, bets or closes (`Takes`): every kind of settlement meets every other request, and
another settlement; with both slots doing all of it the space is several times as large.
In `odds_stream` two pages on one worker are what it takes for one socket to keep another
waiting; workers share nothing but Redis, and a second worker would only repeat the first.
Request slots are interchangeable (`SYMMETRY`) except where liveness
is checked.

`CHECK_DEADLOCK FALSE` is there because the bounded systems stop: with the clock at its
end, every bet closed and the market closed, nothing more can happen in `Betting`, and the
like holds of the other bounds.  `WalletTransactions` never stops: there is always a call
that can be repeated.

In `ledger_races` all stakes are 2, so `record_settled`'s refusal of another stake
never happens there; it does with `Stakes = {2, 3}`, which takes more than three times
as long and finds nothing else.  Payouts of 2 and 3 are the refunded and the winning case of
the second leg.

**Fairness.**  In `Betting`, `WF(Step(t))`: a handler is a coroutine that goes on until it
returns; nothing else drives it.  `SF` on the lock steps: Postgres queues waiters on
a row, so a lock that is released again and again is granted in the end.
`DeadlockAbort` is a step of the requests in a cycle (`deadlock_timeout`), and so
covered by `WF`.  `EventSettlement` assumes the same of its loops and of their row locks.
`PolymarketSync` assumes that Redis drops a key when its time is up, that time passes, that
a task that runs goes on, and, strongly, that the detection is started again and again
(Celery beat), that Gamma answers for each market now and then, and that a stamp or a
settlement that is tried again and again succeeds once.  The poll is assumed nothing of.
`OddsStream` assumes that the event loop of a worker runs its ready tasks, that keep-alives
find dead connections, and that a browser delivers the frames it has.  No fairness is
assumed of arrivals, crashes, faults, edits or the clock.

Each property has a mutant: a plausible bug in a mapped definition (a lock left
out, a re-check dropped, a pool not swept, keys not used, a stale row
written back, a failing child not noted, a lock released by whoever comes, a token issued at
the present version, a publication before the commit, a migration that commits each
statement) that makes the run fail.

## What is proved

`BettingProofs`, for any number of users, markets, bets and concurrent requests:

| Theorem | States |
|---|---|
| `BettingInvariant` | `Spec => []IInv` |
| `TypeCorrect` | `[]TypeOK`; in particular no balance is ever negative |
| `BooksBalance` | `[]Books`: every account = what funded it + what the bets rows stand for |
| `LedgerDecides` | `[]LedgerTellsStatus`: the keys in use determine each bet's status |
| `EscrowBacked` | `[]EscrowBacksPending`: each liability account = the stakes pending on its market |
| `MarketsStayClosed` | `NeverReopens`, an action property: a market that left OPEN never goes back |
| `SettledMarketsStayShut` | `[]SettledMarketNotOpen`: no bet is settled on a market that takes bets |
| `BettingImplementsBookmaker` | `Spec => ActsAtomically`: every step is a step of `Bookmaker` or a stutter |
| `QuantizeIsHalfUp`, `PayoutCoversStake`, `CashoutBounds` | of `Payout`, for all stakes, prices and quotes |
| `MarksAreExact` | `PositionSpec => []MarksAreNearest`: payout and mark are the exact quotients rounded to the nearest unit, for every scale, stake, entry price and quote |
| `SellingMeetsSettlement` | `PositionSpec => []SaleAgreesWithSettlement`: at a quote of 1 or 0 a sale pays what settlement would, and never more |

`WalletProofs`, for any number of players, accounts, live bets and requests:

| Theorem | States |
|---|---|
| `WalletInvariant` | `Spec => []IInv` |
| `WalletTypes` | `[]TypeOK` |
| `EscrowNetsToZero` | `[]EscrowBacksMirror`: escrow = the stakes of the pending mirrored bets |
| `LiveBetSettlesOnce` | `[]TransfersTellMirror` |
| `CheckedPlacementPosts` | `[]PlacementWillPost` |
| `OrderedLocksNeverCircle` | `[]CirclesNeedAPlacement`: deadlocks on accounts involve a live-bets placement |
| `KeysMoveMoneyOnce` | `[]KeysPayOnce`: a key is used once, and the reconciliation finds no difference |
| `WalletImplementsCashier` | `Spec => ActsAtomically`: every step is a step of `Cashier` or a stutter |

`EventSettlementProofs`, for any number of children, requests, failures and crashes:

| Theorem | States |
|---|---|
| `EventInvariant`, `EventTypes` | `[]IInv`, `[]TypeOK` |
| `ReportsTellTheTruth` | `[]ReportTellsTheTruth`: each child of a report is RESOLVED, failed, or was reversed, replaced or closed behind its back meanwhile |
| `OnlyReversalsTakeBack` | `SiblingsStayIntact`, an action property: only a reversal of a child takes back its bet |

`PolymarketProofs`, for any markets, categories and number of runs:

| Theorem | States |
|---|---|
| `PolymarketInvariant`, `PolymarketTypes` | `[]IInv`, `[]TypeOK` |
| `RunsHoldTheirLocks` | `[]OnTimeRunHoldsLock`: a run that has not outlived its lock holds it |
| `MirrorImplementsAutoResolution` | `Spec => AutoSpec` |

`AccountsProofs`, for any number of requests, tokens and passwords:

| Theorem | States |
|---|---|
| `AccountsInvariant`, `AccountsTypes` | `[]IInv`, `[]TypeOK` |
| `ResetEndsSessions` | `[]NoSessionSurvivesReset`, whatever logins race with the reset |
| `OneBonus` | `[]BonusOnce` |
| `AuditIsCurrent` | `[]AuditSaysWhoIsBanned` |

`OddsStreamProofs`, for any number of workers, markets, pages, sockets, edits and faults:

| Theorem | States |
|---|---|
| `OddsInvariant`, `OddsTypes` | `[]IInv`, `[]TypeOK`: the queues carry no version twice |
| `ShownIsCommitted` | `[]ShownWasCommitted`: no page shows odds that its market did not have |
| `RegistriesCount` | `[]RegistryCounts`: `_total` is the number of registered sockets, within the ceilings |
| `FramesKeepOrder` | `[]FramesInOrder`: a socket gets its frames in the order of publication, none twice |

`DemoSeedProofs`, for any players, events and bets and any number of commands, kills and re-runs:

| Theorem | States |
|---|---|
| `SchemaFollowsRevision` | `[]SchemaIsAtRevision`: the schema is the one of the revisions in `alembic_version` |
| `NothingOwedDropped` | `[]NothingOwedIsDropped`: no downgrade destroys a stake in escrow or the price of a sale |
| `SeedsOnce` | `[]NothingSeededTwice` |
| `SuccessSeedsAll` | `[]SuccessIsComplete`: a run that exits with 0 leaves the whole demo |
| `NeverRaises` | `[]NoRunRaises`: no run collides with what earlier runs left |

### Betting and the ledger

The inductive invariant of `Betting` is

    IInv == TypeOK /\ SoundRows /\ LocksExclusive /\ Locals /\ LedgerTellsStatus /\ Books

`Books` alone is not inductive: a commit preserves it only if the legs it posts are
the difference between the old and the new `Position` of each row
(`SettleIdentity`, `ReverseIdentity`, `CloseIdentity`).  For settlements and
cash-outs that needs the locked row to be PENDING still, which follows from
`LocksExclusive` and `Locals` (what a handler may rely on about the rows it holds).
A reversal works from statuses it read earlier.  There the keys do it:
`LedgerTellsStatus` says that a bet is SETTLED_WON exactly when
`settle:..:stake` is used and `reverse:..:stake` is not, and `Locals` remembers that
the settle key of what was read is in use; so if the reversal's keys are free the
row still has the status that was read, and if they are not the transaction rolls
back.  `SoundRows` (a paid row had a price above 0) makes the arithmetic defined.
Each action has a step lemma; `QuietStep` is shared by all that only read or lock,
`PostStep` and `CommitLocals` by the commits.

`EscrowBacked` follows from `Books` with `EscrowUnfunded` (a liability account is
never recharged) and `EscrowShare` (its share of a row is the stake if the row is
pending on that market and 0 otherwise).

`NeverReopens` needs no more than `TypeOK`: each write of the row either leaves
`status` out or writes a status that is not OPEN.  `SettledMarketNotOpen` is inductive
only with `RequestsKnowTheirMarket`: a request that will settle, reverse or close
remembers something of its market that still bars it from being OPEN.

The refinement takes each commit to the `Bookmaker` action it stands for and each other
step to a stutter.  `MoneyFollows` comes from `Books` on both sides of the step; what is
left is that the rows have the status the abstract action asks for.  For a reversal,
again, the keys say so (`ReversalSeesInForce`).

The invariant of `WalletTransactions` is

    IInv == /\ TypeOK
            /\ Locals /\ LocksInOrder /\ LocksExclusive /\ ClaimsExclusive
            /\ TransfersTellMirror /\ EscrowBacksMirror

`Locals` says what each handler may rely on between its statements: the balance it
checked (nobody else holds the wallet), the bet it claimed (`ClaimsExclusive`), the
player and stake it read in a mirror row without a lock (they never change), the final
status live-bets told it.  `CommitStep` shows once that a commit leaves the `Locals` of
all others alone.  A settlement that posts finds the row PENDING although it never
locked it: were the row settled, `TransfersTellMirror` says that the key of the same
status is used, and `FreshKeys` fails.  `EscrowShift` moves the escrow sum by one bet.
For the lock order take a circle without a placement: whoever is waited for holds an
account and wants one above it (`CircleClimbs`, from `LocksInOrder`), so the highest
account wanted in the circle is not the highest.

`KeysPayOnce` adds up the entries of an account, a sum over the *set* of transfers, while a
commit adds a *sequence* of them.  `Books` keeps the two together: the transfers are
finitely many, no two have one key, and every balance is its opening plus the sum of what
the transfers move there.  `ArithmeticProofs` shows that a sum over a finite set does not
depend on the order in which its elements are taken (`SetSumsExist`, `SetSumsUnique`: a
least counterexample in the size of the set) and what one more element adds (`SetSumsAdd`);
`PostKeepsBooks` then takes the two posts of a transaction one at a time.  The second is
new because `FreshKeys` was checked for both and a transaction never uses a key twice.

That `WalletTransactions` implements `Cashier` needs one thing more, `Sources`: what a request is about
to post is what one of the cashier's operations asks for.  A recharge posts the transfer of
its arguments; a placement carries the stake live-bets gave, which is still the reported one
as long as the bet is not settled; a settlement compared the stake with that of the mirror
row, and no commit changes the stake of a row (`MirrorStakeKept`).  Then each commit is the
cashier's step, since what it posts moves each account as the one or two legs of that step do
(`PostMoves`), and whatever else happens, a deadlock or a crash included, moves nothing.

### Rounding, marks and sales

`HalfUpIsNearest` shows that `quantize_money` meets the reference definition of rounding,
`IsNearest`, for every quotient.  The sale at price 1.0 and the win round the same fraction,
and rounding is monotonic, so no sale is worth more than the win; an unmoved quote gives
back a whole number of units.  All of it needs only `Holds`: the stake and the entry price stay as
they were placed, and the quote is one that somebody wrote, or none.

### Event settlement

    IInv == Rows /\ run \in [Requests -> Run] /\ (every run is Good) /\ OnePlacer /\ OneHolder

`ReportTellsTheTruth` is about the end of a loop and says nothing of its middle.  `GoodLoop`
does: a child that the settlement has seen is still on its list, or RESOLVED, or noted as
failed, or moved by someone else (a reversal, an edit, a close that had loaded it OPEN); and the row that the open transaction has read RESOLVED
still is, unless moved.  The bet it read PENDING is PENDING when it commits, because it is
locked (`OneHolder`).  The children are taken by id, so `Ascending` needs the ordering of a
finite set to exist and to be unique (`LastChild`, induction on its size).
`SiblingsStayIntact` follows: a commit that settles a bet found it PENDING.

### Polymarket and AutoResolution

    IInv == World /\ run \in [Runs -> RunRecord] /\ RunsGood /\ Locks

A detection works on what it loaded at its start and on an answer it fetched a while ago.
`Good` says which of that still holds at the end: its candidates are past their deadline
and have a row; a grace period that was over is over; a clear outcome of a resolved oracle
has not changed, which is the finality that `Upstream` gives it.  That is all that the step
to `AutoResolution` needs: the settlement pays on the outcome the oracle stands by, after
one full grace period.  A stamp starts the period only when the oracle is resolved, and
nothing takes it back.  `Locks` is nearly inductive by itself; what it needs in addition is
that the holder of a key is a run of that kind, and that only busy runs are late, so that
the compare-and-delete at the end of a run frees nobody else's lock.

### Accounts

    IInv == /\ TypeOK /\ NobodyYet
            /\ ResetsDistinct /\ ResetsCounted
            /\ SawBefore /\ ObservedSince
            /\ NoSessionSurvivesReset /\ BonusOnce /\ AuditSaysWhoIsBanned

A login holds the row as it read it, and its token carries the version of that row.
`SawBefore` says that a request which read the newest version has a password no older than
the last reset, so its token may live; `ObservedSince` says that a reset which has written
its password knows a version that every login of before it will not exceed, and which the
bump therefore leaves behind.  `ResetRevoke` bumps the version without a bound; that it stays within `Version` is
`ResetsDistinct` and `ResetsCounted`: each reset wrote a password of its own, and the version is
behind the passwords by the resets that may still bump it.  `BonusOnce` rests on the key of
the bonus alone, and `AuditSaysWhoIsBanned` on the one transaction of flag and audit row,
however stale the row was that the admin's request had read.

### Odds stream

    IInv == Shape /\ Numbered /\ Handshakes /\ Targets /\ Registered /\ InOrder /\ ShownWasCommitted

`InOrder` follows a message from the channel to the page: the subscriber's inbox, the
broadcast in progress and the frames of each socket are in the order of their channel, and
everything nearer to the page comes before everything farther from it.  `Numbered` (a version
is given to one edit, and published once, after its commit) makes the order strict: no
frame comes twice, and a page only shows what was committed.  `Registered` needs
`Targets`, what a broadcast may drop at its end (only sockets of its worker that are broken
and will not come back).  The bounds on the lengths of the queues in `TypeOK` are not assumed: a
queue in strict channel order is injective, and so no longer than there are edits.

### Migrations and the demo seed

    MigrationsInv == /\ schema \subseteq Objects /\ Lineal(applied) /\ BuiltBy(schema, applied)
                     /\ closed \in BOOLEAN /\ (closed => SaleTime \in schema)
                     /\ LiveInv
                     /\ run = NoRun \/ RunInv

`BuiltBy(objects, revisions)` is `SchemaIsAtRevision` for any set of objects, so that it can be
said of the transaction in progress as well (`RunInv`).  What could break it is a downgrade
that drops a table and with it what a *later* revision put there.  `Lineal` excludes that:
with a revision all its ancestors are applied, so that the ones still there when a table goes
are no descendants of the one that made it.  Who is an ancestor of whom is a recursive function;
`AncestorsOf` exhibits its values, `Parents` those of `down_revision`, and the rest
(`Descent`, `TellApart`) is a finite matter of names.  For `NothingOwedIsDropped` the check of the
downgrade is not enough, since players go on betting until the DELETE locks the table: what
keeps the stake is the foreign key, since a stake in escrow has entries (`LiveInv`) and the run
remembers that it found none.

    SeedInv == \E k \in 0..Len(Plan) : Seeding(k)

`k` is how far into `Plan` any run has got.  The steps up to it are there once, the others not at all
(`Upto`), and `Stands` places the run in progress: at `k`, or behind it on steps that a re-run
finds and reuses.  The marker, the demo admin, comes right after the users and their
credits (`UsersFirst`, `PlanIsLaidOut`); so a run that starts at all starts with `k` before the
marker, and all that it goes over again is users and credits.  That no step is in `Plan`
twice follows from the lists having no repetition, part by part (`Concatenated`).

### Assumptions

Those stated in the modules, all about constants.  The strongest
are `DistinctAccounts` and `LedgerAssumption`: players' wallets, liability accounts and
the seeded accounts are different rows, which is the UNIQUE constraint on (owner, kind,
currency).  `WalletProofs` does not need two players to have different wallets.
`PolymarketSync` assumes that its categories are sets of its markets and that the winners are
outcomes; it, `OddsStream`, `EventSettlement`, `Betting` and `WalletTransactions` assume that
None is none of the values it stands beside, as Python's None and SQL's NULL are.
`OddsStream` assumes that a page watches one market.  `PositionAssumption` says that `Gone` is no
quote and the stakes, prices and quotes are such; `DemoSeedAssumption`, that the lists of the seed program
have no repetition.
Induction over sums, over the sizes of sets and over lists is done by a least counterexample,
on recursive functions.

### Only model-checked

* Liveness (`EveryRequestEnds`, `EveryRunEnds`, `RerunFinishes`, `MirrorFollowsOracle`,
  `FrameReaches`): liveness and ENABLED are outside what the prover handles.

## Disagreements between the code and what it says of itself

Checked by a violation run each:

* `late_bet` — `bets/market_port.py:58`: bets only "while OPEN and strictly before
  its deadline".  The snapshot is not read again in the transaction, so a bet can
  commit on a market that has meanwhile been closed, resolved or expired; it then
  stays PENDING.  `EscrowBacksPending` shows its stake stays in escrow.
* `unsettled_mirror` — `settlement/event_service.py:196`: "Mirrored children
  auto-settle".  The detection's candidates are OPEN or CLOSED
  (`integrations/polymarket/tasks.py:423`), and the poll writes RESOLVED as soon as Gamma
  lists the market so.  If the poll comes first the bets stay PENDING until an admin settles
  the market by force.
* `demo_reset` — `bin/seed_demo.py:1252`: "back to a clean migrated state".  The reset
  truncates `accounts` and re-inserts the two house accounts, not `livebets_escrow`, and
  leaves `livebets_bets` alone; from then on no live bet can be placed.

Met while modelling, and shown by no run of this project:

* `settlement/adapters.py:52`: a RESOLVED market is skipped, "don't re-stamp the winner".  Two
  resolutions that load the row first both stamp it.
* `markets/service.py:227`: "Cannot close market with status ...", and
  `tests/markets/test_service.py:172` expects a 409.  The status is that of a row loaded
  earlier and the UPDATE does not ask for it again, so a close can take a market from RESOLVED
  to CLOSED with its bets settled (`CloseCommit` in `Betting` and in `EventSettlement`).
* `settlement/service.py:202`: "no lock-ordering cycle can form".  True of accounts; the bets
  rows are locked in two orders (`Betting`: `DeadlockAbort` is reachable).
* `settlement/adapters.py:11`: "re-resolvable after a reversal".  The settle keys of the first
  round are still in use (`settlement/constants.py:66` records this as deferred).
* `integrations/livebets/service.py:6`: every touched account is locked "in CANONICAL UUID
  ORDER"; `wallet/service.py:231`: "no two transfer types can form a lock-ordering cycle".
  `record_placed` locks the wallet and leaves the escrow account to the UPDATE; with a
  refund or a win of the same player it can deadlock.  Postgres aborts one of them, nothing
  is lost, and `CirclesNeedAPlacement` shows that there is no other kind of circle.
* `settlement/event_service.py:403` and `:457`: a full reversal reopens every child.
  `mark_unresolved` is only reached for a child with settled bets; one without stays
  RESOLVED and the event "partially_resolved" (`ReverseNothing`).
* `settlement/event_service.py:112`: resolved means "exactly one YES winner"; the code takes
  any number, and a winner that changes between two runs leaves two.
* `src/.planning/milestones/v1.0-REQUIREMENTS.md:86`: a "banned user cannot log in or bet;
  balance is frozen".  A ban revokes no session; `integrations/livebets/router.py:191` and
  `bets/router.py:169` (cash-out) ask for `current_active_player` only, and the admin login
  has no ban check (`Accounts`: `LiveGate`, `MayEnter`).
* `bets/router.py:126`: "registration guarantees one" (a wallet).  `bin/create_admin.py`
  creates a user without one, who may use the player routes.
* `integrations/polymarket/tasks.py:90`: the lock's time to live is "default 280s < the 300s
  events tick"; `core/config.py:128` sets 600.
* `realtime/manager.py:62`: the bucket is dropped so that empty ones cannot pile up, but an
  `accept()` that raises leaves one.
* `realtime/publisher.py`: publications come after their commits, but two writers may
  publish in the other order than they committed, and a page keeps the older odds; nor are
  odds sent again that were published while a page was reconnecting.
* `alembic/versions/0011_livebets_bridge.py:119`: the downgrade is "safe" once the escrow is
  at 0.  After any live bet, settled or not, the ledger's entries reference the account and
  the DELETE raises, every time.
* `src/deploy/prod-init.sh:10` calls the reset "the demo dataset only"; it truncates the tables
  of all users.  Line 36 takes every failure of the seed program for "already seeded".
* `catalog/service.py:339`: a group of one child "stays on the standalone /markets path", but
  that list takes markets without a group only, so the child is listed nowhere; the
  LIMIT is applied without ORDER BY, before the sort in Python and some of the filters.
* `bets/market_port.py:35` says a price is in (0, 1], while `place_bet` locks in whatever the
  outcome row holds and its CHECK admits 0 (such a bet cannot be cashed out or win:
  `Payable`); `settlement/service.py:106` relies on the endpoint to validate the winner, which
  it does not (`WinnerIds` need not be outcomes); `settlement/service.py:177` says winnings
  are zero only at price 1.0, but they also round to zero just below it.

## Not modelled, and the plan

Left out for good, because they keep no state that interacts with the rest or are pure
I/O: the audit log viewer, user lists, CSV exports, KPIs, catalog and price-history queries,
branding, the slots launcher, rate-limit counters, settings, Celery wiring, the lint script,
the design spikes under `src/.planning/`, and the pages of the frontend other than the socket
hook.  `create_market` is in the initial states of `Betting`; `WalletService.transfer` has no
caller; `snapshot_odds` and the older top-25 poll of Polymarket are described above.

The connection pool is left out as well: twenty connections and a timeout are settings of
SQLAlchemy, no line of the code handles the timeout, and a model of who waits for a connection
would be a model of the library.

What could come next: the reversal of a market without settled bets and audit rows other than
those of bans, a second seed program beside the first, and migrations of a database that
holds demo data.
