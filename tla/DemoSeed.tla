------------------------------- MODULE DemoSeed -------------------------------
(***************************************************************************)
(* The operator's tools: Alembic (Migrations) and bin/seed_demo.py, which  *)
(* fills an empty database with demo data in many transactions, or, with   *)
(* --reset, wipes it first.  The program may be killed anywhere and run    *)
(* again; players bet meanwhile.                                           *)
(***************************************************************************)
EXTENDS Migrations

CONSTANTS
    Players,    \* bound: demo users, in the order they are seeded (a sequence)
    Events,     \* bound: demo events, in order (a sequence)
    Bets,       \* bound: demo bets, in order (a sequence)
    Twice       \* bound: how often the rows of a step are counted

\* No two of them share an e-mail, a slug or a place in the list of bets.
IsListOfNames(names) == names \in Seq(Range(names)) /\ IsInjective(names)

ASSUME DemoSeedAssumption ==
    /\ IsListOfNames(Players) /\ IsListOfNames(Events) /\ IsListOfNames(Bets)
    /\ Twice \in Nat \ {0, 1}

VARIABLES
    rows,       \* for each step of the program, how often its rows are there
    seed,       \* the program in progress
    exit        \* how the last run ended

vars == <<applied, schema, system, live, closed, run, rows, seed, exit>>
migrations == schemaVars

-----------------------------------------------------------------------------
(* seed_demo, a transaction at a time.  The resolutions of the standalone  *)
(* markets stand as one step, and so do the bets on one event.             *)

Each(kind, names) == [i \in DOMAIN names |-> [kind |-> kind, of |-> names[i]]]
Once(kind) == <<[kind |-> kind, of |-> kind]>>

\* _ensure_user_with_wallet, then grant_signup_bonus, then the recharges.
seed_users ==
    [i \in 1..(3 * Len(Players)) |->
        [kind |-> <<"user", "bonus", "recharge">>[((i - 1) % 3) + 1],
         of   |-> Players[((i - 1) \div 3) + 1]]]
seed_markets      == Once("admin") \o Once("markets")
seed_events       == Each("event", Events)
seed_odds_history == Once("history")
seed_bets         == Each("bet", Bets)
seed_event_bets   == Each("event_bet", Events)
seed_resolutions  == Once("resolution")
seed_event_resolutions == Each("outcome", Events)

Plan == seed_users \o seed_markets \o seed_events \o seed_odds_history \o seed_bets
        \o seed_event_bets \o seed_resolutions \o seed_event_resolutions
Steps == {Plan[i] : i \in DOMAIN Plan}
Admin == [kind |-> "admin", of |-> "admin"]

\* Reused when they are there: the user and the admin by e-mail, the credits by
\* their idempotency keys.
Reused(step) == step.kind \in {"user", "bonus", "recharge", "admin"} /\ rows[step] > 0

\* market_groups.slug is UNIQUE and the slugs of the demo events are fixed:
\* create_house_event tries three times and raises.
Collides(step) == step.kind = "event" /\ rows[step] > 0

NotSeeding == [next |-> 0, wiped |-> FALSE]
AtHead == applied = Revision

\* _is_already_seeded: the demo admin is the marker.
\* Mutation: the last thing that the program writes is the marker.
seeded_to_the_end == rows[Plan[Len(Plan)]] > 0
is_already_seeded == rows[Admin] > 0

Begin(wiped) == seed' = [next |-> 1, wiped |-> wiped] /\ exit' = "running"

SeedStart ==
    /\ run = NoRun /\ AtHead /\ seed = NotSeeding
    /\ IF is_already_seeded
       THEN exit' = "already_seeded" /\ UNCHANGED seed
       ELSE Begin(FALSE)
    /\ UNCHANGED <<migrations, rows>>

\* What TRUNCATE ... CASCADE reaches: all that the steps write.
\* Mutation: market_groups, which no foreign key of the listed tables reaches, is
\* left out of the list.
truncated_groups_kept(step) == step.kind # "event"
truncated(step) == step \in Steps

\* reset_demo: one transaction; it inserts the two house accounts again.
reset_demo ==
    /\ run = NoRun /\ AtHead /\ seed = NotSeeding
    /\ rows' = [step \in Steps |-> IF truncated(step) THEN 0 ELSE rows[step]]
    /\ system' = {"house_promo", "house_revenue"}
    /\ live' = [live EXCEPT !.stake = 0, !.entries = FALSE]
    /\ closed' = FALSE
    /\ Begin(TRUE)
    /\ UNCHANGED <<applied, schema, run>>

Ends(result) == seed' = NotSeeding /\ exit' = result

\* Mutation: a user who exists is taken for a user who is funded.
NextUnlessUser ==
    IF Plan[seed.next].kind = "user" /\ rows[Plan[seed.next]] > 0
    THEN seed.next + 3 ELSE seed.next + 1
NextStep == seed.next + 1

Written(step) ==
    IF Reused(step) THEN UNCHANGED rows
    ELSE rows[step] < Twice /\ rows' = [rows EXCEPT ![step] = @ + 1]

\* The next transaction; the exception of a collision ends the program.
SeedStep ==
    /\ seed # NotSeeding /\ seed.next \in DOMAIN Plan
    /\ LET step == Plan[seed.next] IN
         IF Collides(step)
         THEN Ends("raised") /\ UNCHANGED rows
         ELSE /\ Written(step)
              /\ seed' = [seed EXCEPT !.next = NextStep]
              /\ UNCHANGED exit
    /\ UNCHANGED migrations

SeedReturn ==
    /\ seed # NotSeeding /\ seed.next \notin DOMAIN Plan
    /\ Ends("ok")
    /\ UNCHANGED <<migrations, rows>>

SeedKilled ==
    /\ seed # NotSeeding
    /\ Ends("killed")
    /\ UNCHANGED <<migrations, rows>>

-----------------------------------------------------------------------------
(* Players.  Tables that an Alembic transaction has altered are locked. *)

Free(tables) ==
    \A table \in tables :
        /\ <<table, "table">> \in schema
        /\ run # NoRun => {o \in schema : o[1] = table} = {o \in run.schema : o[1] = table}

\* record_placed and record_settled (livebets/service.py): stake to the escrow, back.
PlaceLive ==
    /\ Free({"accounts", "transfers", "entries", "livebets_bets"})
    /\ live.mirror = "none" /\ "livebets_escrow" \in system
    /\ live' = [mirror |-> "pending", stake |-> 1, entries |-> TRUE]
    /\ UNCHANGED <<applied, schema, system, closed, run, rows, seed, exit>>

SettleLive ==
    /\ Free({"accounts", "transfers", "entries", "livebets_bets"})
    /\ live.mirror = "pending" /\ live.stake = 1
    /\ live' = [live EXCEPT !.mirror = "settled", !.stake = 0]
    /\ UNCHANGED <<applied, schema, system, closed, run, rows, seed, exit>>

\* sell_position closes a bet and notes its exit odds.
CloseBet ==
    /\ Free({"bets"}) /\ ~closed
    /\ <<"bets", "closed_at">> \in schema
    /\ closed' = TRUE
    /\ UNCHANGED <<applied, schema, system, live, run, rows, seed, exit>>

-----------------------------------------------------------------------------
Init ==
    /\ MigrationsInit
    /\ rows = [step \in Steps |-> 0]
    /\ seed = NotSeeding
    /\ exit = "none"

\* Bound: a database with demo data is not migrated.
Migrate ==
    /\ seed = NotSeeding /\ \A step \in Steps : rows[step] = 0
    /\ Alembic
    /\ UNCHANGED <<rows, seed, exit>>

Next ==
    \/ Migrate
    \/ SeedStart \/ reset_demo \/ SeedStep \/ SeedReturn \/ SeedKilled
    \/ PlaceLive \/ SettleLive \/ CloseBet

Spec == Init /\ [][Next]_vars

-----------------------------------------------------------------------------
\* Whatever was refused, raised or killed half-way, the database has exactly the
\* objects of the revisions that alembic_version names.
SchemaIsAtRevision ==
    LET extension == Part("database", {"pg_trgm"}) IN
    schema \ extension = (UNION {upgrade[r] : r \in applied}) \ extension

\* No downgrade destroys a stake in escrow or the price at which a bet was sold,
\* though players bet between its look at the data and its commit.
NothingOwedIsDropped ==
    /\ live.stake > 0 => "livebets_escrow" \in system /\ live.mirror = "pending"
    /\ closed => <<"bets", "closed_at">> \in schema

\* However often the program was killed and run again, no user is credited twice
\* and no market, event, price or bet is there twice.
NothingSeededTwice == \A step \in Steps : rows[step] <= 1

\* A run that exits with 0 leaves the whole demo, also after runs that were killed.
SuccessIsComplete == exit = "ok" => \A step \in Steps : rows[step] = 1

\* No run ends with an exception for what earlier runs left behind.
NoRunRaises == exit # "raised"

\* reset_demo: "Wipe the demo/domain dataset back to a clean migrated state."  It
\* puts back two of the three system accounts.
ResetIsCleanMigrated == seed.wiped => system = UNION {seeds[r] : r \in applied}
=============================================================================
