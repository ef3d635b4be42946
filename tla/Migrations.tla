------------------------------ MODULE Migrations ------------------------------
(***************************************************************************)
(* The database schema as Alembic builds it and takes it down again        *)
(* (alembic/versions, alembic/env.py), while players use the tables.       *)
(*                                                                         *)
(* An object of the schema is a pair of a table and a part of it: "table"  *)
(* for the table with its columns and inline constraints, or the name of   *)
(* what a statement of its own adds to it.                                 *)
(***************************************************************************)
EXTENDS Naturals, Sequences, Functions

VARIABLES
    applied,    \* the revisions that alembic_version stands for
    schema,     \* the objects in the database
    system,     \* the system accounts that have a row
    live,       \* one live bet: its mirror row, its stake and its ledger entries
    closed,     \* some bets row is CLOSED
    run         \* the Alembic command in progress

schemaVars == <<applied, schema, system, live, closed, run>>

-----------------------------------------------------------------------------
(* What each revision creates, and its downgrade drops by name. *)

Part(table, names) == {<<table, name>> : name \in names}
Table(table, names) == Part(table, {"table"} \cup names)

phase1_foundations ==
    Table("audit_log", {"occurred_at_idx", "event_type_idx", "actor_idx", "immutability_trigger"})
    \cup Table("feature_flags", {"defaults"})
    \cup Part("database", {"raise_audit_immutable"})

phase2_auth == Table("users", {"email_idx"})
               \cup Table("refresh_tokens", {"token_hash_idx", "user_id_idx"})

phase4_markets ==
    Table("markets", {"slug_idx"}) \cup Table("outcomes", {"market_id_idx", "binary_trigger"})
    \cup Table("odds_snapshots", {"market_id_idx", "outcome_id_idx"})
    \cup Part("database", {"check_binary_outcomes"})

phase3_wallet_ledger ==
    Table("accounts", {}) \cup Table("transfers", {"immutability_trigger"})
    \cup Table("entries", {"account_idx", "immutability_trigger"})
    \cup Part("database", {"raise_ledger_immutable"})

phase6_polymarket_sync ==
    Part("markets", {"volume", "volume_24hr", "polymarket_slug", "source_market_id_idx"})
    \cup Part("outcomes", {"initial_odds_range", "current_odds_range"})
    \cup Part("odds_snapshots", {"probability_range"})

phase5_bets == Table("bets", {"user_idx", "market_idx"})

grace_period      == Part("markets", {"uma_resolved_at"})
user_created_at   == Part("users", {"created_at"})
tenant_config     == Table("tenant_config", {"default"})
resolution_stakes ==
    Part("markets", {"winning_outcome_id", "resolution_source", "resolution_justification",
                     "min_stake", "max_stake"})

market_groups ==
    Part("database", {"pg_trgm"})
    \cup Table("market_groups", {"slug_idx", "title_trgm", "source_event_id_idx", "category_idx"})
    \cup Part("markets", {"group_id", "group_item_title", "group_fk", "group_id_idx",
                          "question_trgm", "category_idx", "status_volume_idx"})
    \cup Part("odds_snapshots", {"outcome_snapshot_idx"})

livebets_bridge == Table("livebets_bets", {"user_idx"})

\* The wider status check replaces the narrow one that came with the table.
early_close == Part("bets", {"closed_at", "exit_odds", "status_check_closed"})

\* In an order that respects down_revision.  Two branches leave 0003 and 0006
\* merges them.
History ==
    <<"0001", "0002", "0003", "0004_phase3", "0004_phase6", "0005", "0006", "0007",
      "0008", "0009", "0010", "0011_phase13", "0011_livebets", "0012">>
Revision == {History[i] : i \in DOMAIN History}

down_revision ==
    [r \in Revision |->
        CASE r = "0001" -> {}
          [] r = "0004_phase6" -> {"0003"}
          [] r = "0005" -> {"0004_phase3"}
          [] r = "0006" -> {"0005", "0004_phase6"}
          [] OTHER -> {History[i] : i \in {j \in DOMAIN History : j + 1 \in DOMAIN History
                                                                  /\ History[j + 1] = r}}]

Ancestors[r \in Revision] ==
    UNION {{parent} \cup Ancestors[parent] : parent \in down_revision[r]}

upgrade ==
    [r \in Revision |->
        CASE r = "0001" -> phase1_foundations        [] r = "0002" -> phase2_auth
          [] r = "0003" -> phase4_markets            [] r = "0004_phase3" -> phase3_wallet_ledger
          [] r = "0004_phase6" -> phase6_polymarket_sync [] r = "0005" -> phase5_bets
          [] r = "0006" -> {}                        [] r = "0007" -> grace_period
          [] r = "0008" -> user_created_at           [] r = "0009" -> tenant_config
          [] r = "0010" -> resolution_stakes         [] r = "0011_phase13" -> market_groups
          [] r = "0011_livebets" -> livebets_bridge  [] r = "0012" -> early_close]

\* Only the extension stays: others may share it.
downgrade == [r \in Revision |-> upgrade[r] \ Part("database", {"pg_trgm"})]

\* The system accounts that the upgrades insert.
seeds ==
    [r \in Revision |->
        CASE r = "0004_phase3" -> {"house_promo", "house_revenue"}
          [] r = "0011_livebets" -> {"livebets_escrow"}
          [] OTHER -> {}]

-----------------------------------------------------------------------------
(* alembic upgrade / downgrade: every revision in one transaction *)

NoRun == [todo |-> {}, up |-> TRUE, schema |-> {}, applied |-> {}, checked |-> FALSE]
NoLiveBet == [mirror |-> "none", stake |-> 0, entries |-> FALSE]

MigrationsInit ==
    /\ applied = {} /\ schema = {} /\ system = {}
    /\ live = NoLiveBet /\ closed = FALSE
    /\ run = NoRun

Start(up, todo) ==
    /\ run = NoRun /\ todo # {}
    /\ run' = [todo |-> todo, up |-> up, schema |-> schema, applied |-> applied,
               checked |-> FALSE]
    /\ UNCHANGED <<applied, schema, system, live, closed>>

AlembicUpgrade(target) ==
    Start(TRUE, (Ancestors[target] \cup {target}) \ applied)

\* To a revision that stays, or to "base".
AlembicDowngrade(target) ==
    Start(FALSE, {r \in applied : target = "base" \/ target \in Ancestors[r]})

\* The revisions whose turn it may be: Alembic sorts the rest by down_revision.
Ready == {r \in run.todo : IF run.up THEN Ancestors[r] \cap run.todo = {}
                           ELSE \A q \in run.todo : r \notin Ancestors[q]}

\* Two downgrades look at the data before they touch it.
Guarded(r) == ~run.up /\ r \in {"0011_livebets", "0012"}
Refused(r) == \/ r = "0011_livebets" /\ "livebets_escrow" \in system /\ live.stake # 0
              \/ r = "0012" /\ closed

AlembicCheck(r) ==
    /\ Guarded(r) /\ ~run.checked /\ ~Refused(r)
    /\ run' = [run EXCEPT !.checked = TRUE]
    /\ UNCHANGED <<applied, schema, system, live, closed>>

\* Mutation: entries.account_id is a plain column.
Unreferenced == FALSE

\* entries.account_id REFERENCES accounts: the escrow row cannot be deleted.
Referenced == "livebets_escrow" \in system /\ live.entries

\* Postgres: a name is created once and on a table that is there, what is dropped
\* exists, and a new CHECK is tried on every row.
Executable(r) ==
    IF run.up
    THEN /\ \A object \in upgrade[r] \cap run.schema : object[1] = "database"
         /\ \A object \in upgrade[r] : object[1] # "database" =>
                <<object[1], "table">> \in run.schema \cup upgrade[r]
    ELSE /\ r = "0011_livebets" => ~Referenced
         /\ r = "0012" => ~closed
         /\ downgrade[r] \subseteq run.schema

\* A table takes its parts with it.
Without(objects, dropped) ==
    {object \in objects \ dropped : <<object[1], "table">> \notin dropped}

Applied(r) ==
    IF run.up
    THEN [run EXCEPT !.todo = @ \ {r}, !.applied = @ \cup {r}, !.schema = @ \cup upgrade[r]]
    ELSE [run EXCEPT !.todo = @ \ {r}, !.applied = @ \ {r}, !.checked = FALSE,
                     !.schema = Without(@, downgrade[r])]

\* Mutation: each statement commits by itself.
ApplyAutocommit(r) ==
    /\ Guarded(r) => run.checked
    /\ Executable(r)
    /\ run' = Applied(r)
    /\ schema' = Applied(r).schema
    /\ UNCHANGED <<applied, system, live, closed>>

AlembicApply(r) ==
    /\ Guarded(r) => run.checked
    /\ Executable(r)
    /\ run' = Applied(r)
    /\ UNCHANGED <<applied, schema, system, live, closed>>

Unseeded == UNION {seeds[r] : r \in applied \ run.applied}

\* The transaction commits; the rows of the tables that it dropped are gone.
AlembicCommit ==
    /\ run # NoRun /\ run.todo = {}
    /\ applied' = run.applied
    /\ schema' = run.schema
    /\ system' = (system \ Unseeded) \cup UNION {seeds[r] : r \in run.applied \ applied}
    /\ live' = [mirror  |-> IF <<"livebets_bets", "table">> \in run.schema
                            THEN live.mirror ELSE "none",
                stake   |-> IF <<"accounts", "table">> \in run.schema THEN live.stake ELSE 0,
                entries |-> live.entries /\ <<"entries", "table">> \in run.schema]
    /\ run' = NoRun
    /\ UNCHANGED closed

\* A statement raises, a guard refuses, or the process dies: nothing is done.
AlembicAbort ==
    /\ run # NoRun
    /\ run' = NoRun
    /\ UNCHANGED <<applied, schema, system, live, closed>>

Alembic ==
    \/ \E target \in Revision : AlembicUpgrade(target)
    \/ \E target \in Revision \cup {"base"} : AlembicDowngrade(target)
    \/ \E r \in Ready : AlembicCheck(r) \/ AlembicApply(r)
    \/ AlembicCommit \/ AlembicAbort
=============================================================================
