--------------------------- MODULE PolymarketSync ---------------------------
(***************************************************************************)
(* The mirror of Polymarket (integrations/polymarket): the poll that       *)
(* upserts what Gamma lists, category by category, and the detection of    *)
(* UMA resolutions that settles after a grace period, each under a Redis   *)
(* lock with a time to live; and the admin's force-settle, reversal and    *)
(* close.                                                                  *)
(*                                                                         *)
(* One bet, on YES, stands for the bets of a market.  A placement, a       *)
(* settlement and a close are one step each: Betting has them with what    *)
(* comes between their reads and their writes.                             *)
(***************************************************************************)
EXTENDS Naturals, Sequences

CONSTANTS
    Markets,    \* bound: the Gamma markets
    Categories, \* POLYMARKET_CATEGORIES by priority: the markets Gamma lists under each
    Runs,       \* bound: task runs in progress
    Winners,    \* bound: the outcomes that the oracle may confirm
    Overrides,  \* bound: the outcomes that an admin may force
    None

Outcome == {"YES", "NO"}
Authority == {"uma", "admin"}   \* who settles
Dead == "token of a dead run"

ASSUME CategoriesAssumption == Categories \in Seq(SUBSET Markets)
ASSUME OutcomesAssumption == Winners \subseteq Outcome /\ Overrides \subseteq Outcome
\* No token, answer or settlement is NULL, and tokens are never drawn again.
ASSUME NoneAssumption ==
    /\ Runs \cap {None, Dead} = {}
    /\ None \notin Outcome \cup {"unresolved", "unclear"} \cup (Authority \X Outcome)

VARIABLES
    gamma,      \* upstream: closed, umaResolutionStatus, outcomePrices
    row,        \* the markets rows: status, winning outcome, uma_resolved_at against the clock
    due,        \* the markets whose deadline has passed
    bet,        \* NoBet, Pending, or who settled it and on what
    keys,       \* transfers.idempotency_key in use
    lock,       \* Redis: the run whose token holds the poll's and the detection's lock
    run,        \* the runs in progress
    late        \* the runs that outlived their lock (history)

vars == <<gamma, row, due, bet, keys, lock, run, late>>

-----------------------------------------------------------------------------
Status  == {"OPEN", "CLOSED", "RESOLVED"}
NoRow   == [status |-> "ABSENT", winner |-> None, grace |-> "none"]
Grace   == {"none", "running", "over"}
MarketRow == [status: Status, winner: Outcome \cup {None}, grace: Grace]

\* Mutation: a closed market with a proposed outcome counts as resolved.
statusOnProposal(g) ==
    CASE ~g.closed /\ g.uma # "resolved" -> "OPEN"
      [] ~g.closed /\ g.uma = "resolved" -> "RESOLVED"
      [] g.closed /\ g.uma # "none" /\ g.prices # "trading" -> "RESOLVED"
      [] g.closed /\ (g.uma = "none" \/ g.prices = "trading") -> "CLOSED"

\* _derive_status: the truth table of closed, UMA status and prices; a market in
\* dispute reads like one that nobody has proposed an outcome for.  Prices that
\* are all 0 are left out: such a market is RESOLVED and has no clear winner.
_derive_status(g) ==
    CASE ~g.closed /\ g.uma # "resolved" -> "OPEN"
      [] ~g.closed /\ g.uma = "resolved" -> "RESOLVED"
      [] g.closed /\ g.uma = "resolved" /\ g.prices # "trading" -> "RESOLVED"
      [] g.closed /\ (g.uma # "resolved" \/ g.prices = "trading") -> "CLOSED"

\* _map_winning_outcome_id; "unclear" stands for its ValueError.
_map_winning_outcome_id(g) == IF g.prices = "trading" THEN "unclear" ELSE g.prices

\* What the detection makes of an answer.
Verdict(g) == IF _derive_status(g) # "RESOLVED" THEN "unresolved" ELSE _map_winning_outcome_id(g)

NoBet == <<"none", None>>
Pending == <<"PENDING", None>>
Paid(m) == bet[m] \notin {NoBet, Pending}

Idle == [op |-> "idle"]
Kinds == {"poll", "detect"}
Poll(todo, seen, got) == [op |-> "poll", todo |-> todo, seen |-> seen, got |-> got]
Detect(todo, at, answer) == [op |-> "detect", todo |-> todo, at |-> at, answer |-> answer]

Init ==
    /\ gamma = [m \in Markets |-> [closed |-> FALSE, uma |-> "none", prices |-> "trading"]]
    /\ row = [m \in Markets |-> NoRow]
    /\ due = {}
    /\ bet = [m \in Markets |-> NoBet]
    /\ keys = {}
    /\ lock = [k \in Kinds |-> None]
    /\ run = [r \in Runs |-> Idle]
    /\ late = {}

-----------------------------------------------------------------------------
(* Polymarket and the oracle; a resolution is final once it has a clear price. *)

Clear(m) == gamma[m].uma = "resolved" /\ gamma[m].prices # "trading"

Upstream(m) ==
    /\ ~Clear(m) \/ ~gamma[m].closed
    /\ \/ gamma' = [gamma EXCEPT ![m].closed = TRUE]
       \/ gamma[m].uma = "none" /\ gamma' = [gamma EXCEPT ![m].uma = "proposed"]
       \/ gamma[m].uma = "proposed"
            /\ \E u \in {"none", "resolved"} : gamma' = [gamma EXCEPT ![m].uma = u]
       \/ ~Clear(m) /\ \E p \in Winners \cup {"trading"} :
            /\ gamma[m].prices # p
            /\ gamma' = [gamma EXCEPT ![m].prices = p]
    /\ UNCHANGED <<row, due, bet, keys, lock, run, late>>

DeadlinePasses(m) ==
    /\ m \notin due
    /\ due' = due \cup {m}
    /\ UNCHANGED <<gamma, row, bet, keys, lock, run, late>>

GraceElapses(m) ==
    /\ row[m].grace = "running"
    /\ row' = [row EXCEPT ![m].grace = "over"]
    /\ UNCHANGED <<gamma, due, bet, keys, lock, run, late>>

\* place_bet, its read and its commit together.
place_bet(m) ==
    /\ row[m].status = "OPEN" /\ m \notin due /\ bet[m] = NoBet
    /\ bet' = [bet EXCEPT ![m] = Pending]
    /\ UNCHANGED <<gamma, row, due, keys, lock, run, late>>

-----------------------------------------------------------------------------
(* The locks: SET NX EX, and compare-and-delete. *)

Acquired(r, kind) == lock[kind] = None /\ lock' = [lock EXCEPT ![kind] = r]

\* Mutation: the release does not ask who owns the lock.
ReleasedByAnyone(r, kind) == lock' = [lock EXCEPT ![kind] = None]

Released(r, kind) == lock' = [lock EXCEPT ![kind] = IF @ = r THEN None ELSE @]

LockExpires(kind) ==
    /\ lock[kind] # None
    /\ lock' = [lock EXCEPT ![kind] = None]
    /\ late' = late \cup ({lock[kind]} \cap Runs)
    /\ UNCHANGED <<gamma, row, due, bet, keys, run>>

\* The finally block of both tasks; a run that finds its lock held does nothing.
End(r) ==
    /\ run[r] # Idle
    /\ Released(r, run[r].op)
    /\ run' = [run EXCEPT ![r] = Idle]
    /\ late' = late \ {r}

\* The worker dies: nobody knows the token of its lock any more.
Crash(r) ==
    /\ run[r] # Idle
    /\ lock' = [k \in Kinds |-> IF lock[k] = r THEN Dead ELSE lock[k]]
    /\ run' = [run EXCEPT ![r] = Idle]
    /\ late' = late \ {r}
    /\ UNCHANGED <<gamma, row, due, bet, keys>>

-----------------------------------------------------------------------------
(* _run_poll_events. *)

PollStart(r) ==
    /\ run[r] = Idle /\ Acquired(r, "poll")
    /\ run' = [run EXCEPT ![r] = Poll(Categories, {}, <<>>)]
    /\ UNCHANGED <<gamma, row, due, bet, keys, late>>

NextCategory(r, seen) == Poll(Tail(run[r].todo), seen, <<>>)

\* The answers that Gamma may give for a category: its top markets by volume, up
\* to the limit, in an order that changes from day to day.
fetch_events(category) == SUBSET category

\* The fetch, the dedup over the cycle, the volume floor.
PollFetch(r) ==
    /\ run[r].op = "poll" /\ run[r].todo # <<>> /\ run[r].got = <<>>
    /\ \E listed \in fetch_events(Head(run[r].todo)) : \E curated \in SUBSET (listed \ run[r].seen) :
         LET answers == [m \in curated |-> _derive_status(gamma[m])]
             seen == run[r].seen \cup listed IN
         run' = [run EXCEPT ![r] = IF curated = {} THEN NextCategory(r, seen)
                                   ELSE Poll(run[r].todo, seen, answers)]
    /\ UNCHANGED <<gamma, row, due, bet, keys, lock, late>>

\* ON CONFLICT DO UPDATE: the status is overwritten, and neither the winner nor
\* the grace; nor is the deadline.
_upsert_one_market(m, status) == [row[m] EXCEPT !.status = status]

\* sync_events and the commit of the category; a child that conflicts is left out.
PollCommit(r) ==
    /\ run[r].op = "poll" /\ run[r].got # <<>>
    /\ \E upserted \in SUBSET DOMAIN run[r].got :
         row' = [m \in Markets |-> IF m \in upserted
                                   THEN _upsert_one_market(m, run[r].got[m]) ELSE row[m]]
    /\ run' = [run EXCEPT ![r] = NextCategory(r, @.seen)]
    /\ UNCHANGED <<gamma, due, bet, keys, lock, late>>

\* A fetch or a commit raises: the category is rolled back and skipped.
PollFail(r) ==
    /\ run[r].op = "poll" /\ run[r].todo # <<>>
    /\ run' = [run EXCEPT ![r] = NextCategory(r, @.seen)]
    /\ UNCHANGED <<gamma, row, due, bet, keys, lock, late>>

PollEnd(r) ==
    /\ run[r].op = "poll" /\ run[r].todo = <<>>
    /\ End(r)
    /\ UNCHANGED <<gamma, row, due, bet, keys>>

-----------------------------------------------------------------------------
(* _run_detect_resolutions. *)

DetectStartOn(r, candidates) ==
    /\ run[r] = Idle /\ Acquired(r, "detect")
    /\ run' = [run EXCEPT ![r] = Detect([m \in candidates |-> row[m].grace], None, None)]
    /\ UNCHANGED <<gamma, row, due, bet, keys, late>>

\* Mutation: the detection does not look at the deadline.
DetectStartEarly(r) ==
    DetectStartOn(r, {m \in Markets : row[m].status \in {"OPEN", "CLOSED"}})

\* Mutation: only a market that the poll has CLOSED is a candidate.
DetectStartClosed(r) == DetectStartOn(r, {m \in due : row[m].status = "CLOSED"})

\* The candidates are loaded once, with the uma_resolved_at they have then.
DetectStart(r) == DetectStartOn(r, {m \in due : row[m].status \in {"OPEN", "CLOSED"}})

Todo(r) == DOMAIN run[r].todo
Detecting(r) == run[r].op = "detect"
Leaves(r, m) == Detect([n \in Todo(r) \ {m} |-> run[r].todo[n]], None, None)

\* fetch_market_by_id; a 404 or an answer that does not parse skips the candidate.
DetectFetch(r, m) ==
    /\ Detecting(r) /\ run[r].at = None /\ m \in Todo(r)
    /\ \/ run' = [run EXCEPT ![r].at = m, ![r].answer = Verdict(gamma[m])]
       \/ run' = [run EXCEPT ![r] = Leaves(r, m)]
    /\ UNCHANGED <<gamma, row, due, bet, keys, lock, late>>

Confirmed(r) == Detecting(r) /\ run[r].at # None /\ run[r].answer # "unresolved"
Graced(r) == Confirmed(r) /\ run[r].todo[run[r].at] = "over"

\* Not resolved, still in the grace period, or no clear winner.
DetectSkip(r) ==
    /\ Detecting(r) /\ run[r].at # None
    /\ \/ run[r].answer = "unresolved"
       \/ Confirmed(r) /\ run[r].todo[run[r].at] = "running"
       \/ Graced(r) /\ run[r].answer = "unclear"
    /\ run' = [run EXCEPT ![r] = Leaves(r, run[r].at)]
    /\ UNCHANGED <<gamma, row, due, bet, keys, lock, late>>

\* UPDATE ... WHERE uma_resolved_at IS NULL.
DetectStamp(r) ==
    /\ Confirmed(r) /\ run[r].todo[run[r].at] = "none"
    /\ row' = [row EXCEPT ![run[r].at].grace = IF @ = "none" THEN "running" ELSE @]
    /\ run' = [run EXCEPT ![r] = Leaves(r, run[r].at)]
    /\ UNCHANGED <<gamma, due, bet, keys, lock, late>>

\* resolve_market: the keys of the pending bet; a RESOLVED row keeps its winner.
SettleKey(m, w) == <<"settle", m, w>>
resolve_market(m, w, by) ==
    /\ \/ /\ bet[m] = Pending /\ SettleKey(m, w) \notin keys
          /\ keys' = keys \cup {SettleKey(m, w)}
          /\ bet' = [bet EXCEPT ![m] = <<by, w>>]
       \/ bet[m] # Pending /\ UNCHANGED <<bet, keys>>
    /\ row' = IF row[m].status = "RESOLVED" THEN row
              ELSE [row EXCEPT ![m].status = "RESOLVED", ![m].winner = w]

DetectSettle(r) ==
    /\ Graced(r) /\ run[r].answer # "unclear"
    /\ resolve_market(run[r].at, run[r].answer, "uma")
    /\ run' = [run EXCEPT ![r] = Leaves(r, run[r].at)]
    /\ UNCHANGED <<gamma, due, lock, late>>

\* The settlement raises (a used key, the database): logged, on to the next one.
DetectSettleFails(r) ==
    /\ Graced(r) /\ run[r].answer # "unclear"
    /\ run' = [run EXCEPT ![r] = Leaves(r, run[r].at)]
    /\ UNCHANGED <<gamma, row, due, bet, keys, lock, late>>

\* The loop is through, or a fetch or the stamp raised and left the others unvisited.
DetectEnd(r) ==
    /\ Detecting(r) /\ (run[r].at # None => run[r].todo[run[r].at] = "none")
    /\ End(r)
    /\ UNCHANGED <<gamma, row, due, bet, keys>>

-----------------------------------------------------------------------------
(* Admin: force_settle_polymarket_market, reverse_settlement, close_market. *)

ForceSettle(m, w) ==
    /\ row[m] # NoRow
    /\ resolve_market(m, w, "admin")
    /\ UNCHANGED <<gamma, due, lock, run, late>>

reverse_settlement(m) ==
    /\ Paid(m) /\ <<"reverse", m, bet[m][2]>> \notin keys
    /\ keys' = keys \cup {<<"reverse", m, bet[m][2]>>}
    /\ bet' = [bet EXCEPT ![m] = Pending]
    /\ row' = [row EXCEPT ![m].status = "CLOSED"]
    /\ UNCHANGED <<gamma, due, lock, run, late>>

\* close_market, its check and its write together.
close_market(m) ==
    /\ row[m].status = "OPEN"
    /\ row' = [row EXCEPT ![m].status = "CLOSED"]
    /\ UNCHANGED <<gamma, due, bet, keys, lock, run, late>>

-----------------------------------------------------------------------------
Step(r) ==
    \/ PollFetch(r) \/ PollCommit(r) \/ PollFail(r) \/ PollEnd(r)
    \/ \E m \in Markets : DetectFetch(r, m)
    \/ DetectSkip(r) \/ DetectStamp(r) \/ DetectSettle(r) \/ DetectSettleFails(r) \/ DetectEnd(r)

Admin(m) ==
    (\E w \in Overrides : ForceSettle(m, w)) \/ reverse_settlement(m) \/ close_market(m)

Next ==
    \/ \E m \in Markets : \/ Upstream(m) \/ DeadlinePasses(m) \/ GraceElapses(m)
                          \/ place_bet(m) \/ Admin(m)
    \/ \E k \in Kinds : LockExpires(k)
    \/ \E r \in Runs : PollStart(r) \/ DetectStart(r) \/ Step(r) \/ Crash(r)

Spec == Init /\ [][Next]_vars

\* Beat fires both tasks for ever, Redis drops a key when its time is up, and
\* Gamma and the database fail now and then, not every time they are asked.
Answers(r, m) == DetectFetch(r, m) /\ run'[r].at = m
FairSpec ==
    /\ Spec
    /\ WF_vars(LockExpires("detect"))
    /\ \A m \in Markets : WF_vars(GraceElapses(m))
    /\ \A r \in Runs : WF_vars(Step(r))
    /\ SF_vars(\E r \in Runs : DetectStart(r))
    /\ \A m \in Markets : SF_vars(\E r \in Runs : Answers(r, m))
    /\ SF_vars(\E r \in Runs : DetectStamp(r) \/ DetectSettle(r))

-----------------------------------------------------------------------------
Gamma == [closed: BOOLEAN, uma: {"none", "proposed", "resolved"},
          prices: Outcome \cup {"trading"}]

PollRun == [op: {"poll"}, todo: Seq(SUBSET Markets), seen: SUBSET Markets,
            got: UNION {[answered -> Status] : answered \in SUBSET Markets}]
DetectRun == [op: {"detect"}, todo: UNION {[candidates -> Grace] : candidates \in SUBSET Markets},
              at: Markets \cup {None}, answer: Outcome \cup {"unresolved", "unclear", None}]

TypeOK ==
    /\ gamma \in [Markets -> Gamma]
    /\ row \in [Markets -> MarketRow \cup {NoRow}]
    /\ due \subseteq Markets
    /\ bet \in [Markets -> {NoBet, Pending} \cup (Authority \X Outcome)]
    /\ keys \subseteq {"settle", "reverse"} \X Markets \X Outcome
    /\ lock \in [Kinds -> Runs \cup {None, Dead}]
    /\ run \in [Runs -> {Idle} \cup PollRun \cup DetectRun]
    /\ late \subseteq {r \in Runs : run[r] # Idle}
    /\ \A r \in Runs : run[r].op = "poll" => DOMAIN run[r].got \subseteq run[r].seen
    /\ \A r \in Runs : Detecting(r) =>
         /\ Todo(r) \subseteq due
         /\ run[r].at # None => run[r].at \in Todo(r) /\ run[r].answer # None

\* Two polls, or two detections, overlap only when one of them outlived its
\* lock: until then a run holds the lock, whoever else starts or ends late.
OnTimeRunHoldsLock == \A r \in Runs : run[r] # Idle /\ r \notin late => lock[run[r].op] = r

\* The mirror pays as AutoResolution promises, whatever polls, detections and
\* admins do to the row at the same time.
Promised == INSTANCE AutoResolution WITH
    Markets <- Markets,
    None    <- None,
    oracle  <- [m \in Markets |-> IF Clear(m) THEN gamma[m].prices
                                  ELSE IF gamma[m].uma = "resolved" THEN "resolved" ELSE "open"],
    grace   <- [m \in Markets |-> row[m].grace],
    paid    <- [m \in Markets |-> IF Paid(m) THEN bet[m] ELSE None]
AutoSpec == Promised!Spec

\* A mirrored market that the oracle has decided, closed and past its deadline,
\* ends RESOLVED and stays so, though stale polls write its status back, workers
\* die and locks are left behind; unless an admin reversed it.
Decided(m) == Clear(m) /\ gamma[m].closed /\ m \in due /\ row[m] # NoRow
Reversed(m) == \E w \in Outcome : <<"reverse", m, w>> \in keys
MirrorFollowsOracle == \A m \in Markets :
    []<>Decided(m) => <>[](row[m].status = "RESOLVED" \/ Reversed(m))

\* "Mirrored children auto-settle" (event_service.py).  The code disagrees: a
\* market that the poll marks RESOLVED is no candidate of the detection any more.
MirroredBetsSettle == \A m \in Markets :
    bet[m] = Pending /\ Decided(m) ~> bet[m] # Pending \/ Reversed(m)
=============================================================================
