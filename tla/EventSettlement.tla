-------------------------- MODULE EventSettlement --------------------------
(***************************************************************************)
(* A house event: a group of binary markets, at most one of which should   *)
(* end on YES (settlement/event_service.py, event_router.py).              *)
(*                                                                         *)
(* Nothing is stored about the outcome of the group; it is derived from    *)
(* the children.  An event is resolved, voided or reversed by a loop over  *)
(* its children, one database transaction each; between two of them other  *)
(* requests run, the process may die, and a child that raises is skipped.  *)
(* What a child transaction does to the rows of bets and accounts is the   *)
(* subject of Betting; here one bet, on YES, stands for the bets of a      *)
(* child.  Cash-outs are Betting's as well, and so are the routes that     *)
(* settle or reverse one market: what they do to a child is what a loop    *)
(* does that dies after it, or fails on all others.                        *)
(***************************************************************************)
EXTENDS Naturals, FiniteSets, SequencesExt

CONSTANTS
    MaxChildren,    \* bound: markets ever created, numbered in the order of their UUIDs
    Lists,          \* bound: the ids the children of one outcomes list may get
    Popular,        \* bound: the children that players bet on
    Requests,       \* bound: requests in flight
    Takes,          \* bound: the operations that each of them may be
    None

Children == 1..MaxChildren

ASSUME ChildrenAssumption == MaxChildren \in Nat /\ None \notin Children
\* CreateEventRequest, UpdateEventRequest: two outcomes at least (EVT-07).
ASSUME ListsAssumption == \A new \in Lists : new \subseteq Children /\ Cardinality(new) >= 2

VARIABLES
    group,      \* the ids of the child markets, markets.group_id = the event
    market,     \* the markets rows: status and winning outcome
    bet,        \* the status of the child's bet; "none" before it is placed
    keys,       \* transfers.idempotency_key in use: <<pass, child, outcome>>
    run         \* the requests in flight

vars == <<group, market, bet, keys, run>>

-----------------------------------------------------------------------------
Outcome  == {"YES", "NO"}
Status   == {"ABSENT", "OPEN", "CLOSED", "RESOLVED"}
NoMarket == [status |-> "ABSENT", winner |-> None]
NewMarket == [status |-> "OPEN", winner |-> None]
MarketRow == [status: Status, winner: Outcome \cup {None}]
Settled  == {"SETTLED_WON", "SETTLED_LOST"}
BetStatus == {"none", "PENDING"} \cup Settled

Idle == [op |-> "idle"]
Settles == {"resolve", "void"}
Loops == Settles \cup {"reverse"}
OnChild == {"place", "close"}
\* todo: the children still to be visited, with the outcome they settle on;
\* at: the child whose transaction is open; saw: what that transaction read;
\* seen: the children the run found in the group; failed: those that raised;
\* moved: children that another request reversed, replaced or, late, closed
\* meanwhile (history).
NothingSeen == [bet |-> "none", row |-> NoMarket]
Looping(op, todo) == [op |-> op, todo |-> todo, at |-> None, saw |-> NothingSeen,
                      seen |-> {s[1] : s \in ToSet(todo)}, failed |-> {}, moved |-> {}]

Head1(r) == run[r].todo[1][1]
Asked(r) == run[r].todo[1][2]
InLoop(r) == run[r].op \in Loops
Between(r) == InLoop(r) /\ run[r].at = None /\ run[r].todo # <<>>
Inside(r, op) == run[r].op \in op /\ run[r].at # None
\* The bets rows that a settlement holds FOR UPDATE, and those a reversal has updated.
Holds(r, c) == Inside(r, Settles) /\ run[r].at = c /\ run[r].saw.bet = "PENDING"
Rewrites(r, c) == Inside(r, {"reverse"}) /\ run[r].at = c /\ run[r].saw.row # NoMarket
Unlocked(c) == \A r \in Requests : ~Holds(r, c) /\ ~Rewrites(r, c)

\* What derive_event_status makes of the children.
YesWinners == {c \in group : market[c].status = "RESOLVED" /\ market[c].winner = "YES"}
derive_event_status ==
    LET resolved == {c \in group : market[c].status = "RESOLVED"} IN
    CASE resolved = {}                                           -> "open"
      [] resolved # {} /\ resolved # group                       -> "partially_resolved"
      [] resolved # {} /\ resolved = group /\ YesWinners # {}     -> "resolved"
      [] resolved # {} /\ resolved = group /\ YesWinners = {}     -> "void"

Init ==
    /\ group = {}
    /\ market = [c \in Children |-> NoMarket]
    /\ bet = [c \in Children |-> "none"]
    /\ keys = {}
    /\ run = [r \in Requests |-> Idle]

-----------------------------------------------------------------------------
(* create_house_event, update_house_event. *)

\* Ids that no row and no request remembers.
Unused == {c \in Children : /\ market[c] = NoMarket /\ bet[c] = "none"
                            /\ \A r \in Requests : /\ InLoop(r) => c \notin run[r].seen
                                                  /\ run[r].op \in OnChild => c # run[r].child}

create_house_event(new) ==
    /\ group = {} /\ new \subseteq Unused
    /\ group' = new
    /\ market' = [c \in Children |-> IF c \in new THEN NewMarket ELSE market[c]]
    /\ UNCHANGED <<bet, keys, run>>

event_has_bets == \E c \in group : bet[c] # "none"

\* The router checks the edit lock (423), the service edits in the same request.
UpdateCheck(r) ==
    /\ run[r] = Idle /\ group # {} /\ ~event_has_bets
    /\ run' = [run EXCEPT ![r] = [op |-> "update"]]
    /\ UNCHANGED <<group, market, bet, keys>>

\* Runs learn in "moved" of what was done to the children behind their back.
Tell(moved, runs) ==
    [q \in Requests |-> IF runs[q].op \in Settles
                        THEN [runs[q] EXCEPT !.moved = @ \cup moved] ELSE runs[q]]

update_house_event(r, new) ==
    /\ run[r].op = "update" /\ new \subseteq Unused
    /\ group' = new
    /\ market' = [c \in Children |-> IF c \in new THEN NewMarket
                                     ELSE IF c \in group THEN NoMarket ELSE market[c]]
    /\ run' = Tell(group, [run EXCEPT ![r] = Idle])
    /\ UNCHANGED <<bet, keys>>

\* An edit without outcomes changes title, category and deadline only.
EditMetadata(r) ==
    /\ run[r].op = "update"
    /\ run' = [run EXCEPT ![r] = Idle]
    /\ UNCHANGED <<group, market, bet, keys>>

-----------------------------------------------------------------------------
(* place_bet: the market is read before the transaction that inserts the bet. *)

PlaceRead(r, c) ==
    /\ run[r] = Idle /\ c \in Popular /\ market[c].status = "OPEN" /\ bet[c] = "none"
    /\ \A q \in Requests : run[q].op = "place" => run[q].child # c
    /\ run' = [run EXCEPT ![r] = [op |-> "place", child |-> c]]
    /\ UNCHANGED <<group, market, bet, keys>>

PlaceCommit(r) ==
    /\ run[r].op = "place"
    /\ bet' = [bet EXCEPT ![run[r].child] = "PENDING"]
    /\ run' = [run EXCEPT ![r] = Idle]
    /\ UNCHANGED <<group, market, keys>>

-----------------------------------------------------------------------------
(* close_market, which takes any market, the children of an event included. *)

\* The row is loaded, without a lock, and refused (409) unless it is OPEN.
CloseLoad(r, c) ==
    /\ run[r] = Idle /\ market[c].status = "OPEN"
    /\ run' = [run EXCEPT ![r] = [op |-> "close", child |-> c]]
    /\ UNCHANGED <<group, market, bet, keys>>

\* The UPDATE writes the status, and asks for none: the row may be RESOLVED by
\* now.  When it is gone the flush raises.
CloseCommit(r) ==
    /\ run[r].op = "close"
    /\ LET c == run[r].child
           undone == {d \in {c} : market[d].status = "RESOLVED"} IN
         /\ \/ market[c] # NoMarket /\ market' = [market EXCEPT ![c].status = "CLOSED"]
            \/ market[c] = NoMarket /\ UNCHANGED market
         /\ run' = Tell(undone, [run EXCEPT ![r] = Idle])
    /\ UNCHANGED <<group, bet, keys>>

-----------------------------------------------------------------------------
(* resolve_event, void_event, reverse_event: the read pass. *)

Ascending(cs) == CHOOSE s \in [1..Cardinality(cs) -> cs] : \A i, j \in DOMAIN s : i < j => s[i] < s[j]
On(outcome, cs) == [i \in 1..Cardinality(cs) |-> <<Ascending(cs)[i], outcome>>]

\* The winner first, on YES; the losers on NO, by market.id.
resolve_event(r, w) ==
    /\ run[r] = Idle /\ w \in group
    /\ run' = [run EXCEPT ![r] = Looping("resolve", <<<<w, "YES">>>> \o On("NO", group \ {w}))]
    /\ UNCHANGED <<group, market, bet, keys>>

void_event(r) ==
    /\ run[r] = Idle /\ group # {}
    /\ run' = [run EXCEPT ![r] = Looping("void", On("NO", group))]
    /\ UNCHANGED <<group, market, bet, keys>>

reverse_event(r) ==
    /\ run[r] = Idle /\ group # {}
    /\ run' = [run EXCEPT ![r] = Looping("reverse", On("NO", group))]
    /\ UNCHANGED <<group, market, bet, keys>>

-----------------------------------------------------------------------------
(* _settle_children: resolve_market on a fresh session per child. *)

\* Mutation: nothing is done for a child that is RESOLVED already.
SettleBeginUnlessResolved(r) ==
    /\ Between(r) /\ run[r].op \in Settles
    /\ LET c == Head1(r)
           pending == IF market[c].status = "RESOLVED" THEN "none" ELSE bet[c] IN
         /\ pending = "PENDING" => Unlocked(c)
         /\ run' = [run EXCEPT ![r].at = c, ![r].saw = [bet |-> pending, row |-> NoMarket]]
    /\ UNCHANGED <<group, market, bet, keys>>

\* The PENDING bets are selected FOR UPDATE.
SettleBegin(r) ==
    /\ Between(r) /\ run[r].op \in Settles
    /\ LET c == Head1(r) IN
         /\ bet[c] = "PENDING" => Unlocked(c)
         /\ run' = [run EXCEPT ![r].at = c,
                               ![r].saw = [bet |-> bet[c], row |-> NoMarket]]
    /\ UNCHANGED <<group, market, bet, keys>>

\* mark_resolved, mark_unresolved: the market row is loaded, unlocked, once the
\* transfers are posted; a reversal has by then updated the bets it read.
MarketLoad(r) ==
    /\ InLoop(r) /\ run[r].at # None /\ run[r].saw.row = NoMarket
    /\ run[r].op = "reverse" => run[r].saw.bet \in Settled /\ Unlocked(run[r].at)
    /\ market[run[r].at] # NoMarket
    /\ run' = [run EXCEPT ![r].saw.row = market[run[r].at]]
    /\ UNCHANGED <<group, market, bet, keys>>

Next1(r, failed) == [run[r] EXCEPT !.todo = Tail(@), !.at = None, !.saw = NothingSeen,
                                   !.failed = @ \cup failed]

\* mark_resolved raises on a missing row and skips a RESOLVED one; the UPDATE
\* of a row deleted since it was loaded matches nothing, and the flush raises.
Stampable(r) == \/ run[r].saw.row.status = "RESOLVED"
                \/ run[r].saw.row # NoMarket /\ market[run[r].at] # NoMarket

\* Mutation: the bets' verdict is stamped on the market.
stampedVerdict(row, current, outcome) ==
    IF row.status = "RESOLVED" THEN current ELSE [status |-> "SETTLED_WON", winner |-> outcome]

\* The UPDATE writes the columns in which the row differs from what was loaded.
stamped(row, current, outcome) ==
    IF row.status = "RESOLVED" THEN current
    ELSE [status |-> "RESOLVED",
          winner |-> IF row.winner = outcome THEN current.winner ELSE outcome]

SettleKey(r) == <<"settle", run[r].at, Asked(r)>>

SettleCommit(r) ==
    /\ Inside(r, Settles) /\ Stampable(r)
    /\ LET c == run[r].at IN
         /\ \/ /\ run[r].saw.bet = "PENDING" /\ SettleKey(r) \notin keys
               /\ keys' = keys \cup {SettleKey(r)}
               /\ bet' = [bet EXCEPT ![c] = IF Asked(r) = "YES" THEN "SETTLED_WON"
                                            ELSE "SETTLED_LOST"]
            \/ /\ run[r].saw.bet # "PENDING"
               /\ UNCHANGED <<bet, keys>>
         /\ market' = [market EXCEPT ![c] = stamped(run[r].saw.row, @, Asked(r))]
    /\ run' = [run EXCEPT ![r] = Next1(r, {})]
    /\ UNCHANGED group

\* Mutation: the failure of a child is logged and not noted.
ChildFailUnnoted(r) ==
    /\ InLoop(r) /\ run[r].at # None
    /\ run' = [run EXCEPT ![r] = Next1(r, {})]
    /\ UNCHANGED <<group, market, bet, keys>>

\* Mutation: one transaction around the whole loop; a child that raises rolls back its siblings.
ChildFailTogether(r) ==
    /\ InLoop(r) /\ run[r].at # None
    /\ run' = [run EXCEPT ![r] = Next1(r, {run[r].at})]
    /\ bet' = [c \in Children |-> IF c \in run[r].seen /\ bet[c] \in Settled THEN "PENDING"
                                  ELSE bet[c]]
    /\ UNCHANGED <<group, market, keys>>

\* Mutation: a child that raises is tried again until it succeeds.
ChildFailRetried(r) ==
    /\ InLoop(r) /\ run[r].at # None
    /\ run' = [run EXCEPT ![r].at = None, ![r].saw = NothingSeen]
    /\ UNCHANGED <<group, market, bet, keys>>

\* The transaction raises, whatever the cause (a used key, an exhausted house
\* account, the database): it rolls back, the child is noted, the loop goes on.
ChildFail(r) ==
    /\ InLoop(r) /\ run[r].at # None
    /\ run' = [run EXCEPT ![r] = Next1(r, {run[r].at})]
    /\ UNCHANGED <<group, market, bet, keys>>

-----------------------------------------------------------------------------
(* _reverse_children: reverse_settlement on a fresh session per child. *)

\* The settled bets are read without a lock.
ReverseBegin(r) ==
    /\ Between(r) /\ run[r].op = "reverse"
    /\ run' = [run EXCEPT ![r].at = Head1(r),
                          ![r].saw = [bet |-> bet[Head1(r)], row |-> NoMarket]]
    /\ UNCHANGED <<group, market, bet, keys>>

\* mark_unresolved is inside `if bets`: a child without a settled bet is left as it is.
ReverseNothing(r) ==
    /\ Inside(r, {"reverse"}) /\ run[r].saw.bet \notin Settled
    /\ run' = [run EXCEPT ![r] = Next1(r, {})]
    /\ UNCHANGED <<group, market, bet, keys>>

ReverseKey(r) ==
    <<"reverse", run[r].at, IF run[r].saw.bet = "SETTLED_WON" THEN "YES" ELSE "NO">>

reopened(row, current) ==
    IF row.status = "CLOSED" THEN current ELSE [current EXCEPT !.status = "CLOSED"]

ReverseCommit(r) ==
    /\ Inside(r, {"reverse"}) /\ run[r].saw.bet \in Settled /\ run[r].saw.row # NoMarket
    /\ LET c == run[r].at IN
         /\ market[c] # NoMarket /\ ReverseKey(r) \notin keys
         /\ keys' = keys \cup {ReverseKey(r)}
         /\ bet' = [bet EXCEPT ![c] = "PENDING"]
         /\ market' = [market EXCEPT ![c] = reopened(run[r].saw.row, @)]
         /\ run' = Tell({c}, [run EXCEPT ![r] = Next1(r, {})])
    /\ UNCHANGED group

-----------------------------------------------------------------------------
\* _record_event_audit in a transaction of its own, _derive_status, the response.
Report(r) ==
    /\ InLoop(r) /\ run[r].todo = <<>>
    /\ run' = [run EXCEPT ![r] = Idle]
    /\ UNCHANGED <<group, market, bet, keys>>

\* The process or its connection dies; what was not committed rolls back.
Crash(r) ==
    /\ run[r] # Idle
    /\ run' = [run EXCEPT ![r] = Idle]
    /\ UNCHANGED <<group, market, bet, keys>>

Arrive(r) ==
    \/ "update" \in Takes[r] /\ UpdateCheck(r)
    \/ "void" \in Takes[r] /\ void_event(r)
    \/ "reverse" \in Takes[r] /\ reverse_event(r)
    \/ \E c \in Children :
         \/ "resolve" \in Takes[r] /\ resolve_event(r, c)
         \/ "place" \in Takes[r] /\ PlaceRead(r, c)
         \/ "close" \in Takes[r] /\ CloseLoad(r, c)

Step(r) ==
    \/ \E new \in Lists : update_house_event(r, new)
    \/ EditMetadata(r) \/ PlaceCommit(r) \/ CloseCommit(r)
    \/ SettleBegin(r) \/ MarketLoad(r) \/ SettleCommit(r) \/ ChildFail(r)
    \/ ReverseBegin(r) \/ ReverseNothing(r) \/ ReverseCommit(r)
    \/ Report(r)

Next ==
    \/ \E new \in Lists : create_house_event(new)
    \/ \E r \in Requests : Arrive(r) \/ Step(r) \/ Crash(r)

Spec == Init /\ [][Next]_vars

\* A handler goes on until it returns; who waits for a row lock is queued.
FairSpec == Spec /\ \A r \in Requests : WF_vars(Step(r)) /\ SF_vars(SettleBegin(r))

-----------------------------------------------------------------------------
LoopRun == [op: Loops, todo: Seq(Children \X Outcome), at: Children \cup {None},
            saw: [bet: BetStatus, row: MarketRow],
            seen: SUBSET Children, failed: SUBSET Children, moved: SUBSET Children]
Run == {Idle, [op |-> "update"]} \cup [op: OnChild, child: Children] \cup LoopRun

TypeOK ==
    /\ group \subseteq Children
    /\ market \in [Children -> MarketRow]
    /\ bet \in [Children -> BetStatus]
    /\ keys \subseteq {"settle", "reverse"} \X Children \X Outcome
    /\ run \in [Requests -> Run]

\* What the counts of a report mean (children_settled, children_failed): a
\* child that a finished resolution or voiding does not list as failed was
\* left RESOLVED, and is so still unless it was reversed or replaced since, or
\* taken back to CLOSED by a request that had loaded it OPEN.
ReportTellsTheTruth ==
    \A r \in Requests : run[r].op \in Settles /\ run[r].todo = <<>> =>
        \A c \in run[r].seen \ (run[r].failed \cup run[r].moved) : market[c].status = "RESOLVED"

\* Settled siblings stay intact: whatever happens to a run, only a reversal
\* that has come to a child takes back what was paid on it.
SiblingsStayIntact ==
    [][\A c \in Children : bet[c] \in Settled /\ bet'[c] # bet[c] =>
        \E r \in Requests : Inside(r, {"reverse"}) /\ run[r].at = c]_vars

\* Every request ends, whatever it waits for and whatever raises in its loop.
EveryRunEnds == \A r \in Requests : run[r] # Idle ~> run[r] = Idle

\* "An idempotent re-run finishes": if from some time on the event is only
\* resolved or voided, and no bets, edits or closes are on their way, then runs
\* that report no failure leave every child RESOLVED for good and no bet
\* pending, though they may not agree on the winner.
OnlySettles == \A r \in Requests : run[r] # Idle => run[r].op \in Settles
Finishing == \E r \in Requests :
    run[r].op \in Settles /\ run[r].todo = <<>> /\ run[r].failed = {}
Finished ==
    /\ \A c \in group : bet[c] # "PENDING"
    /\ derive_event_status \in {"resolved", "void"}
RerunFinishes == <>[]OnlySettles /\ []<>Finishing => <>[]Finished
=============================================================================
