--------------------------- MODULE PolymarketProofs ---------------------------
(***************************************************************************)
(* PolymarketSync pays as AutoResolution promises, for any number of       *)
(* markets, categories and concurrent task runs, and its runs hold the     *)
(* locks they took until those expire.                                     *)
(***************************************************************************)
EXTENDS PolymarketSync, SequenceTheorems, TLAPS

-----------------------------------------------------------------------------
(* The inductive invariant *)

RunRecord == {Idle} \cup PollRun \cup DetectRun

\* What a run may rely on, whatever has happened to the oracle g, the rows w and
\* the deadlines d since it looked: the candidates are due and have a row, a
\* grace period that was over is over, and a confirmed outcome is the oracle's.
Good(x, g, w, d) ==
    /\ x \in RunRecord
    /\ x.op = "poll" => /\ DOMAIN x.got \subseteq x.seen
                        /\ x.got # <<>> => x.todo # <<>>
    /\ x.op = "detect" =>
         /\ DOMAIN x.todo \subseteq d
         /\ \A m \in DOMAIN x.todo : /\ w[m] # NoRow
                                     /\ x.todo[m] = "over" => w[m].grace = "over"
         /\ x.at # None =>
              /\ x.at \in DOMAIN x.todo /\ x.answer # None
              /\ x.answer # "unresolved" => g[x.at].uma = "resolved"
              /\ x.answer \notin {"unresolved", "unclear"} => g[x.at].prices = x.answer

\* The rows, apart from the runs; a market that anyone has bet on has a row.
World ==
    /\ gamma \in [Markets -> Gamma]
    /\ row \in [Markets -> MarketRow \cup {NoRow}]
    /\ due \subseteq Markets
    /\ bet \in [Markets -> {NoBet, Pending} \cup (Authority \X Outcome)]
    /\ keys \subseteq {"settle", "reverse"} \X Markets \X Outcome
    /\ \A m \in Markets : bet[m] # NoBet => row[m] # NoRow

RunsGood == \A r \in Runs : Good(run[r], gamma, row, due)

Locks ==
    /\ lock \in [Kinds -> Runs \cup {None, Dead}]
    /\ late \subseteq {r \in Runs : run[r] # Idle}
    /\ \A k \in Kinds : lock[k] \in Runs => run[lock[k]].op = k
    /\ OnTimeRunHoldsLock

IInv == World /\ run \in [Runs -> RunRecord] /\ RunsGood /\ Locks

LEMMA TypesHold == IInv => TypeOK
BY DEF IInv, World, RunsGood, Good, Locks, RunRecord, TypeOK, Detecting, Todo

-----------------------------------------------------------------------------
(* Runs *)

LEMMA RunFields ==
    ASSUME NEW x \in RunRecord
    PROVE  /\ x.op \in {"idle", "poll", "detect"}
           /\ x = Idle <=> x.op = "idle"
           /\ x.op = "poll" => x \in PollRun
           /\ x.op = "detect" => x \in DetectRun
BY DEF RunRecord, Idle, PollRun, DetectRun

LEMMA DetectFields ==
    ASSUME NEW x \in DetectRun
    PROVE  /\ x = Detect(x.todo, x.at, x.answer)
           /\ DOMAIN x.todo \subseteq Markets
           /\ x.todo \in [DOMAIN x.todo -> Grace]
           /\ x.at \in Markets \cup {None}
           /\ x.answer \in Outcome \cup {"unresolved", "unclear", None}
BY DEF DetectRun, Detect

LEMMA IdleGood ==
    ASSUME NEW g, NEW w, NEW d
    PROVE  Good(Idle, g, w, d)
BY DEF Good, RunRecord, Idle

\* The oracle does not take back what it resolved, rows do not vanish, and
\* neither grace periods nor deadlines come back.
Later(g, w, d, g1, w1, d1) ==
    /\ d \subseteq d1
    /\ \A m \in d : w[m] # NoRow => /\ w1[m] # NoRow
                                    /\ w[m].grace = "over" => w1[m].grace = "over"
    /\ \A m \in d : g[m].uma = "resolved" =>
         /\ g1[m].uma = "resolved"
         /\ g[m].prices # "trading" => g1[m].prices = g[m].prices

(* What a run relies on stays.                                             *)
LEMMA GoodStays ==
    ASSUME NEW x, NEW g, NEW w, NEW d, NEW g1, NEW w1, NEW d1,
           Good(x, g, w, d), Later(g, w, d, g1, w1, d1), d \subseteq Markets
    PROVE  Good(x, g1, w1, d1)
<1>1. CASE x.op # "detect"
  BY <1>1 DEF Good
<1>2. CASE x.op = "detect"
  <2>1. x \in DetectRun
    BY <1>2, RunFields DEF Good
  <2>2. /\ DOMAIN x.todo \subseteq d
        /\ \A m \in DOMAIN x.todo : w[m] # NoRow /\ (x.todo[m] = "over" => w[m].grace = "over")
    BY <1>2 DEF Good
  <2>3. \A m \in DOMAIN x.todo : w1[m] # NoRow /\ (x.todo[m] = "over" => w1[m].grace = "over")
    BY <2>2 DEF Later
  <2>4. x.at # None =>
              /\ x.at \in DOMAIN x.todo /\ x.answer # None
              /\ x.answer # "unresolved" => g1[x.at].uma = "resolved"
              /\ x.answer \notin {"unresolved", "unclear"} => g1[x.at].prices = x.answer
    <3> SUFFICES ASSUME x.at # None
                 PROVE  /\ x.at \in DOMAIN x.todo /\ x.answer # None
                        /\ x.answer # "unresolved" => g1[x.at].uma = "resolved"
                        /\ x.answer \notin {"unresolved", "unclear"} => g1[x.at].prices = x.answer
      OBVIOUS
    <3>1. /\ x.at \in DOMAIN x.todo /\ x.answer # None /\ x.at \in d
          /\ x.answer # "unresolved" => g[x.at].uma = "resolved"
          /\ x.answer \notin {"unresolved", "unclear"} => g[x.at].prices = x.answer
      BY <1>2, <2>2 DEF Good
    <3>2. x.answer \in Outcome \cup {"unresolved", "unclear", None}
      BY <2>1, DetectFields
    <3> QED BY <3>1, <3>2 DEF Later, Outcome
  <2>5. DOMAIN x.todo \subseteq d1
    BY <2>2 DEF Later
  <2> QED BY <1>2, <2>3, <2>4, <2>5 DEF Good
<1> QED BY <1>1, <1>2

\* The step's view of what went on outside the runs.
Onward == Later(gamma, row, due, gamma', row', due')

(* One run takes a step, the world moves on: every run is good.            *)
LEMMA RunStep ==
    ASSUME IInv, Onward, NEW r \in Runs, NEW x, Good(x, gamma', row', due'),
           run' = [run EXCEPT ![r] = x]
    PROVE  run' \in [Runs -> RunRecord] /\ RunsGood'
<1>1. \A q \in Runs : Good(run[q], gamma', row', due')
  BY GoodStays DEF IInv, RunsGood, Onward, World
<1>2. x \in RunRecord
  BY DEF Good
<1>3. \A q \in Runs : run'[q] = IF q = r THEN x ELSE run[q]
  BY DEF IInv
<1>4. run' \in [Runs -> RunRecord]
  BY <1>2 DEF IInv
<1>5. \A q \in Runs : Good(run'[q], gamma', row', due')
  BY <1>1, <1>3
<1> QED BY <1>4, <1>5 DEF RunsGood

LEMMA NoRunSteps ==
    ASSUME IInv, Onward, UNCHANGED run
    PROVE  run' \in [Runs -> RunRecord] /\ RunsGood'
<1>1. \A q \in Runs : Good(run[q], gamma', row', due')
  BY GoodStays DEF IInv, RunsGood, Onward, World
<1> QED BY <1>1 DEF IInv, RunsGood

LEMMA NothingMoves ==
    ASSUME UNCHANGED <<gamma, row, due>>
    PROVE  Onward
BY DEF Onward, Later

LEMMA SameWorld ==
    ASSUME IInv, UNCHANGED <<gamma, row, due, bet, keys>>
    PROVE  World'
BY DEF IInv, World

\* A run goes on in its task, or the locks are left alone.
LEMMA SameLocks ==
    ASSUME IInv, UNCHANGED <<lock, late>>,
           \A r \in Runs : \/ run'[r] = run[r]
                           \/ run[r] # Idle /\ run'[r] # Idle /\ run'[r].op = run[r].op
    PROVE  Locks'
BY DEF IInv, Locks, OnTimeRunHoldsLock

-----------------------------------------------------------------------------
(* Steps of the world: every run stays as it is *)

LEMMA WorldSteps ==
    ASSUME IInv, Onward, World', UNCHANGED <<run, lock, late>>
    PROVE  IInv'
BY NoRunSteps, SameLocks DEF IInv

(* What Polymarket and the oracle may do to a market.                      *)
LEMMA UpstreamMoves ==
    ASSUME IInv, NEW m \in Markets, Upstream(m)
    PROVE  \E c \in BOOLEAN, u \in {"none", "proposed", "resolved"}, p \in Outcome \cup {"trading"} :
              /\ gamma' = [gamma EXCEPT ![m] = [closed |-> c, uma |-> u, prices |-> p]]
              /\ gamma[m].uma = "resolved" => u = "resolved"
              /\ gamma[m].uma = "resolved" /\ gamma[m].prices # "trading" => p = gamma[m].prices
<1>1. gamma \in [Markets -> Gamma]
  BY DEF IInv, World
<1>2. /\ gamma[m] = [closed |-> gamma[m].closed, uma |-> gamma[m].uma, prices |-> gamma[m].prices]
      /\ gamma[m].closed \in BOOLEAN /\ gamma[m].uma \in {"none", "proposed", "resolved"}
      /\ gamma[m].prices \in Outcome \cup {"trading"}
  BY <1>1 DEF Gamma
<1>3. \A c \in BOOLEAN, u \in {"none", "proposed", "resolved"}, p \in Outcome \cup {"trading"} :
        /\ [gamma[m] EXCEPT !.closed = c] = [closed |-> c, uma |-> gamma[m].uma, prices |-> gamma[m].prices]
        /\ [gamma[m] EXCEPT !.uma = u] = [closed |-> gamma[m].closed, uma |-> u, prices |-> gamma[m].prices]
        /\ [gamma[m] EXCEPT !.prices = p] = [closed |-> gamma[m].closed, uma |-> gamma[m].uma, prices |-> p]
  BY <1>1 DEF Gamma
<1>4. CASE gamma' = [gamma EXCEPT ![m].closed = TRUE]
  <2>1. gamma' = [gamma EXCEPT ![m] = [closed |-> TRUE, uma |-> gamma[m].uma, prices |-> gamma[m].prices]]
    BY <1>4, <1>3
  <2> QED BY <2>1, <1>2
<1>5. CASE gamma[m].uma = "none" /\ gamma' = [gamma EXCEPT ![m].uma = "proposed"]
  <2>1. gamma' = [gamma EXCEPT ![m] = [closed |-> gamma[m].closed, uma |-> "proposed", prices |-> gamma[m].prices]]
    BY <1>5, <1>3
  <2> QED BY <2>1, <1>2, <1>5
<1>6. CASE /\ gamma[m].uma = "proposed"
           /\ \E u \in {"none", "resolved"} : gamma' = [gamma EXCEPT ![m].uma = u]
  <2>1. PICK u \in {"none", "resolved"} : gamma' = [gamma EXCEPT ![m].uma = u]
    BY <1>6
  <2>2. gamma' = [gamma EXCEPT ![m] = [closed |-> gamma[m].closed, uma |-> u, prices |-> gamma[m].prices]]
    BY <2>1, <1>3
  <2> QED BY <2>2, <1>2, <1>6
<1>7. CASE ~Clear(m) /\ \E p \in Winners \cup {"trading"} :
             gamma[m].prices # p /\ gamma' = [gamma EXCEPT ![m].prices = p]
  <2>1. PICK p \in Winners \cup {"trading"} : gamma' = [gamma EXCEPT ![m].prices = p]
    BY <1>7
  <2>2. gamma' = [gamma EXCEPT ![m] = [closed |-> gamma[m].closed, uma |-> gamma[m].uma, prices |-> p]]
    BY <2>1, <1>3, OutcomesAssumption
  <2> QED BY <2>2, <1>2, <1>7, OutcomesAssumption DEF Clear
<1> QED BY <1>4, <1>5, <1>6, <1>7 DEF Upstream

LEMMA UpstreamSteps ==
    ASSUME IInv, NEW m \in Markets, Upstream(m)
    PROVE  IInv'
<1>1. PICK c \in BOOLEAN, u \in {"none", "proposed", "resolved"}, p \in Outcome \cup {"trading"} :
         /\ gamma' = [gamma EXCEPT ![m] = [closed |-> c, uma |-> u, prices |-> p]]
         /\ gamma[m].uma = "resolved" => u = "resolved"
         /\ gamma[m].uma = "resolved" /\ gamma[m].prices # "trading" => p = gamma[m].prices
  BY UpstreamMoves
<1>2. [closed |-> c, uma |-> u, prices |-> p] \in Gamma
  BY DEF Gamma
<1>3. World' /\ UNCHANGED <<row, due>>
  BY <1>1, <1>2 DEF IInv, World, Upstream
<1>4. Onward
  BY <1>1, <1>3 DEF IInv, World, Onward, Later
<1> QED BY <1>3, <1>4, WorldSteps DEF Upstream

LEMMA DeadlineSteps ==
    ASSUME IInv, NEW m \in Markets, DeadlinePasses(m)
    PROVE  IInv'
<1>1. World'
  BY DEF IInv, World, DeadlinePasses
<1>2. Onward
  BY DEF Onward, Later, DeadlinePasses
<1> QED BY <1>1, <1>2, WorldSteps DEF DeadlinePasses

\* A row is a row, or not there.
LEMMA RowFields ==
    ASSUME IInv, NEW m \in Markets
    PROVE  /\ row[m].status \in Status => row[m] \in MarketRow
           /\ row[m].grace # "none" => row[m] \in MarketRow
           /\ row[m] # NoRow => row[m] \in MarketRow
           /\ row[m].grace \in Grace
BY DEF IInv, World, NoRow, Status, MarketRow, Grace

\* A row that is changed stays a row, and keeps a grace period that is over.
LEMMA RowsMove ==
    ASSUME IInv, UNCHANGED <<gamma, due>>,
           row' \in [Markets -> MarketRow \cup {NoRow}],
           \A m \in Markets : row[m] # NoRow =>
             /\ row'[m] # NoRow
             /\ row[m].grace = "over" => row'[m].grace = "over"
    PROVE  Onward
BY DEF IInv, World, Onward, Later

LEMMA RowIsNoRow == NoRow \notin MarketRow
BY DEF NoRow, MarketRow, Status

LEMMA GraceSteps ==
    ASSUME IInv, NEW m \in Markets, GraceElapses(m)
    PROVE  IInv'
<1>1. row[m] \in MarketRow
  BY RowFields DEF GraceElapses
<1>2. [row[m] EXCEPT !.grace = "over"] \in MarketRow
  BY <1>1 DEF MarketRow, Grace
<1>3. row' = [row EXCEPT ![m] = [row[m] EXCEPT !.grace = "over"]]
  BY DEF GraceElapses
<1>4. /\ row' \in [Markets -> MarketRow \cup {NoRow}]
      /\ \A n \in Markets : row[n] # NoRow => row'[n] # NoRow
      /\ \A n \in Markets : row[n].grace = "over" => row'[n].grace = "over"
  BY <1>1, <1>2, <1>3, RowIsNoRow DEF IInv, World, MarketRow
<1>5. World'
  BY <1>4 DEF IInv, World, GraceElapses
<1>6. Onward
  BY <1>4, RowsMove DEF GraceElapses
<1> QED BY <1>5, <1>6, WorldSteps DEF GraceElapses

LEMMA PlaceSteps ==
    ASSUME IInv, NEW m \in Markets, place_bet(m)
    PROVE  IInv'
<1>1. row[m] # NoRow
  BY DEF place_bet, NoRow
<1>2. World'
  BY <1>1 DEF IInv, World, place_bet
<1>3. Onward
  BY NothingMoves DEF place_bet
<1> QED BY <1>2, <1>3, WorldSteps DEF place_bet

-----------------------------------------------------------------------------
(* Settling, reversing, closing *)

(* A settlement leaves rows, bets and keys behind, and no row or grace     *)
(* period is lost.                                                         *)
LEMMA Settling ==
    ASSUME IInv, NEW m \in Markets, NEW w \in Outcome, NEW by \in Authority,
           row[m] # NoRow, resolve_market(m, w, by), UNCHANGED <<gamma, due>>
    PROVE  World' /\ Onward /\ \A n \in Markets : row'[n].grace = row[n].grace
<1>1. row[m] \in MarketRow
  BY RowFields
<1>2. /\ [row[m] EXCEPT !.status = "RESOLVED", !.winner = w] \in MarketRow
      /\ [row[m] EXCEPT !.status = "RESOLVED", !.winner = w].grace = row[m].grace
  BY <1>1 DEF MarketRow, Status
<1>3. \/ row' = row
      \/ row' = [row EXCEPT ![m] = [row[m] EXCEPT !.status = "RESOLVED", !.winner = w]]
  BY DEF resolve_market
<1>4. /\ row' \in [Markets -> MarketRow \cup {NoRow}]
      /\ \A n \in Markets : row[n] # NoRow => row'[n] # NoRow
      /\ \A n \in Markets : row'[n].grace = row[n].grace
  BY <1>2, <1>3, RowIsNoRow DEF IInv, World
<1>5. /\ bet' \in [Markets -> {NoBet, Pending} \cup (Authority \X Outcome)]
      /\ \A n \in Markets : bet'[n] # NoBet => bet[n] # NoBet \/ n = m
      /\ keys' \subseteq {"settle", "reverse"} \X Markets \X Outcome
  BY DEF IInv, World, resolve_market, SettleKey
<1>6. World'
  BY <1>4, <1>5 DEF IInv, World
<1>7. Onward
  BY <1>4, RowsMove
<1> QED BY <1>4, <1>6, <1>7

LEMMA ForceSteps ==
    ASSUME IInv, NEW m \in Markets, NEW w \in Overrides, ForceSettle(m, w)
    PROVE  IInv'
<1>1. World' /\ Onward
  BY Settling, OutcomesAssumption DEF ForceSettle, Authority
<1> QED BY <1>1, WorldSteps DEF ForceSettle

(* A reversal finds a bet that was paid, and leaves the graces alone.      *)
LEMMA ReverseRows ==
    ASSUME IInv, NEW m \in Markets, reverse_settlement(m)
    PROVE  /\ bet[m] \in Authority \X Outcome /\ bet[m][2] \in Outcome
           /\ row' \in [Markets -> MarketRow \cup {NoRow}]
           /\ \A n \in Markets : row[n] # NoRow => row'[n] # NoRow
           /\ row'[m] # NoRow
           /\ \A n \in Markets : row'[n].grace = row[n].grace
<1>1. bet[m] \in Authority \X Outcome /\ bet[m][2] \in Outcome
  BY DEF IInv, World, reverse_settlement, Paid
<1>2. row[m] \in MarketRow
  BY RowFields DEF IInv, World, reverse_settlement, Paid
<1>3. [row[m] EXCEPT !.status = "CLOSED"] \in MarketRow
  BY <1>2 DEF MarketRow, Status
<1>4. row' = [row EXCEPT ![m] = [row[m] EXCEPT !.status = "CLOSED"]]
  BY DEF reverse_settlement
<1>5. /\ row' \in [Markets -> MarketRow \cup {NoRow}]
      /\ \A n \in Markets : row[n] # NoRow => row'[n] # NoRow
      /\ row'[m] # NoRow
      /\ \A n \in Markets : row'[n].grace = row[n].grace
  BY <1>2, <1>3, <1>4, RowIsNoRow DEF IInv, World, MarketRow
<1> QED BY <1>1, <1>5

LEMMA ReverseSteps ==
    ASSUME IInv, NEW m \in Markets, reverse_settlement(m)
    PROVE  IInv'
<1>1. bet[m][2] \in Outcome
  BY ReverseRows
<1>2. /\ row' \in [Markets -> MarketRow \cup {NoRow}]
      /\ \A n \in Markets : row[n] # NoRow => row'[n] # NoRow
      /\ row'[m] # NoRow
      /\ \A n \in Markets : row'[n].grace = row[n].grace
  BY ReverseRows
<1>3. /\ bet' \in [Markets -> {NoBet, Pending} \cup (Authority \X Outcome)]
      /\ \A n \in Markets : bet'[n] # NoBet => bet[n] # NoBet \/ n = m
      /\ keys' \subseteq {"settle", "reverse"} \X Markets \X Outcome
  BY <1>1 DEF IInv, World, reverse_settlement
<1>4. World'
  BY <1>2, <1>3 DEF IInv, World, reverse_settlement
<1>5. Onward
  BY <1>2, RowsMove DEF reverse_settlement
<1> QED BY <1>4, <1>5, WorldSteps DEF reverse_settlement

(* A close finds a row and changes its status alone.                       *)
LEMMA CloseRows ==
    ASSUME IInv, NEW m \in Markets, close_market(m)
    PROVE  /\ row' \in [Markets -> MarketRow \cup {NoRow}]
           /\ \A n \in Markets : row[n] # NoRow => row'[n] # NoRow
           /\ \A n \in Markets : row'[n].grace = row[n].grace
<1>1. row[m] \in MarketRow
  BY RowFields DEF IInv, World, close_market, NoRow
<1>2. /\ [row[m] EXCEPT !.status = "CLOSED"] \in MarketRow
      /\ [row[m] EXCEPT !.status = "CLOSED"].grace = row[m].grace
  BY <1>1 DEF MarketRow, Status
<1>3. row' = [row EXCEPT ![m] = [row[m] EXCEPT !.status = "CLOSED"]]
  BY DEF close_market
<1> QED BY <1>2, <1>3, RowIsNoRow DEF IInv, World

LEMMA CloseSteps ==
    ASSUME IInv, NEW m \in Markets, close_market(m)
    PROVE  IInv'
<1>1. World'
  BY CloseRows DEF IInv, World, close_market
<1>2. Onward
  BY CloseRows, RowsMove DEF close_market
<1> QED BY <1>1, <1>2, WorldSteps DEF close_market

-----------------------------------------------------------------------------
(* Locks *)

LEMMA ExpirySteps ==
    ASSUME IInv, NEW k \in Kinds, LockExpires(k)
    PROVE  IInv'
<1>1. Onward /\ World'
  BY NothingMoves, SameWorld DEF LockExpires
<1>2. run' \in [Runs -> RunRecord] /\ RunsGood'
  BY <1>1, NoRunSteps DEF LockExpires
<1>3. lock' = [lock EXCEPT ![k] = None] /\ late' = late \cup ({lock[k]} \cap Runs) /\ run' = run
  BY DEF LockExpires
<1>4. lock[k] \in Runs => run[lock[k]] # Idle
  BY DEF IInv, Locks, Idle, Kinds
<1>5. late' \subseteq {r \in Runs : run'[r] # Idle}
  BY <1>3, <1>4 DEF IInv, Locks
<1>6. lock' \in [Kinds -> Runs \cup {None, Dead}]
  BY <1>3 DEF IInv, Locks
<1>7. \A j \in Kinds : lock'[j] \in Runs => run'[lock'[j]].op = j
  BY <1>3, NoneAssumption DEF IInv, Locks
<1>8. OnTimeRunHoldsLock'
  <2> SUFFICES ASSUME NEW r \in Runs, run'[r] # Idle, r \notin late'
               PROVE  lock'[run'[r].op] = r
    BY DEF OnTimeRunHoldsLock
  <2>1. lock[run[r].op] = r /\ r # lock[k]
    BY <1>3 DEF IInv, Locks, OnTimeRunHoldsLock
  <2>2. run[r].op # k
    BY <2>1
  <2>3. run[r].op \in Kinds
    BY <1>3, RunFields DEF IInv, Kinds
  <2> QED BY <1>3, <2>1, <2>2, <2>3 DEF IInv, Locks
<1> QED BY <1>1, <1>2, <1>5, <1>6, <1>7, <1>8 DEF IInv, Locks

(* A run that finds the lock free takes it.                                *)
LEMMA StartLocks ==
    ASSUME IInv, NEW r \in Runs, run[r] = Idle, NEW kind \in Kinds, NEW x,
           x.op = kind, Acquired(r, kind), run' = [run EXCEPT ![r] = x], UNCHANGED late
    PROVE  Locks'
<1>1. /\ lock[kind] = None /\ lock' = [lock EXCEPT ![kind] = r]
      /\ run'[r] = x /\ \A q \in Runs \ {r} : run'[q] = run[q]
      /\ x # Idle
  BY DEF Acquired, IInv, Idle, Kinds
<1>2. lock' \in [Kinds -> Runs \cup {None, Dead}]
  BY <1>1 DEF IInv, Locks
<1>3. late' \subseteq {q \in Runs : run'[q] # Idle}
  BY <1>1 DEF IInv, Locks
<1>4. \A k \in Kinds : lock[k] # r
  BY DEF IInv, Locks, Idle, Kinds
<1>5. \A k \in Kinds : lock'[k] \in Runs => run'[lock'[k]].op = k
  BY <1>1, <1>4 DEF IInv, Locks
<1>6. OnTimeRunHoldsLock'
  <2> SUFFICES ASSUME NEW q \in Runs, run'[q] # Idle, q \notin late'
               PROVE  lock'[run'[q].op] = q
    BY DEF OnTimeRunHoldsLock
  <2>1. CASE q = r
    BY <1>1, <2>1 DEF IInv, Locks
  <2>2. CASE q # r
    <3>1. lock[run[q].op] = q /\ run[q].op \in Kinds
      BY <1>1, <2>2, RunFields DEF IInv, Locks, OnTimeRunHoldsLock, Kinds
    <3>2. run[q].op # kind
      BY <1>1, <3>1, NoneAssumption
    <3> QED BY <1>1, <2>2, <3>1, <3>2 DEF IInv, Locks
  <2> QED BY <2>1, <2>2
<1> QED BY <1>2, <1>3, <1>5, <1>6 DEF Locks

(* A run that is over lets go of the lock, unless it has lost it.          *)
LEMMA EndSteps ==
    ASSUME IInv, NEW r \in Runs, End(r), UNCHANGED <<gamma, row, due, bet, keys>>
    PROVE  IInv'
<1>1. Onward /\ World'
  BY NothingMoves, SameWorld
<1>2. run' \in [Runs -> RunRecord] /\ RunsGood'
  BY <1>1, RunStep, IdleGood DEF End
<1> DEFINE kind == run[r].op
<1>3. /\ kind \in Kinds
      /\ lock' = [lock EXCEPT ![kind] = IF @ = r THEN None ELSE @]
      /\ run'[r] = Idle /\ \A q \in Runs \ {r} : run'[q] = run[q]
      /\ late' = late \ {r}
  BY RunFields DEF End, Released, IInv, Kinds
<1> HIDE DEF kind
<1>4. \A k \in Kinds : lock'[k] = IF k = kind /\ lock[k] = r THEN None ELSE lock[k]
  BY <1>3 DEF IInv, Locks
<1>5. lock' \in [Kinds -> Runs \cup {None, Dead}]
  BY <1>3, <1>4 DEF IInv, Locks
<1>6. late' \subseteq {q \in Runs : run'[q] # Idle}
  BY <1>3 DEF IInv, Locks
<1>7. \A k \in Kinds : lock[k] = r => k = kind
  BY DEF IInv, Locks, kind
<1>8. \A k \in Kinds : lock'[k] # r
  BY <1>4, <1>7, NoneAssumption
<1>9. \A k \in Kinds : lock'[k] \in Runs => run'[lock'[k]].op = k
  BY <1>3, <1>4, <1>8, NoneAssumption DEF IInv, Locks
<1>10. OnTimeRunHoldsLock'
  <2> SUFFICES ASSUME NEW q \in Runs, run'[q] # Idle, q \notin late'
               PROVE  lock'[run'[q].op] = q
    BY DEF OnTimeRunHoldsLock
  <2>1. q # r
    BY <1>3
  <2>2. lock[run[q].op] = q /\ run[q].op \in Kinds
    BY <1>3, <2>1, RunFields DEF IInv, Locks, OnTimeRunHoldsLock, Kinds
  <2> QED BY <1>3, <1>4, <2>1, <2>2
<1> QED BY <1>1, <1>2, <1>5, <1>6, <1>9, <1>10 DEF IInv, Locks

(* The lock of a dead run is nobody's.                                     *)
LEMMA CrashSteps ==
    ASSUME IInv, NEW r \in Runs, Crash(r)
    PROVE  IInv'
<1>1. Onward /\ World'
  BY NothingMoves, SameWorld DEF Crash
<1>2. run' \in [Runs -> RunRecord] /\ RunsGood'
  BY <1>1, RunStep, IdleGood DEF Crash
<1>3. /\ run'[r] = Idle /\ \A q \in Runs \ {r} : run'[q] = run[q]
      /\ late' = late \ {r}
      /\ \A k \in Kinds : lock'[k] = IF lock[k] = r THEN Dead ELSE lock[k]
      /\ lock' \in [Kinds -> Runs \cup {None, Dead}]
  BY DEF Crash, IInv, Locks
<1>4. late' \subseteq {q \in Runs : run'[q] # Idle}
  BY <1>3 DEF IInv, Locks
<1>5. \A k \in Kinds : lock'[k] \in Runs => run'[lock'[k]].op = k
  BY <1>3, NoneAssumption DEF IInv, Locks
<1>6. OnTimeRunHoldsLock'
  <2> SUFFICES ASSUME NEW q \in Runs, run'[q] # Idle, q \notin late'
               PROVE  lock'[run'[q].op] = q
    BY DEF OnTimeRunHoldsLock
  <2>1. q # r
    BY <1>3
  <2>2. lock[run[q].op] = q /\ run[q].op \in Kinds
    BY <1>3, <2>1, RunFields DEF IInv, Locks, OnTimeRunHoldsLock, Kinds
  <2> QED BY <1>3, <2>1, <2>2
<1> QED BY <1>1, <1>2, <1>3, <1>4, <1>5, <1>6 DEF IInv, Locks

-----------------------------------------------------------------------------
(* Steps of the tasks *)

(* A run takes a step in its task.                                         *)
LEMMA StepInTask ==
    ASSUME IInv, Onward, World', NEW r \in Runs, run[r] # Idle,
           NEW x, Good(x, gamma', row', due'), x.op = run[r].op,
           run' = [run EXCEPT ![r] = x], UNCHANGED <<lock, late>>
    PROVE  IInv'
<1>1. run' \in [Runs -> RunRecord] /\ RunsGood'
  BY RunStep
<1>2. x # Idle
  BY RunFields DEF IInv, Good
<1>3. run'[r] = x /\ \A q \in Runs \ {r} : run'[q] = run[q]
  BY DEF IInv
<1>4. Locks'
  BY <1>2, <1>3, SameLocks
<1> QED BY <1>1, <1>4 DEF IInv

LEMMA NoAnswers == <<>> \in [{} -> Status] /\ DOMAIN <<>> = {}
OBVIOUS

(* A poll between two categories.                                          *)
LEMMA PollGood ==
    ASSUME NEW todo \in Seq(SUBSET Markets), NEW seen \in SUBSET Markets,
           NEW g, NEW w, NEW d
    PROVE  Good(Poll(todo, seen, <<>>), g, w, d)
<1>1. Poll(todo, seen, <<>>) \in PollRun
  BY NoAnswers DEF Poll, PollRun
<1> QED BY <1>1, NoAnswers DEF Good, RunRecord, Poll

LEMMA PollFields ==
    ASSUME NEW x \in PollRun
    PROVE  /\ x.todo \in Seq(SUBSET Markets) /\ x.seen \in SUBSET Markets
           /\ x.got \in [DOMAIN x.got -> Status] /\ DOMAIN x.got \subseteq Markets
BY DEF PollRun

\* The next category is good, whatever became of this one.
LEMMA NextGood ==
    ASSUME IInv, NEW r \in Runs, run[r].op = "poll", run[r].todo # <<>>,
           NEW seen \in SUBSET Markets, NEW g, NEW w, NEW d
    PROVE  Good(NextCategory(r, seen), g, w, d) /\ NextCategory(r, seen).op = "poll"
<1>1. run[r] \in PollRun
  BY RunFields DEF IInv
<1>2. run[r].todo \in Seq(SUBSET Markets)
  BY <1>1, PollFields
<1>3. Tail(run[r].todo) \in Seq(SUBSET Markets)
  BY <1>2, HeadTailProperties
<1>4. Good(NextCategory(r, seen), g, w, d)
  BY <1>3, PollGood DEF NextCategory
<1> QED BY <1>4 DEF NextCategory, Poll

LEMMA PollStartSteps ==
    ASSUME IInv, NEW r \in Runs, PollStart(r)
    PROVE  IInv'
<1> DEFINE x == Poll(Categories, {}, <<>>)
<1>1. World' /\ Onward
  BY NothingMoves, SameWorld DEF PollStart
<1>2. Good(x, gamma', row', due') /\ x.op = "poll"
  BY CategoriesAssumption, PollGood DEF Poll
<1>3. run[r] = Idle /\ Acquired(r, "poll") /\ run' = [run EXCEPT ![r] = x] /\ UNCHANGED late
  BY DEF PollStart
<1> HIDE DEF x
<1>4. run' \in [Runs -> RunRecord] /\ RunsGood'
  BY <1>1, <1>2, <1>3, RunStep
<1>5. Locks'
  BY <1>2, <1>3, StartLocks DEF Kinds
<1> QED BY <1>1, <1>4, <1>5 DEF IInv

LEMMA DeriveStatusType == \A g \in Gamma : _derive_status(g) \in Status
BY DEF Gamma, _derive_status, Status

LEMMA PollFetchSteps ==
    ASSUME IInv, NEW r \in Runs, PollFetch(r)
    PROVE  IInv'
<1>1. World' /\ Onward /\ run[r] # Idle
  BY NothingMoves, SameWorld DEF PollFetch, Idle
<1>2. run[r] \in PollRun
  BY RunFields DEF IInv, PollFetch
<1>3. /\ run[r].todo \in Seq(SUBSET Markets) /\ run[r].seen \in SUBSET Markets
      /\ run[r].todo # <<>>
  BY <1>2, PollFields DEF PollFetch
<1>4. PICK listed \in fetch_events(Head(run[r].todo)) : \E curated \in SUBSET (listed \ run[r].seen) :
         run' = [run EXCEPT ![r] =
                   IF curated = {} THEN NextCategory(r, run[r].seen \cup listed)
                   ELSE Poll(run[r].todo, run[r].seen \cup listed,
                             [m \in curated |-> _derive_status(gamma[m])])]
  BY DEF PollFetch
<1>5. PICK curated \in SUBSET (listed \ run[r].seen) :
         run' = [run EXCEPT ![r] =
                   IF curated = {} THEN NextCategory(r, run[r].seen \cup listed)
                   ELSE Poll(run[r].todo, run[r].seen \cup listed,
                             [m \in curated |-> _derive_status(gamma[m])])]
  BY <1>4
<1> DEFINE seen == run[r].seen \cup listed
           answers == [m \in curated |-> _derive_status(gamma[m])]
           x == IF curated = {} THEN NextCategory(r, seen) ELSE Poll(run[r].todo, seen, answers)
<1>6. Head(run[r].todo) \in SUBSET Markets
  BY <1>3, HeadTailProperties
<1>7. seen \in SUBSET Markets /\ curated \subseteq seen
  BY <1>3, <1>6 DEF fetch_events
<1>8. answers \in [curated -> Status] /\ DOMAIN answers = curated
  BY <1>7, DeriveStatusType DEF IInv, World
<1>9. Good(x, gamma', row', due') /\ x.op = "poll"
  <2>1. CASE curated = {}
    BY <1>3, <1>7, <2>1, NextGood DEF PollFetch
  <2>2. CASE curated # {}
    <3>1. Poll(run[r].todo, seen, answers) \in PollRun
      BY <1>3, <1>7, <1>8 DEF Poll, PollRun
    <3> QED BY <1>3, <1>7, <1>8, <2>2, <3>1 DEF Good, RunRecord, Poll
  <2> QED BY <2>1, <2>2
<1>10. run' = [run EXCEPT ![r] = x] /\ UNCHANGED <<lock, late>> /\ run[r].op = "poll"
  BY <1>5 DEF PollFetch
<1> HIDE DEF x
<1> QED BY <1>1, <1>9, <1>10, StepInTask

(* What the commit of a category does to the rows: it leaves the graces.   *)
LEMMA PollCommitRows ==
    ASSUME IInv, NEW r \in Runs, PollCommit(r)
    PROVE  /\ run[r].seen \in SUBSET Markets /\ run[r].todo # <<>>
           /\ row' \in [Markets -> MarketRow \cup {NoRow}]
           /\ \A m \in Markets : row[m] # NoRow => row'[m] # NoRow
           /\ \A m \in Markets : row'[m].grace = row[m].grace
<1>1. run[r].op = "poll" /\ run[r].got # <<>>
  BY DEF PollCommit
<1>2. run[r] \in PollRun
  BY <1>1, RunFields DEF IInv
<1>3. /\ run[r].seen \in SUBSET Markets /\ run[r].got \in [DOMAIN run[r].got -> Status]
      /\ DOMAIN run[r].got \subseteq Markets
      /\ run[r].todo # <<>>
  BY <1>1, <1>2, PollFields DEF IInv, RunsGood, Good
<1>4. PICK upserted \in SUBSET DOMAIN run[r].got :
        row' = [m \in Markets |-> IF m \in upserted
                                  THEN [row[m] EXCEPT !.status = run[r].got[m]] ELSE row[m]]
  BY DEF PollCommit, _upsert_one_market
<1>5. \A m \in Markets, s \in Status :
        /\ [row[m] EXCEPT !.status = s] \in MarketRow
        /\ [row[m] EXCEPT !.status = s].grace = row[m].grace
  <2> TAKE m \in Markets, s \in Status
  <2>1. row[m] \in [status : Status \cup {"ABSENT"}, winner : Outcome \cup {None}, grace : Grace]
    BY DEF IInv, World, MarketRow, NoRow, Grace
  <2> QED BY <2>1 DEF MarketRow
<1>6. \A m \in Markets : m \in upserted => row'[m] \in MarketRow /\ row'[m].grace = row[m].grace
  BY <1>3, <1>4, <1>5
<1>7. \A m \in Markets : m \notin upserted => row'[m] = row[m]
  BY <1>4
<1>8. \A m \in Markets : row'[m] \in MarketRow \cup {NoRow}
  BY <1>6, <1>7 DEF IInv, World
<1> QED BY <1>3, <1>4, <1>6, <1>7, <1>8, RowIsNoRow

LEMMA PollCommitSteps ==
    ASSUME IInv, NEW r \in Runs, PollCommit(r)
    PROVE  IInv'
<1>1. run[r].op = "poll" /\ run[r] # Idle
  BY DEF PollCommit, Idle
<1>2. World'
  BY PollCommitRows DEF IInv, World, PollCommit
<1>3. Onward
  BY PollCommitRows, RowsMove DEF PollCommit
<1> DEFINE x == NextCategory(r, run[r].seen)
<1>4. Good(x, gamma', row', due') /\ x.op = "poll"
  BY <1>1, PollCommitRows, NextGood
<1>5. run' = [run EXCEPT ![r] = x] /\ UNCHANGED <<lock, late>>
  BY DEF PollCommit
<1> HIDE DEF x
<1> QED BY <1>1, <1>2, <1>3, <1>4, <1>5, StepInTask

LEMMA PollFailSteps ==
    ASSUME IInv, NEW r \in Runs, PollFail(r)
    PROVE  IInv'
<1>1. World' /\ Onward /\ run[r] # Idle /\ run[r].op = "poll" /\ run[r].todo # <<>>
  BY NothingMoves, SameWorld DEF PollFail, Idle
<1>2. run[r].seen \in SUBSET Markets
  BY <1>1, RunFields, PollFields DEF IInv
<1> DEFINE x == NextCategory(r, run[r].seen)
<1>3. Good(x, gamma', row', due') /\ x.op = "poll"
  BY <1>1, <1>2, NextGood
<1>4. run' = [run EXCEPT ![r] = x] /\ UNCHANGED <<lock, late>>
  BY DEF PollFail
<1> HIDE DEF x
<1> QED BY <1>1, <1>3, <1>4, StepInTask

-----------------------------------------------------------------------------
(* The detection *)

LEMMA DetectStartSteps ==
    ASSUME IInv, NEW r \in Runs, DetectStart(r)
    PROVE  IInv'
<1> DEFINE candidates == {m \in due : row[m].status \in {"OPEN", "CLOSED"}}
           todo == [m \in candidates |-> row[m].grace]
           x == Detect(todo, None, None)
<1>1. World' /\ Onward
  BY NothingMoves, SameWorld DEF DetectStart, DetectStartOn
<1>2. candidates \subseteq Markets /\ \A m \in candidates : row[m] # NoRow /\ row[m].grace \in Grace
  BY RowFields DEF IInv, World, NoRow
<1>3. /\ todo \in [candidates -> Grace] /\ DOMAIN todo = candidates
      /\ \A m \in candidates : todo[m] = row[m].grace
  BY <1>2
<1>4. UNCHANGED <<row, due, gamma>> /\ candidates \subseteq due
  BY DEF DetectStart, DetectStartOn
<1> HIDE DEF candidates, todo
<1>5. x \in DetectRun /\ x.op = "detect" /\ x.todo = todo /\ x.at = None
  BY <1>2, <1>3 DEF DetectRun, Detect
<1>6. Good(x, gamma', row', due')
  BY <1>2, <1>3, <1>4, <1>5 DEF Good, RunRecord
<1>7. run[r] = Idle /\ Acquired(r, "detect") /\ run' = [run EXCEPT ![r] = x] /\ UNCHANGED late
  BY DEF DetectStart, DetectStartOn, candidates, todo
<1> HIDE DEF x
<1>8. run' \in [Runs -> RunRecord] /\ RunsGood'
  BY <1>1, <1>6, <1>7, RunStep
<1>9. Locks'
  BY <1>5, <1>7, StartLocks DEF Kinds
<1> QED BY <1>1, <1>8, <1>9 DEF IInv

\* A candidate that is dealt with leaves the loop, in whatever world follows.
LEMMA LeavesGood ==
    ASSUME IInv, Onward, NEW r \in Runs, Detecting(r), NEW m
    PROVE  Good(Leaves(r, m), gamma', row', due') /\ Leaves(r, m).op = "detect"
<1>1. Good(run[r], gamma', row', due')
  BY GoodStays DEF IInv, RunsGood, Onward, World
<1>2. run[r] \in DetectRun
  BY RunFields DEF IInv, Detecting
<1> DEFINE rest == [n \in Todo(r) \ {m} |-> run[r].todo[n]]
<1>3. /\ run[r].todo \in [Todo(r) -> Grace] /\ Todo(r) \subseteq Markets
      /\ rest \in [Todo(r) \ {m} -> Grace] /\ DOMAIN rest = Todo(r) \ {m}
      /\ \A n \in DOMAIN rest : rest[n] = run[r].todo[n]
  BY <1>2, DetectFields DEF Todo
<1> HIDE DEF rest
<1> DEFINE x == Detect(rest, None, None)
<1>4. x \in DetectRun /\ x.op = "detect" /\ x.todo = rest /\ x.at = None
  BY <1>3 DEF DetectRun, Detect
<1> HIDE DEF x
<1>5. Good(x, gamma', row', due')
  BY <1>1, <1>3, <1>4 DEF Good, RunRecord, Detecting, Todo
<1> QED BY <1>4, <1>5 DEF x, rest, Leaves

(* A candidate leaves the loop and the world moves on.                     *)
LEMMA LeaveSteps ==
    ASSUME IInv, Onward, World', NEW r \in Runs, Detecting(r), NEW m,
           run' = [run EXCEPT ![r] = Leaves(r, m)], UNCHANGED <<lock, late>>
    PROVE  IInv'
<1>1. Good(Leaves(r, m), gamma', row', due') /\ Leaves(r, m).op = run[r].op /\ run[r] # Idle
  BY LeavesGood DEF Detecting, Idle
<1> QED BY <1>1, StepInTask

\* A clear answer is what the oracle said.
LEMMA VerdictIsTheOracles ==
    ASSUME NEW g \in Gamma
    PROVE  /\ Verdict(g) \in Outcome \cup {"unresolved", "unclear"}
           /\ Verdict(g) # "unresolved" => g.uma = "resolved"
           /\ Verdict(g) \notin {"unresolved", "unclear"} => g.prices = Verdict(g)
BY DEF Gamma, Verdict, _derive_status, _map_winning_outcome_id, Outcome

LEMMA AnswerFields ==
    ASSUME NEW x \in DetectRun, NEW m \in Markets,
           NEW v \in Outcome \cup {"unresolved", "unclear"}
    PROVE  [x EXCEPT !.at = m, !.answer = v] = Detect(x.todo, m, v)
<1> DEFINE y == [x EXCEPT !.at = m]
<1>1. y \in DetectRun /\ y = Detect(x.todo, m, x.answer)
  BY DEF DetectRun, Detect
<1>2. y.todo = x.todo /\ y.at = m
  BY <1>1 DEF Detect
<1>3. [x EXCEPT !.at = m, !.answer = v] = [y EXCEPT !.answer = v]
  BY DEF DetectRun
<1> HIDE DEF y
<1>4. [y EXCEPT !.answer = v] = Detect(y.todo, y.at, v)
  BY <1>1 DEF DetectRun, Detect
<1> QED BY <1>2, <1>3, <1>4

LEMMA DetectFetchSteps ==
    ASSUME IInv, NEW r \in Runs, NEW m \in Markets, DetectFetch(r, m)
    PROVE  IInv'
<1>1. World' /\ Onward /\ Detecting(r) /\ run[r] # Idle /\ m \in Todo(r)
  BY NothingMoves, SameWorld DEF DetectFetch, Detecting, Idle
<1>2. run[r] \in DetectRun
  BY <1>1, RunFields DEF IInv, Detecting
<1>3. CASE run' = [run EXCEPT ![r] = Leaves(r, m)]
  BY <1>1, <1>3, LeaveSteps DEF DetectFetch
<1>4. CASE run' = [run EXCEPT ![r].at = m, ![r].answer = Verdict(gamma[m])]
  <2> DEFINE x == Detect(run[r].todo, m, Verdict(gamma[m]))
  <2>1. /\ Verdict(gamma[m]) \in Outcome \cup {"unresolved", "unclear"}
        /\ Verdict(gamma[m]) # "unresolved" => gamma[m].uma = "resolved"
        /\ Verdict(gamma[m]) \notin {"unresolved", "unclear"} => gamma[m].prices = Verdict(gamma[m])
    BY VerdictIsTheOracles DEF IInv, World
  <2>2. run' = [run EXCEPT ![r] = x]
    <3>1. [run[r] EXCEPT !.at = m, !.answer = Verdict(gamma[m])] = x
      BY <1>2, <2>1, AnswerFields
    <3> QED BY <1>4, <3>1 DEF IInv
  <2>3. /\ x.op = "detect" /\ x.todo = run[r].todo /\ x.at = m /\ x.answer = Verdict(gamma[m])
        /\ x \in DetectRun
    BY <1>2, <2>1 DEF Detect, DetectRun
  <2>4. UNCHANGED <<gamma, row, due, lock, late>> /\ Good(run[r], gamma, row, due)
    BY DEF DetectFetch, IInv, RunsGood
  <2> HIDE DEF x
  <2>5. Verdict(gamma[m]) # None
    BY <2>1, NoneAssumption
  <2>6. Good(x, gamma', row', due')
    BY <1>1, <2>1, <2>3, <2>4, <2>5 DEF Good, RunRecord, Todo, Detecting
  <2> QED BY <1>1, <2>2, <2>3, <2>4, <2>6, StepInTask DEF Detecting
<1> QED BY <1>3, <1>4 DEF DetectFetch

LEMMA DetectSkipSteps ==
    ASSUME IInv, NEW r \in Runs, DetectSkip(r)
    PROVE  IInv'
<1>1. World' /\ Onward
  BY NothingMoves, SameWorld DEF DetectSkip
<1> QED BY <1>1, LeaveSteps DEF DetectSkip

LEMMA DetectSettleFailsSteps ==
    ASSUME IInv, NEW r \in Runs, DetectSettleFails(r)
    PROVE  IInv'
<1>1. World' /\ Onward
  BY NothingMoves, SameWorld DEF DetectSettleFails
<1> QED BY <1>1, LeaveSteps DEF DetectSettleFails, Graced, Confirmed

\* What a detection knows of the candidate that it acts upon.
LEMMA ConfirmedHolds ==
    ASSUME IInv, NEW r \in Runs, Confirmed(r)
    PROVE  /\ run[r].at \in Markets /\ row[run[r].at] # NoRow
           /\ gamma[run[r].at].uma = "resolved"
           /\ run[r].answer # "unclear" =>
                /\ run[r].answer \in Outcome
                /\ gamma[run[r].at].prices = run[r].answer
           /\ run[r].todo[run[r].at] = "over" => row[run[r].at].grace = "over"
<1>1. Detecting(r) /\ run[r].at # None /\ run[r].answer # "unresolved"
  BY DEF Confirmed
<1>2. Good(run[r], gamma, row, due) /\ run[r] \in DetectRun
  BY <1>1, RunFields DEF IInv, RunsGood, Detecting
<1>3. run[r].at \in DOMAIN run[r].todo /\ run[r].answer # None
  BY <1>1, <1>2 DEF Good, Detecting
<1>4. /\ run[r].at \in Markets
      /\ run[r].answer \in Outcome \cup {"unresolved", "unclear", None}
  BY <1>2, <1>3, DetectFields
<1> QED BY <1>1, <1>2, <1>3, <1>4 DEF Good, Detecting

LEMMA DetectStampSteps ==
    ASSUME IInv, NEW r \in Runs, DetectStamp(r)
    PROVE  IInv'
<1> DEFINE m == run[r].at
<1>1. m \in Markets /\ row[m] # NoRow /\ Detecting(r)
  BY ConfirmedHolds DEF DetectStamp, Confirmed
<1>2. row[m] \in MarketRow
  BY <1>1, RowFields
<1>3. row' = [row EXCEPT ![m] = [row[m] EXCEPT !.grace = IF @ = "none" THEN "running" ELSE @]]
  BY DEF DetectStamp
<1> DEFINE stamped == [row[m] EXCEPT !.grace = IF @ = "none" THEN "running" ELSE @]
<1>4. stamped \in MarketRow /\ (row[m].grace = "over" => stamped.grace = "over")
  BY <1>2 DEF MarketRow, Grace
<1> HIDE DEF stamped, m
<1>5. row' = [row EXCEPT ![m] = stamped]
  BY <1>3 DEF stamped
<1>6. /\ row' \in [Markets -> MarketRow \cup {NoRow}]
      /\ \A n \in Markets : row[n] # NoRow =>
           row'[n] # NoRow /\ (row[n].grace = "over" => row'[n].grace = "over")
  BY <1>1, <1>4, <1>5, RowIsNoRow DEF IInv, World
<1>7. World'
  BY <1>6 DEF IInv, World, DetectStamp
<1>8. Onward
  BY <1>6, RowsMove DEF DetectStamp
<1> QED BY <1>1, <1>7, <1>8, LeaveSteps DEF DetectStamp

LEMMA DetectSettleSteps ==
    ASSUME IInv, NEW r \in Runs, DetectSettle(r)
    PROVE  IInv'
<1>1. run[r].at \in Markets /\ row[run[r].at] # NoRow /\ run[r].answer \in Outcome /\ Detecting(r)
  BY ConfirmedHolds DEF DetectSettle, Graced, Confirmed
<1>2. World' /\ Onward
  BY <1>1, Settling DEF DetectSettle, Authority
<1> QED BY <1>1, <1>2, LeaveSteps DEF DetectSettle

-----------------------------------------------------------------------------
(* Every step *)

LEMMA Initially == Init => IInv
<1> SUFFICES ASSUME Init PROVE IInv
  OBVIOUS
<1>1. [closed |-> FALSE, uma |-> "none", prices |-> "trading"] \in Gamma
  BY DEF Gamma
<1>2. World
  BY <1>1 DEF Init, World
<1>3. run \in [Runs -> RunRecord] /\ RunsGood
  BY IdleGood DEF Init, RunsGood, RunRecord
<1>4. Locks
  BY NoneAssumption DEF Init, Locks, OnTimeRunHoldsLock
<1> QED BY <1>2, <1>3, <1>4 DEF IInv

LEMMA Stuttering == IInv /\ UNCHANGED vars => IInv'
BY DEF vars, IInv, World, RunsGood, Good, Locks, OnTimeRunHoldsLock

LEMMA RunSteps ==
    ASSUME IInv, NEW r \in Runs, Step(r)
    PROVE  IInv'
<1>1. CASE PollFetch(r)
  BY <1>1, PollFetchSteps
<1>2. CASE PollCommit(r)
  BY <1>2, PollCommitSteps
<1>3. CASE PollFail(r)
  BY <1>3, PollFailSteps
<1>4. CASE PollEnd(r)
  BY <1>4, EndSteps DEF PollEnd
<1>5. CASE \E m \in Markets : DetectFetch(r, m)
  BY <1>5, DetectFetchSteps
<1>6. CASE DetectSkip(r)
  BY <1>6, DetectSkipSteps
<1>7. CASE DetectStamp(r)
  BY <1>7, DetectStampSteps
<1>8. CASE DetectSettle(r)
  BY <1>8, DetectSettleSteps
<1>9. CASE DetectSettleFails(r)
  BY <1>9, DetectSettleFailsSteps
<1>10. CASE DetectEnd(r)
  BY <1>10, EndSteps DEF DetectEnd
<1> QED BY <1>1, <1>2, <1>3, <1>4, <1>5, <1>6, <1>7, <1>8, <1>9, <1>10 DEF Step

LEMMA NextSteps == IInv /\ [Next]_vars => IInv'
<1> SUFFICES ASSUME IInv, Next PROVE IInv'
  BY Stuttering
<1>1. ASSUME NEW m \in Markets, Upstream(m) \/ DeadlinePasses(m) \/ GraceElapses(m) \/ place_bet(m)
      PROVE  IInv'
  BY <1>1, UpstreamSteps, DeadlineSteps, GraceSteps, PlaceSteps
<1>2. ASSUME NEW m \in Markets, Admin(m) PROVE IInv'
  BY <1>2, ForceSteps, ReverseSteps, CloseSteps DEF Admin
<1>3. ASSUME NEW k \in Kinds, LockExpires(k) PROVE IInv'
  BY <1>3, ExpirySteps
<1>4. ASSUME NEW r \in Runs, PollStart(r) \/ DetectStart(r) \/ Step(r) \/ Crash(r) PROVE IInv'
  BY <1>4, PollStartSteps, DetectStartSteps, RunSteps, CrashSteps
<1> QED BY <1>1, <1>2, <1>3, <1>4 DEF Next

(* The mirror keeps its inductive invariant.                               *)
THEOREM PolymarketInvariant == Spec => []IInv
BY Initially, NextSteps, PTL DEF Spec

(* Rows, oracle, locks and runs are what the code can hold.                *)
THEOREM PolymarketTypes == Spec => []TypeOK
BY PolymarketInvariant, TypesHold, PTL

(* A poll or a detection holds its lock until it ends or outlives it: two  *)
(* of a kind overlap only when one of them took longer than the lock's     *)
(* time to live.                                                           *)
THEOREM RunsHoldTheirLocks == Spec => []OnTimeRunHoldsLock
<1>1. IInv => OnTimeRunHoldsLock
  BY DEF IInv, Locks
<1> QED BY <1>1, PolymarketInvariant, PTL

-----------------------------------------------------------------------------
(* The mirror implements AutoResolution *)

\* What AutoResolution sees of a state.
OracleSeen == [m \in Markets |-> IF Clear(m) THEN gamma[m].prices
                                 ELSE IF gamma[m].uma = "resolved" THEN "resolved" ELSE "open"]
GraceSeen == [m \in Markets |-> row[m].grace]
PaidSeen == [m \in Markets |-> IF Paid(m) THEN bet[m] ELSE None]
Seen == <<OracleSeen, GraceSeen, PaidSeen>>

LEMMA SameOracle == UNCHANGED gamma => UNCHANGED OracleSeen
BY DEF OracleSeen, Clear

LEMMA SameGraces == (\A m \in Markets : row'[m].grace = row[m].grace) => UNCHANGED GraceSeen
BY DEF GraceSeen

LEMMA SamePayments == UNCHANGED bet => UNCHANGED PaidSeen
BY DEF PaidSeen, Paid

(* Functions on a set that differ at one place.                            *)
LEMMA OneChange ==
    ASSUME NEW S, NEW f, NEW g, NEW m \in S, DOMAIN f = S,
           f = [n \in S |-> f[n]], g = [n \in S |-> g[n]], \A n \in S \ {m} : g[n] = f[n]
    PROVE  g = [f EXCEPT ![m] = g[m]]
<1> DEFINE h == [f EXCEPT ![m] = g[m]]
<1>1. h = [n \in S |-> h[n]]
  OBVIOUS
<1>2. \A n \in S : h[n] = g[n]
  OBVIOUS
<1> HIDE DEF h
<1>3. g = h
  BY <1>1, <1>2
<1> QED BY <1>3 DEF h

(* The oracle of the abstraction is as final as a clear resolution.        *)
LEMMA UpstreamResolves ==
    ASSUME IInv, NEW m \in Markets, Upstream(m)
    PROVE  Promised!Next \/ UNCHANGED Seen
<1>1. PICK c \in BOOLEAN, u \in {"none", "proposed", "resolved"}, p \in Outcome \cup {"trading"} :
         /\ gamma' = [gamma EXCEPT ![m] = [closed |-> c, uma |-> u, prices |-> p]]
         /\ gamma[m].uma = "resolved" => u = "resolved"
         /\ gamma[m].uma = "resolved" /\ gamma[m].prices # "trading" => p = gamma[m].prices
  BY UpstreamMoves
<1> DEFINE o == IF u = "resolved" /\ p # "trading" THEN p
                ELSE IF u = "resolved" THEN "resolved" ELSE "open"
<1>2. UNCHANGED <<GraceSeen, PaidSeen>>
  BY SameGraces, SamePayments DEF Upstream
<1>3. gamma'[m].uma = u /\ gamma'[m].prices = p /\ \A n \in Markets \ {m} : gamma'[n] = gamma[n]
  BY <1>1 DEF IInv, World
<1>4. /\ OracleSeen'[m] = o
      /\ \A n \in Markets \ {m} : OracleSeen'[n] = OracleSeen[n]
  BY <1>3 DEF OracleSeen, Clear
<1>5. OracleSeen' = [OracleSeen EXCEPT ![m] = o]
  <2> HIDE DEF o
  <2>1. /\ DOMAIN OracleSeen = Markets /\ OracleSeen = [n \in Markets |-> OracleSeen[n]]
        /\ OracleSeen' = [n \in Markets |-> OracleSeen'[n]]
    BY DEF OracleSeen
  <2>2. m \in Markets /\ \A n \in Markets \ {m} : OracleSeen'[n] = OracleSeen[n]
    BY <1>4
  <2>3. OracleSeen' = [OracleSeen EXCEPT ![m] = OracleSeen'[m]]
    BY ONLY <2>1, <2>2, OneChange
  <2> QED BY ONLY <1>4, <2>3
<1>6. OracleSeen[m] \notin {"open", "resolved"} => o = OracleSeen[m]
  BY <1>1 DEF OracleSeen, Clear
<1>7. o = "open" => OracleSeen[m] = "open"
  BY <1>1 DEF OracleSeen, Clear, Outcome
<1>8. o \in {"open", "resolved"} \cup Outcome
  OBVIOUS
<1> HIDE DEF o
<1>9. CASE o = OracleSeen[m]
  BY <1>2, <1>5, <1>9 DEF Seen, OracleSeen
<1>10. CASE o # OracleSeen[m]
  <2>1. OracleSeen[m] \in {"open", "resolved"} /\ o \in {"resolved"} \cup Outcome
    BY <1>6, <1>7, <1>8, <1>10
  <2>2. Promised!Resolve(m, o)
    BY <1>2, <1>5, <2>1 DEF Promised!Resolve, OracleSeen, GraceSeen, PaidSeen
  <2> QED BY <2>1, <2>2 DEF Promised!Next, Promised!Outcome, Outcome
<1> QED BY <1>9, <1>10

LEMMA GraceElapsesThere ==
    ASSUME IInv, NEW m \in Markets, GraceElapses(m)
    PROVE  Promised!Next
<1>1. row[m] \in MarketRow
  BY RowFields DEF GraceElapses
<1>2. /\ row'[m].grace = "over" /\ row[m].grace = "running"
      /\ \A n \in Markets \ {m} : row'[n] = row[n]
  BY <1>1 DEF GraceElapses, IInv, World, MarketRow
<1>3. GraceSeen' = [GraceSeen EXCEPT ![m] = "over"]
  BY <1>2 DEF GraceSeen
<1>4. UNCHANGED <<OracleSeen, PaidSeen>>
  BY SameOracle, SamePayments DEF GraceElapses
<1>5. Promised!GraceElapses(m)
  BY <1>2, <1>3, <1>4 DEF Promised!GraceElapses, GraceSeen, OracleSeen, PaidSeen
<1> QED BY <1>5 DEF Promised!Next

(* The stamp of a detection starts the grace, after the oracle resolved.   *)
LEMMA StampStartsGrace ==
    ASSUME IInv, NEW r \in Runs, DetectStamp(r)
    PROVE  Promised!Next \/ UNCHANGED Seen
<1>1. PICK m \in Markets : m = run[r].at
  BY ConfirmedHolds DEF DetectStamp
<1>2. row[m] # NoRow /\ gamma[m].uma = "resolved"
  BY <1>1, ConfirmedHolds DEF DetectStamp
<1>3. row[m] \in MarketRow
  BY <1>2, RowFields
<1>4. row' = [row EXCEPT ![m] = [row[m] EXCEPT !.grace = IF @ = "none" THEN "running" ELSE @]]
  BY <1>1 DEF DetectStamp
<1>5. UNCHANGED <<OracleSeen, PaidSeen>>
  BY SameOracle, SamePayments DEF DetectStamp
<1>6. OracleSeen[m] # "open"
  BY <1>2 DEF OracleSeen, Clear, IInv, World, Gamma, Outcome
<1>7. /\ row'[m].grace = IF row[m].grace = "none" THEN "running" ELSE row[m].grace
      /\ \A n \in Markets \ {m} : row'[n] = row[n]
  BY <1>2, <1>3, <1>4 DEF IInv, World, MarketRow
<1>8. CASE row[m].grace = "none"
  <2>1. GraceSeen' = [GraceSeen EXCEPT ![m] = "running"]
    BY <1>2, <1>7, <1>8 DEF GraceSeen
  <2>2. GraceSeen[m] = "none"
    BY <1>2, <1>8 DEF GraceSeen
  <2>3. Promised!StartGrace(m)
    BY <1>5, <1>6, <2>1, <2>2 DEF Promised!StartGrace, GraceSeen, OracleSeen, PaidSeen
  <2> QED BY <2>3 DEF Promised!Next
<1>9. CASE row[m].grace # "none"
  BY <1>5, <1>7, <1>9, SameGraces DEF Seen
<1> QED BY <1>8, <1>9

(* Settling pays a pending bet on the winner, or pays nothing.             *)
LEMMA SettlingPays ==
    ASSUME IInv, NEW m \in Markets, NEW w \in Outcome, NEW by \in Authority,
           resolve_market(m, w, by)
    PROVE  \/ UNCHANGED PaidSeen
           \/ PaidSeen[m] = None /\ PaidSeen' = [PaidSeen EXCEPT ![m] = <<by, w>>]
<1>1. CASE bet[m] # Pending
  BY <1>1, SamePayments DEF resolve_market
<1>2. CASE bet[m] = Pending
  <2>1. bet' = [bet EXCEPT ![m] = <<by, w>>]
    BY <1>2 DEF resolve_market
  <2>2. bet'[m] = <<by, w>> /\ \A n \in Markets \ {m} : bet'[n] = bet[n]
    BY <2>1 DEF IInv, World
  <2>3. <<by, w>> \notin {NoBet, Pending}
    BY DEF NoBet, Pending, Authority
  <2>4. PaidSeen[m] = None
    BY <1>2 DEF PaidSeen, Paid
  <2>5. PaidSeen' = [PaidSeen EXCEPT ![m] = <<by, w>>]
    BY <2>2, <2>3 DEF PaidSeen, Paid
  <2> QED BY <2>4, <2>5
<1> QED BY <1>1, <1>2

(* A detection pays on what the oracle confirmed, after the grace period.  *)
LEMMA DetectionPays ==
    ASSUME IInv, NEW r \in Runs, DetectSettle(r)
    PROVE  Promised!Next \/ UNCHANGED Seen
<1>1. PICK m \in Markets : m = run[r].at
  BY ConfirmedHolds DEF DetectSettle, Graced
<1>2. PICK w \in Outcome : w = run[r].answer
  BY ConfirmedHolds DEF DetectSettle, Graced
<1>3. /\ row[m] # NoRow /\ row[m].grace = "over"
      /\ gamma[m].uma = "resolved" /\ gamma[m].prices = w
  BY <1>1, <1>2, ConfirmedHolds DEF DetectSettle, Graced
<1>4. resolve_market(m, w, "uma") /\ UNCHANGED <<gamma, due>>
  BY <1>1, <1>2 DEF DetectSettle, resolve_market
<1>5. \A n \in Markets : row'[n].grace = row[n].grace
  BY <1>3, <1>4, Settling DEF Authority
<1>6. UNCHANGED <<OracleSeen, GraceSeen>>
  BY <1>4, <1>5, SameOracle, SameGraces
<1>7. \/ UNCHANGED PaidSeen
      \/ PaidSeen[m] = None /\ PaidSeen' = [PaidSeen EXCEPT ![m] = <<"uma", w>>]
  BY <1>3, <1>4, SettlingPays DEF Authority
<1>8. OracleSeen[m] = w /\ GraceSeen[m] = "over"
  BY <1>3 DEF OracleSeen, Clear, GraceSeen, Outcome
<1>9. CASE UNCHANGED PaidSeen
  BY <1>6, <1>9 DEF Seen
<1>10. CASE PaidSeen[m] = None /\ PaidSeen' = [PaidSeen EXCEPT ![m] = <<"uma", w>>]
  <2>1. Promised!AutoPay(m)
    BY <1>3, <1>6, <1>8, <1>10 DEF Promised!AutoPay, Promised!Outcome, Outcome, OracleSeen, GraceSeen, PaidSeen
  <2> QED BY <2>1 DEF Promised!Next
<1> QED BY <1>7, <1>9, <1>10

LEMMA AdminPays ==
    ASSUME IInv, NEW m \in Markets, NEW w \in Overrides, ForceSettle(m, w)
    PROVE  Promised!Next \/ UNCHANGED Seen
<1>1. w \in Outcome
  BY OutcomesAssumption
<1>2. resolve_market(m, w, "admin") /\ UNCHANGED <<gamma, due>> /\ row[m] # NoRow
  BY DEF ForceSettle
<1>3. \A n \in Markets : row'[n].grace = row[n].grace
  BY <1>1, <1>2, Settling DEF Authority
<1>4. UNCHANGED <<OracleSeen, GraceSeen>>
  BY <1>2, <1>3, SameOracle, SameGraces
<1>5. \/ UNCHANGED PaidSeen
      \/ PaidSeen[m] = None /\ PaidSeen' = [PaidSeen EXCEPT ![m] = <<"admin", w>>]
  BY <1>1, <1>2, SettlingPays DEF Authority
<1>6. CASE UNCHANGED PaidSeen
  BY <1>4, <1>6 DEF Seen
<1>7. CASE PaidSeen[m] = None /\ PaidSeen' = [PaidSeen EXCEPT ![m] = <<"admin", w>>]
  <2>1. Promised!OverridePay(m, w)
    BY <1>4, <1>7 DEF Promised!OverridePay, OracleSeen, GraceSeen, PaidSeen
  <2> QED BY <1>1, <2>1 DEF Promised!Next, Promised!Outcome, Outcome
<1> QED BY <1>5, <1>6, <1>7

LEMMA ReversalTakesBack ==
    ASSUME IInv, NEW m \in Markets, reverse_settlement(m)
    PROVE  Promised!Next
<1>1. bet[m] \in Authority \X Outcome /\ \A n \in Markets : row'[n].grace = row[n].grace
  BY ReverseRows
<1>2. UNCHANGED <<OracleSeen, GraceSeen>>
  BY <1>1, SameOracle, SameGraces DEF reverse_settlement
<1>3. PaidSeen[m] # None
  BY <1>1, NoneAssumption DEF reverse_settlement, PaidSeen
<1>4. bet'[m] = Pending /\ \A n \in Markets \ {m} : bet'[n] = bet[n]
  BY DEF reverse_settlement, IInv, World
<1>5. PaidSeen' = [PaidSeen EXCEPT ![m] = None]
  BY <1>4 DEF PaidSeen, Paid
<1>6. Promised!TakeBack(m)
  BY <1>2, <1>3, <1>5 DEF Promised!TakeBack, OracleSeen, GraceSeen, PaidSeen
<1> QED BY <1>6 DEF Promised!Next

\* Deadlines, locks and the steps of a run that write no money are not seen.
LEMMA Unseen ==
    ASSUME UNCHANGED <<gamma, bet>>, \A m \in Markets : row'[m].grace = row[m].grace
    PROVE  UNCHANGED Seen
BY SameOracle, SameGraces, SamePayments DEF Seen

LEMMA PlacingIsUnseen ==
    ASSUME IInv, NEW m \in Markets, place_bet(m)
    PROVE  UNCHANGED Seen
<1>1. bet[m] = NoBet /\ bet'[m] = Pending /\ \A n \in Markets \ {m} : bet'[n] = bet[n]
  BY DEF place_bet, IInv, World
<1>2. UNCHANGED PaidSeen
  BY <1>1 DEF PaidSeen, Paid
<1> QED BY <1>2, SameOracle, SameGraces DEF place_bet, Seen

LEMMA StepRefines ==
    ASSUME IInv, [Next]_vars
    PROVE  Promised!Next \/ UNCHANGED Seen
<1>1. CASE UNCHANGED vars
  BY <1>1, Unseen DEF vars
<1>2. ASSUME NEW m \in Markets,
             Upstream(m) \/ DeadlinePasses(m) \/ GraceElapses(m) \/ place_bet(m) \/ Admin(m)
      PROVE  Promised!Next \/ UNCHANGED Seen
  <2>1. CASE Upstream(m)
    BY <2>1, UpstreamResolves
  <2>2. CASE DeadlinePasses(m)
    BY <2>2, Unseen DEF DeadlinePasses
  <2>3. CASE GraceElapses(m)
    BY <2>3, GraceElapsesThere
  <2>4. CASE place_bet(m)
    BY <2>4, PlacingIsUnseen
  <2>5. CASE Admin(m)
    <3>1. CASE close_market(m)
      BY <3>1, CloseRows, Unseen DEF close_market
    <3> QED BY <2>5, <3>1, AdminPays, ReversalTakesBack DEF Admin
  <2> QED BY <1>2, <2>1, <2>2, <2>3, <2>4, <2>5
<1>3. ASSUME NEW k \in Kinds, LockExpires(k) PROVE UNCHANGED Seen
  BY <1>3, Unseen DEF LockExpires
<1>4. ASSUME NEW r \in Runs, PollStart(r) \/ DetectStart(r) \/ Step(r) \/ Crash(r)
      PROVE  Promised!Next \/ UNCHANGED Seen
  <2>1. CASE PollCommit(r)
    BY <2>1, PollCommitRows, Unseen DEF PollCommit
  <2>2. CASE DetectStamp(r)
    BY <2>2, StampStartsGrace
  <2>3. CASE DetectSettle(r)
    BY <2>3, DetectionPays
  <2>4. \/ PollCommit(r) \/ DetectStamp(r) \/ DetectSettle(r)
        \/ UNCHANGED <<gamma, row, bet>>
    BY <1>4 DEF PollStart, DetectStart, DetectStartOn, Step, Crash, PollFetch, PollFail, PollEnd,
                DetectFetch, DetectSkip, DetectSettleFails, DetectEnd
  <2> QED BY <2>1, <2>2, <2>3, <2>4, Unseen
<1> QED BY <1>1, <1>2, <1>3, <1>4 DEF Next

LEMMA InitRefines == Init => Promised!Init
<1> SUFFICES ASSUME Init PROVE Promised!Init
  OBVIOUS
<1>1. \A m \in Markets : ~Clear(m) /\ gamma[m].uma = "none" /\ row[m].grace = "none" /\ ~Paid(m)
  BY DEF Init, Clear, NoRow, Paid, NoBet, Pending
<1> QED BY <1>1 DEF Promised!Init

(* AutoSpec: without an admin, the mirror pays only on the outcome that    *)
(* the oracle confirmed, after a grace period that began once it had.      *)
THEOREM MirrorImplementsAutoResolution == Spec => AutoSpec
<1>1. Init => Promised!Init
  BY InitRefines
<1>2. IInv /\ [Next]_vars => [Promised!Next]_(Promised!vars)
  BY StepRefines DEF Seen, OracleSeen, GraceSeen, PaidSeen, Promised!vars
<1> QED BY <1>1, <1>2, PolymarketInvariant, PTL DEF Spec, AutoSpec, Promised!Spec
=============================================================================
