------------------------ MODULE EventSettlementProofs ------------------------
(***************************************************************************)
(* A house event, for any number of children, outcomes lists and           *)
(* concurrent requests: reports tell the truth, and what was paid on a     *)
(* child is taken back by a reversal of that child only.                   *)
(***************************************************************************)
EXTENDS EventSettlement, FiniteSetTheorems, SequenceTheorems, ArithmeticProofs, TLAPS

-----------------------------------------------------------------------------
(* The inductive invariant *)

Rows ==
    /\ group \subseteq Children
    /\ market \in [Children -> MarketRow]
    /\ bet \in [Children -> BetStatus]
    /\ keys \subseteq {"settle", "reverse"} \X Children \X Outcome

Resolved(mk, c) == mk[c].status = "RESOLVED"
Visits(x, c) == \E i \in 1..Len(x.todo) : x.todo[i][1] = c

\* What a request may rely on while other requests change the markets mk and
\* the bets bt: nobody else inserts its bet or touches the bet it has locked;
\* every child that a settlement has seen is still to be visited or RESOLVED,
\* unless it failed or was moved; what it read RESOLVED is so, unless moved.
GoodLoop(x, mk, bt) ==
    /\ x.at # None => /\ x.todo # <<>> /\ x.at = x.todo[1][1]
                      /\ x.saw.bet # "none" => bt[x.at] # "none"
    /\ x.op \in Settles =>
         /\ x.at # None => /\ x.saw.bet = "PENDING" => bt[x.at] = "PENDING"
                           /\ x.saw.row.status = "RESOLVED" /\ x.at \notin x.moved => Resolved(mk, x.at)
         /\ \A c \in x.seen \ (x.failed \cup x.moved) : Visits(x, c) \/ Resolved(mk, c)

Good(x, mk, bt) ==
    /\ x \in Run
    /\ x.op = "place" => bt[x.child] = "none"
    /\ x.op \in Loops => GoodLoop(x, mk, bt)

\* One request inserts the bet of a child, and one holds it FOR UPDATE.
OnePlacer == \A q, r \in Requests :
    run[q].op = "place" /\ run[r].op = "place" /\ run[q].child = run[r].child => q = r
OneHolder == \A q, r \in Requests : \A c \in Children : Holds(q, c) /\ Holds(r, c) => q = r

IInv ==
    /\ Rows
    /\ run \in [Requests -> Run] /\ \A r \in Requests : Good(run[r], market, bet)
    /\ OnePlacer /\ OneHolder

-----------------------------------------------------------------------------
(* The order of the children *)

LEMMA ChildrenFinite ==
    ASSUME NEW cs \in SUBSET Children
    PROVE  IsFiniteSet(cs) /\ Cardinality(cs) \in Nat
<1>1. IsFiniteSet(Children)
  BY ChildrenAssumption, FS_Interval DEF Children
<1> QED BY <1>1, FS_Subset, FS_CardinalityType

LEMMA LastChild ==
    ASSUME NEW cs \in SUBSET Children, cs # {}
    PROVE  \E c \in cs : \A d \in cs : d <= c
<1> DEFINE gaps == {k \in Nat : \E c \in cs : k = MaxChildren - c}
<1>1. MaxChildren \in Nat /\ \A c \in cs : c \in Nat /\ MaxChildren - c \in Nat
  BY ChildrenAssumption DEF Children
<1>2. gaps \in SUBSET Nat /\ gaps # {}
  BY <1>1
<1>3. PICK k \in gaps : \A j \in gaps : k <= j
  <2> HIDE DEF gaps
  <2> QED BY <1>2, LeastNatural
<1>4. PICK c \in cs : k = MaxChildren - c
  BY <1>3
<1>5. ASSUME NEW d \in cs PROVE d <= c
  <2>1. MaxChildren - d \in gaps
    BY <1>1
  <2> QED BY <1>1, <1>3, <1>4, <2>1
<1> QED BY <1>5

IsAscending(s) == \A i, j \in DOMAIN s : i < j => s[i] < s[j]

(* Every set of children has an ascending order.                           *)
LEMMA AscendingExists ==
    ASSUME NEW cs \in SUBSET Children
    PROVE  \E s \in [1..Cardinality(cs) -> cs] : IsAscending(s)
<1> DEFINE Sorted(ds) == \E s \in [1..Cardinality(ds) -> ds] : IsAscending(s)
           bad == {n \in Nat : \E ds \in SUBSET Children : Cardinality(ds) = n /\ ~Sorted(ds)}
<1>1. SUFFICES ASSUME bad # {} PROVE FALSE
  <2>1. bad = {} => Sorted(cs)
    <3> HIDE DEF Sorted
    <3> QED BY ChildrenFinite
  <2> QED BY <1>1, <2>1
<1>2. PICK n \in bad : \A k \in bad : n <= k
  <2>1. bad \in SUBSET Nat
    OBVIOUS
  <2> HIDE DEF bad
  <2> QED BY <1>1, <2>1, LeastNatural
<1>3. PICK ds \in SUBSET Children : Cardinality(ds) = n /\ ~Sorted(ds)
  <2> HIDE DEF Sorted
  <2> QED BY <1>2
<1>4. n \in Nat /\ IsFiniteSet(ds)
  BY <1>2, ChildrenFinite
<1>5. CASE ds = {}
  <2>1. [i \in 1..0 |-> i] \in [1..0 -> ds] /\ IsAscending([i \in 1..0 |-> i])
    BY DEF IsAscending
  <2>2. Cardinality(ds) = 0
    BY <1>5, FS_EmptySet
  <2> QED BY <1>3, <2>1, <2>2
<1>6. CASE ds # {}
  <2>1. PICK c \in ds : \A d \in ds : d <= c
    BY <1>6, LastChild
  <2> DEFINE es == ds \ {c}
  <2>2. Cardinality(es) = n - 1 /\ Cardinality(es) \in Nat /\ es \in SUBSET Children
    <3>1. IsFiniteSet(es) /\ Cardinality(es) = Cardinality(ds) - 1
      BY <1>4, <2>1, FS_RemoveElement
    <3> QED BY <1>3, <3>1, ChildrenFinite
  <2>3. Sorted(es)
    <3> HIDE DEF Sorted
    <3>1. n - 1 \notin bad
      <4> HIDE DEF bad
      <4> QED BY <1>2, <1>4
    <3> HIDE DEF es
    <3> QED BY <2>2, <3>1
  <2>4. PICK s \in [1..n - 1 -> es] : IsAscending(s)
    BY <2>2, <2>3
  <2> DEFINE t == [i \in 1..n |-> IF i = n THEN c ELSE s[i]]
  <2>5. t \in [1..n -> ds]
    BY <1>4, <2>1, <2>4
  <2>6. \A i \in 1..n - 1 : s[i] \in ds /\ s[i] < c
    <3>1. \A d \in ds : d \in Nat
      BY DEF Children
    <3> QED BY <2>1, <2>4, <3>1
  <2>7. IsAscending(t)
    BY <1>4, <2>4, <2>6 DEF IsAscending
  <2> QED BY <1>3, <2>5, <2>7
<1> QED BY <1>5, <1>6

LEMMA OnType ==
    ASSUME NEW cs \in SUBSET Children, NEW o \in Outcome
    PROVE  On(o, cs) \in Seq(Children \X Outcome)
<1>1. Ascending(cs) \in [1..Cardinality(cs) -> cs]
  BY AscendingExists DEF Ascending, IsAscending
<1>2. On(o, cs) \in [1..Cardinality(cs) -> Children \X Outcome]
  BY <1>1 DEF On
<1> QED BY <1>2, ChildrenFinite, SeqDef

-----------------------------------------------------------------------------
(* Requests *)

LEMMA RunFields ==
    ASSUME NEW x \in Run
    PROVE  /\ x.op \in {"idle", "update"} \cup OnChild \cup Loops
           /\ x.op \in Loops => x \in LoopRun
           /\ x.op \in OnChild => x.child \in Children
           /\ x.op = "idle" <=> x = Idle
BY DEF Run, LoopRun, Loops, Settles, OnChild, Idle

LEMMA LoopFields ==
    ASSUME NEW x \in LoopRun
    PROVE  /\ x \in Run
           /\ x.op \in Loops
           /\ x.todo \in Seq(Children \X Outcome)
           /\ x.at \in Children \cup {None}
           /\ x.saw.bet \in BetStatus /\ x.saw.row \in MarketRow
           /\ x.seen \in SUBSET Children /\ x.failed \in SUBSET Children
           /\ x.moved \in SUBSET Children
BY DEF Run, LoopRun

LEMMA IdleGood ==
    ASSUME NEW mk, NEW bt
    PROVE  Good(Idle, mk, bt) /\ Idle.op = "idle"
BY DEF Good, Run, Idle, Loops, Settles

\* A settlement is told of the children that another request has moved.
Told(x, moved) == IF x.op \in Settles THEN [x EXCEPT !.moved = @ \cup moved] ELSE x

LEMMA ToldFields ==
    ASSUME NEW x \in Run, NEW moved \in SUBSET Children
    PROVE  /\ Told(x, moved) \in Run
           /\ Told(x, moved).op = x.op
           /\ x.op \notin Settles => Told(x, moved) = x
           /\ x.op \in Settles =>
                /\ Told(x, moved).moved = x.moved \cup moved
                /\ Told(x, moved).todo = x.todo /\ Told(x, moved).at = x.at
                /\ Told(x, moved).saw = x.saw /\ Told(x, moved).seen = x.seen
                /\ Told(x, moved).failed = x.failed
           /\ moved = {} => Told(x, moved) = x
<1>1. CASE x.op \notin Settles
  BY <1>1 DEF Told
<1>2. CASE x.op \in Settles
  <2>1. x \in LoopRun
    BY <1>2, RunFields DEF Loops
  <2>2. [x EXCEPT !.moved = @ \cup moved] \in LoopRun
    BY <2>1 DEF LoopRun
  <2> QED BY <1>2, <2>1, <2>2 DEF Told, LoopRun, Run
<1> QED BY <1>1, <1>2

(* What a request relies on stays, whatever the others do.                 *)
LEMMA GoodStays ==
    ASSUME NEW x, NEW mk, NEW bt, NEW mk1, NEW bt1, NEW moved \in SUBSET Children,
           Good(x, mk, bt),
           \A c \in Children : bt[c] # "none" => bt1[c] # "none",
           \A c \in Children : Resolved(mk, c) => c \in moved \/ Resolved(mk1, c),
           x.op = "place" => bt1[x.child] = "none",
           x.op \in Settles /\ x.at # None /\ x.saw.bet = "PENDING" => bt1[x.at] = "PENDING"
    PROVE  Good(Told(x, moved), mk1, bt1)
<1>1. CASE x.op \notin Settles
  <2>1. Told(x, moved) = x
    BY <1>1 DEF Told
  <2>2. CASE x.op \notin Loops
    BY <2>1, <2>2 DEF Good
  <2>3. CASE x.op \in Loops
    <3>1. x.at \in Children \cup {None}
      BY <2>3, RunFields, LoopFields DEF Good
    <3> QED BY <1>1, <2>1, <2>3, <3>1 DEF Good, GoodLoop
  <2> QED BY <2>2, <2>3
<1>2. CASE x.op \in Settles
  <2> DEFINE y == Told(x, moved)
  <2>1. /\ x \in Run /\ x.op \in Loops /\ GoodLoop(x, mk, bt)
        /\ x.at \in Children \cup {None} /\ x.seen \in SUBSET Children
    BY <1>2, RunFields, LoopFields DEF Good, Loops
  <2>2. /\ y \in Run /\ y.op = x.op /\ y.moved = x.moved \cup moved
        /\ y.todo = x.todo /\ y.at = x.at /\ y.saw = x.saw /\ y.seen = x.seen /\ y.failed = x.failed
    BY <1>2, <2>1, ToldFields
  <2> HIDE DEF y
  <2>3. \A c \in y.seen \ (y.failed \cup y.moved) : Visits(y, c) \/ Resolved(mk1, c)
    BY <1>2, <2>1, <2>2 DEF GoodLoop, Visits
  <2>4. y.at # None =>
          /\ y.todo # <<>> /\ y.at = y.todo[1][1]
          /\ y.saw.bet # "none" => bt1[y.at] # "none"
          /\ y.saw.bet = "PENDING" => bt1[y.at] = "PENDING"
          /\ y.saw.row.status = "RESOLVED" /\ y.at \notin y.moved => Resolved(mk1, y.at)
    BY <1>2, <2>1, <2>2 DEF GoodLoop
  <2>5. GoodLoop(y, mk1, bt1)
    BY <2>3, <2>4 DEF GoodLoop
  <2>6. y.op # "place"
    BY <1>2, <2>2 DEF Settles
  <2> QED BY <2>2, <2>5, <2>6 DEF Good, y
<1> QED BY <1>1, <1>2

LEMMA HoldsOf ==
    ASSUME NEW r \in Requests, NEW c
    PROVE  Holds(r, c) <=> /\ run[r].op \in Settles /\ run[r].at # None /\ run[r].at = c
                           /\ run[r].saw.bet = "PENDING"
BY DEF Holds, Inside

(* One request moves on to x, and tells the others what it moved.          *)
LEMMA RequestSteps ==
    ASSUME IInv, Rows', NEW r \in Requests, NEW x, Good(x, market', bet'),
           NEW moved \in SUBSET Children,
           run' = [q \in Requests |-> run'[q]],
           \A q \in Requests : run'[q] = IF q = r THEN x ELSE Told(run[q], moved),
           \A c \in Children : bet[c] # "none" => bet'[c] # "none",
           \A c \in Children : Resolved(market, c) => c \in moved \/ Resolved(market', c),
           \A q \in Requests \ {r} : run[q].op = "place" =>
             /\ bet'[run[q].child] = "none"
             /\ x.op = "place" => run[q].child # x.child,
           \A q \in Requests \ {r} : \A c \in Children : Holds(q, c) =>
             /\ bet'[c] = "PENDING"
             /\ x.op \in Settles /\ x.at = c => x.saw.bet # "PENDING"
    PROVE  IInv'
<1>1. x \in Run
  BY DEF Good
<1>2. \A q \in Requests \ {r} : Good(Told(run[q], moved), market', bet')
  <2> TAKE q \in Requests \ {r}
  <2>1. Good(run[q], market, bet)
    BY DEF IInv
  <2>2. run[q].op \in Settles /\ run[q].at # None => run[q].at \in Children
    BY <2>1, RunFields, LoopFields DEF Good, Loops
  <2>3. run[q].op \in Settles /\ run[q].at # None /\ run[q].saw.bet = "PENDING" =>
          bet'[run[q].at] = "PENDING"
    BY <2>2, HoldsOf
  <2> QED BY <2>1, <2>3, GoodStays
<1>3. \A q \in Requests : run'[q] = IF q = r THEN x ELSE Told(run[q], moved)
  OBVIOUS
<1>4. \A q \in Requests : Good(run'[q], market', bet')
  BY <1>2, <1>3
<1>5. run' \in [Requests -> Run]
  BY <1>4 DEF Good
<1>6. \A q \in Requests \ {r} : run'[q].op = run[q].op /\ (run[q].op = "place" => run'[q] = run[q])
  BY <1>3, ToldFields DEF IInv, Settles
<1>7. OnePlacer'
  BY <1>3, <1>6 DEF IInv, OnePlacer
<1>8. \A q \in Requests \ {r} : \A c : Holds(q, c)' <=> Holds(q, c)
  <2> TAKE q \in Requests \ {r}
  <2> TAKE c
  <2>1. run[q] \in Run /\ run'[q] = Told(run[q], moved)
    BY <1>3 DEF IInv
  <2>2. /\ run'[q].op = run[q].op
        /\ run[q].op \in Settles => run'[q].at = run[q].at /\ run'[q].saw = run[q].saw
    BY <2>1, ToldFields
  <2> HIDE DEF Told
  <2> QED BY <2>2 DEF Holds, Inside
<1>9. \A c \in Children : Holds(r, c)' => x.op \in Settles /\ x.at = c /\ x.saw.bet = "PENDING"
  BY <1>3 DEF Holds, Inside
<1>10. OneHolder'
  BY <1>8, <1>9 DEF IInv, OneHolder
<1> QED BY <1>4, <1>5, <1>7, <1>10 DEF IInv

(* A request moves on and leaves rows, bets and keys alone.                *)
LEMMA QuietSteps ==
    ASSUME IInv, UNCHANGED <<group, market, bet, keys>>, NEW r \in Requests, NEW x,
           Good(x, market, bet), run' = [run EXCEPT ![r] = x],
           \A q \in Requests \ {r} : run[q].op = "place" /\ x.op = "place" => run[q].child # x.child,
           \A c \in Children : x.op \in Settles /\ x.at = c /\ x.saw.bet = "PENDING" =>
             \A q \in Requests \ {r} : ~Holds(q, c)
    PROVE  IInv'
<1> DEFINE unmoved == {}
<1>1. Rows'
  BY DEF IInv, Rows
<1>2. /\ run' = [q \in Requests |-> run'[q]]
      /\ \A q \in Requests : run'[q] = IF q = r THEN x ELSE Told(run[q], unmoved)
  <2>1. \A q \in Requests : Told(run[q], unmoved) = run[q]
    BY ToldFields DEF IInv
  <2> QED BY <2>1 DEF IInv
<1>3. \A q \in Requests : run[q].op = "place" => bet[run[q].child] = "none"
  BY DEF IInv, Good
<1>4. \A q \in Requests : \A c \in Children : Holds(q, c) => bet[c] = "PENDING"
  BY HoldsOf DEF IInv, Good, GoodLoop, Loops
<1>5. Good(x, market', bet') /\ bet' = bet /\ market' = market
  OBVIOUS
<1>6. \A q \in Requests \ {r} : run[q].op = "place" =>
        /\ bet'[run[q].child] = "none"
        /\ x.op = "place" => run[q].child # x.child
  BY <1>3
<1>7. \A q \in Requests \ {r} : \A c \in Children : Holds(q, c) =>
        /\ bet'[c] = "PENDING"
        /\ x.op \in Settles /\ x.at = c => x.saw.bet # "PENDING"
  BY <1>4
<1>8. unmoved \in SUBSET Children
  OBVIOUS
<1>9. \A c \in Children : bet[c] # "none" => bet'[c] # "none"
  OBVIOUS
<1>10. \A c \in Children : Resolved(market, c) => c \in unmoved \/ Resolved(market', c)
  OBVIOUS
<1> HIDE DEF unmoved
<1> QED BY <1>1, <1>2, <1>5, <1>6, <1>7, <1>8, <1>9, <1>10, RequestSteps

(* The rows change, no bet and no request does.                            *)
LEMMA RowSteps ==
    ASSUME IInv, Rows', UNCHANGED <<bet, run>>,
           \A c \in Children : Resolved(market, c) => Resolved(market', c)
    PROVE  IInv'
<1>1. \A q \in Requests : Good(run[q], market', bet')
  <2> TAKE q \in Requests
  <2> DEFINE unmoved == {}
  <2>1. Good(run[q], market, bet) /\ run[q] \in Run
    BY DEF IInv
  <2>2. unmoved \in SUBSET Children /\ Told(run[q], unmoved) = run[q]
    BY <2>1, ToldFields
  <2>3. run[q].op = "place" => bet'[run[q].child] = "none"
    BY <2>1 DEF Good
  <2>4. run[q].op \in Settles /\ run[q].at # None /\ run[q].saw.bet = "PENDING" =>
          bet'[run[q].at] = "PENDING"
    BY <2>1 DEF Good, GoodLoop, Loops
  <2>5. \A c \in Children : bet[c] # "none" => bet'[c] # "none"
    OBVIOUS
  <2>6. \A c \in Children : Resolved(market, c) => c \in unmoved \/ Resolved(market', c)
    OBVIOUS
  <2> HIDE DEF unmoved
  <2>7. Good(Told(run[q], unmoved), market', bet')
    BY <2>1, <2>2, <2>3, <2>4, <2>5, <2>6, GoodStays
  <2> QED BY <2>2, <2>7
<1>2. OnePlacer' /\ OneHolder'
  BY DEF IInv, OnePlacer, OneHolder, Holds, Inside
<1> QED BY <1>1, <1>2 DEF IInv

LEMMA RowTypes == NoMarket \in MarketRow /\ NewMarket \in MarketRow
BY DEF NoMarket, NewMarket, MarketRow, Status

-----------------------------------------------------------------------------
(* Creating and editing *)

LEMMA CreateSteps ==
    ASSUME IInv, NEW new \in Lists, create_house_event(new)
    PROVE  IInv'
<1>1. new \subseteq Children /\ \A c \in new : market[c] = NoMarket
  BY ListsAssumption DEF create_house_event, Unused
<1>2. Rows'
  BY <1>1, RowTypes DEF IInv, Rows, create_house_event
<1>3. \A c \in Children : Resolved(market, c) => Resolved(market', c)
  BY <1>1 DEF create_house_event, Resolved, NoMarket
<1> QED BY <1>2, <1>3, RowSteps DEF create_house_event

LEMMA UpdateCheckSteps ==
    ASSUME IInv, NEW r \in Requests, UpdateCheck(r)
    PROVE  IInv'
<1> DEFINE x == [op |-> "update"]
<1>1. Good(x, market, bet) /\ x.op = "update"
  BY DEF Good, Run, Loops, Settles
<1>2. run' = [run EXCEPT ![r] = x] /\ UNCHANGED <<group, market, bet, keys>>
  BY DEF UpdateCheck
<1> HIDE DEF x
<1>3. x.op # "place" /\ x.op \notin Settles
  BY <1>1 DEF Settles
<1> QED BY <1>1, <1>2, <1>3, QuietSteps

(* A request that has nothing more to do, or dies.                         *)
LEMMA IdleSteps ==
    ASSUME IInv, NEW r \in Requests, run' = [run EXCEPT ![r] = Idle],
           UNCHANGED <<group, market, bet, keys>>
    PROVE  IInv'
<1>1. Idle.op # "place" /\ Idle.op \notin Settles
  BY IdleGood DEF Settles
<1> QED BY <1>1, IdleGood, QuietSteps

LEMMA UpdateSteps ==
    ASSUME IInv, NEW r \in Requests, NEW new \in Lists, update_house_event(r, new)
    PROVE  IInv'
<1>1. new \subseteq Children /\ \A c \in new : market[c] = NoMarket
  BY ListsAssumption DEF update_house_event, Unused
<1>2. Rows' /\ UNCHANGED bet
  BY <1>1, RowTypes DEF IInv, Rows, update_house_event
<1>3. group \in SUBSET Children
  BY DEF IInv, Rows
<1>4. \A c \in Children : Resolved(market, c) => c \in group \/ Resolved(market', c)
  BY <1>1 DEF update_house_event, Resolved, NoMarket
<1>5. /\ run' = [q \in Requests |-> run'[q]]
      /\ \A q \in Requests : run'[q] = IF q = r THEN Idle ELSE Told(run[q], group)
  BY IdleGood DEF update_house_event, Tell, Told, IInv, Settles
<1>6. Idle.op # "place" /\ Idle.op \notin Settles
  BY IdleGood DEF Settles
<1>7. \A q \in Requests : run[q].op = "place" => bet'[run[q].child] = "none"
  BY <1>2 DEF IInv, Good
<1>8. \A q \in Requests : \A c \in Children : Holds(q, c) => bet'[c] = "PENDING"
  BY <1>2, HoldsOf DEF IInv, Good, GoodLoop, Loops
<1>9. Good(Idle, market', bet')
  BY IdleGood
<1>10. \A c \in Children : bet[c] # "none" => bet'[c] # "none"
  BY <1>2
<1> QED BY <1>2, <1>3, <1>4, <1>5, <1>6, <1>7, <1>8, <1>9, <1>10, RequestSteps

-----------------------------------------------------------------------------
(* Placing *)

LEMMA PlaceReadSteps ==
    ASSUME IInv, NEW r \in Requests, NEW c \in Children, PlaceRead(r, c)
    PROVE  IInv'
<1> DEFINE x == [op |-> "place", child |-> c]
<1>1. x \in Run /\ x.op = "place" /\ x.child = c
  BY DEF Run, OnChild
<1>2. run' = [run EXCEPT ![r] = x] /\ UNCHANGED <<group, market, bet, keys>> /\ bet[c] = "none"
  BY DEF PlaceRead
<1>3. \A q \in Requests : run[q].op = "place" => run[q].child # c
  BY DEF PlaceRead
<1> HIDE DEF x
<1>4. Good(x, market, bet)
  BY <1>1, <1>2 DEF Good, Loops, Settles
<1>5. x.op \notin Settles
  BY <1>1 DEF Settles
<1> QED BY <1>1, <1>2, <1>3, <1>4, <1>5, QuietSteps

LEMMA PlaceCommitSteps ==
    ASSUME IInv, NEW r \in Requests, PlaceCommit(r)
    PROVE  IInv'
<1> DEFINE b == run[r].child
           unmoved == {}
<1>1. b \in Children /\ run[r].op = "place" /\ bet' = [bet EXCEPT ![b] = "PENDING"]
  BY RunFields DEF PlaceCommit, IInv, OnChild
<1>2. UNCHANGED <<group, market, keys>> /\ run' = [run EXCEPT ![r] = Idle]
  BY DEF PlaceCommit
<1>3. Rows'
  BY <1>1, <1>2 DEF IInv, Rows, BetStatus
<1>4. \A c \in Children : bet'[c] = IF c = b THEN "PENDING" ELSE bet[c]
  BY <1>1 DEF IInv, Rows
<1>5. /\ run' = [q \in Requests |-> run'[q]]
      /\ \A q \in Requests : run'[q] = IF q = r THEN Idle ELSE Told(run[q], unmoved)
  <2>1. \A q \in Requests : Told(run[q], unmoved) = run[q]
    BY ToldFields DEF IInv
  <2> QED BY <1>2, <2>1 DEF IInv
<1>6. Idle.op # "place" /\ Idle.op \notin Settles /\ Good(Idle, market', bet')
  BY IdleGood DEF Settles
<1>7. \A q \in Requests \ {r} : run[q].op = "place" => bet'[run[q].child] = "none"
  <2> SUFFICES ASSUME NEW q \in Requests \ {r}, run[q].op = "place"
               PROVE  bet'[run[q].child] = "none"
    OBVIOUS
  <2>1. run[q].child \in Children /\ bet[run[q].child] = "none"
    BY RunFields DEF IInv, Good, OnChild
  <2>2. run[q].child # b
    BY <1>1 DEF IInv, OnePlacer
  <2> QED BY <1>4, <2>1, <2>2
<1>8. \A q \in Requests : \A c \in Children : Holds(q, c) => bet'[c] = "PENDING"
  BY <1>4, HoldsOf DEF IInv, Good, GoodLoop, Loops
<1>9. \A c \in Children : bet[c] # "none" => bet'[c] # "none"
  BY <1>4
<1>10. unmoved \in SUBSET Children
  OBVIOUS
<1>11. \A c \in Children : Resolved(market, c) => c \in unmoved \/ Resolved(market', c)
  BY <1>2
<1> HIDE DEF unmoved
<1> QED BY <1>3, <1>5, <1>6, <1>7, <1>8, <1>9, <1>10, <1>11, RequestSteps

-----------------------------------------------------------------------------
(* Closing *)

LEMMA CloseLoadSteps ==
    ASSUME IInv, NEW r \in Requests, NEW c \in Children, CloseLoad(r, c)
    PROVE  IInv'
<1> DEFINE x == [op |-> "close", child |-> c]
<1>1. x \in Run /\ x.op = "close"
  BY DEF Run, OnChild
<1>2. run' = [run EXCEPT ![r] = x] /\ UNCHANGED <<group, market, bet, keys>>
  BY DEF CloseLoad
<1> HIDE DEF x
<1>3. Good(x, market, bet) /\ x.op \notin Settles /\ x.op # "place"
  BY <1>1 DEF Good, Loops, Settles
<1> QED BY <1>2, <1>3, QuietSteps

LEMMA CloseCommitSteps ==
    ASSUME IInv, NEW r \in Requests, CloseCommit(r)
    PROVE  IInv'
<1> DEFINE b == run[r].child
           undone == {d \in {b} : market[d].status = "RESOLVED"}
<1>1. b \in Children /\ undone \in SUBSET Children
  BY RunFields DEF CloseCommit, IInv, OnChild
<1>2. /\ market' = [market EXCEPT ![b].status = "CLOSED"] \/ UNCHANGED market
      /\ run' = Tell(undone, [run EXCEPT ![r] = Idle])
      /\ UNCHANGED <<group, bet, keys>>
  BY DEF CloseCommit
<1>3. \A c \in Children : Resolved(market, c) => c \in undone \/ Resolved(market', c)
  BY <1>1, <1>2 DEF Resolved, IInv, Rows
<1> HIDE DEF b, undone
<1>4. Rows'
  <2>1. [market[b] EXCEPT !.status = "CLOSED"] \in MarketRow
    BY <1>1 DEF IInv, Rows, MarketRow, Status
  <2> QED BY <1>1, <1>2, <2>1 DEF IInv, Rows
<1>5. /\ run' = [q \in Requests |-> run'[q]]
      /\ \A q \in Requests : run'[q] = IF q = r THEN Idle ELSE Told(run[q], undone)
  BY <1>2, IdleGood DEF Tell, Told, IInv, Settles
<1>6. Idle.op # "place" /\ Idle.op \notin Settles /\ Good(Idle, market', bet')
  BY IdleGood DEF Settles
<1>7. \A q \in Requests : run[q].op = "place" => bet'[run[q].child] = "none"
  BY <1>2 DEF IInv, Good
<1>8. \A q \in Requests : \A c \in Children : Holds(q, c) => bet'[c] = "PENDING"
  BY <1>2, HoldsOf DEF IInv, Good, GoodLoop, Loops
<1>9. \A c \in Children : bet[c] # "none" => bet'[c] # "none"
  BY <1>2
<1> QED BY <1>1, <1>3, <1>4, <1>5, <1>6, <1>7, <1>8, <1>9, RequestSteps

-----------------------------------------------------------------------------
(* The loops *)

LEMMA NothingSeenType == NothingSeen.bet \in BetStatus /\ NothingSeen.row \in MarketRow
BY RowTypes DEF NothingSeen, BetStatus

(* A run that has just read the group is good.                             *)
LEMMA LoopingGood ==
    ASSUME NEW op \in Loops, NEW todo \in Seq(Children \X Outcome), NEW mk, NEW bt
    PROVE  /\ Good(Looping(op, todo), mk, bt)
           /\ Looping(op, todo).op = op /\ Looping(op, todo).at = None
<1> DEFINE x == Looping(op, todo)
           seen == {s[1] : s \in ToSet(todo)}
<1>1. seen \in SUBSET Children
  BY DEF ToSet
<1>2. NothingSeen \in [bet : BetStatus, row : MarketRow]
  BY RowTypes DEF NothingSeen, BetStatus
<1>3. /\ x.op = op /\ x.todo = todo /\ x.at = None /\ x.seen = seen
      /\ x.saw = NothingSeen /\ x.failed = {} /\ x.moved = {}
  BY DEF Looping
<1>4. x \in LoopRun
  <2> HIDE DEF seen
  <2> QED BY <1>1, <1>2 DEF LoopRun, Looping, seen
<1>5. \A c \in seen : \E i \in 1..Len(todo) : todo[i][1] = c
  BY DEF ToSet
<1> HIDE DEF x, seen
<1>6. GoodLoop(x, mk, bt)
  BY <1>3, <1>5 DEF GoodLoop, Visits
<1>7. x.op # "place"
  BY <1>3 DEF Loops, Settles
<1> QED BY <1>3, <1>4, <1>6, <1>7 DEF Good, x, Run

LEMMA StartSteps ==
    ASSUME IInv, NEW r \in Requests, NEW op \in Loops, NEW todo \in Seq(Children \X Outcome),
           run' = [run EXCEPT ![r] = Looping(op, todo)], UNCHANGED <<group, market, bet, keys>>
    PROVE  IInv'
<1> DEFINE x == Looping(op, todo)
<1>1. Good(x, market, bet) /\ x.op = op /\ x.at = None
  BY LoopingGood
<1>2. x.op # "place" /\ \A c \in Children : x.at # c
  BY <1>1, ChildrenAssumption DEF Loops, Settles
<1>3. run' = [run EXCEPT ![r] = x]
  OBVIOUS
<1> HIDE DEF x
<1> QED BY <1>1, <1>2, <1>3, QuietSteps

LEMMA ResolveSteps ==
    ASSUME IInv, NEW r \in Requests, NEW w \in Children, resolve_event(r, w)
    PROVE  IInv'
<1> DEFINE todo == <<<<w, "YES">>>> \o On("NO", group \ {w})
<1>1. group \ {w} \in SUBSET Children /\ "NO" \in Outcome
  BY DEF IInv, Rows, Outcome
<1>2. On("NO", group \ {w}) \in Seq(Children \X Outcome)
  BY <1>1, OnType
<1>3. <<<<w, "YES">>>> \in Seq(Children \X Outcome)
  BY DEF Outcome
<1>4. todo \in Seq(Children \X Outcome)
  BY <1>2, <1>3, ConcatProperties
<1>5. run' = [run EXCEPT ![r] = Looping("resolve", todo)] /\ UNCHANGED <<group, market, bet, keys>>
  BY DEF resolve_event
<1> HIDE DEF todo
<1> QED BY <1>4, <1>5, StartSteps DEF Loops, Settles

LEMMA VoidSteps ==
    ASSUME IInv, NEW r \in Requests, void_event(r)
    PROVE  IInv'
<1>1. On("NO", group) \in Seq(Children \X Outcome)
  BY OnType DEF IInv, Rows, Outcome
<1> QED BY <1>1, StartSteps DEF void_event, Loops, Settles

LEMMA ReverseEventSteps ==
    ASSUME IInv, NEW r \in Requests, reverse_event(r)
    PROVE  IInv'
<1>1. On("NO", group) \in Seq(Children \X Outcome)
  BY OnType DEF IInv, Rows, Outcome
<1> QED BY <1>1, StartSteps DEF reverse_event, Loops

\* The head of the list.
LEMMA HeadChild ==
    ASSUME NEW x \in LoopRun, x.todo # <<>>
    PROVE  x.todo[1][1] \in Children /\ x.todo[1][2] \in Outcome /\ 1 \in 1..Len(x.todo)
<1>1. x.todo \in Seq(Children \X Outcome)
  BY LoopFields
<1>2. Len(x.todo) \in Nat \ {0} /\ x.todo[1] \in Children \X Outcome
  BY <1>1
<1> QED BY <1>2

(* A child's transaction opens: the request sees its bet and its row.      *)
LEMMA OpenSteps ==
    ASSUME IInv, NEW r \in Requests, run[r].op \in Loops, run[r].todo # <<>>,
           NEW saw \in [bet : BetStatus, row : MarketRow], NEW x,
           x \in LoopRun, x.op = run[r].op, x.todo = run[r].todo, x.at = Head1(r), x.saw = saw,
           x.seen = run[r].seen, x.failed = run[r].failed, x.moved = run[r].moved,
           saw = [bet |-> bet[Head1(r)], row |-> NoMarket],
           run[r].op \in Settles /\ saw.bet = "PENDING" => Unlocked(Head1(r)),
           run' = [run EXCEPT ![r] = x], UNCHANGED <<group, market, bet, keys>>
    PROVE  IInv'
<1>1. Good(run[r], market, bet) /\ run[r] \in LoopRun
  BY RunFields DEF IInv
<1>2. Head1(r) \in Children
  BY <1>1, HeadChild DEF Head1
<1>3. x.op \in Settles => \A c \in x.seen \ (x.failed \cup x.moved) : Visits(x, c) \/ Resolved(market, c)
  BY <1>1 DEF Good, GoodLoop, Visits
<1>4. GoodLoop(x, market, bet)
  BY <1>3 DEF GoodLoop, Head1, NoMarket
<1>5. x.op # "place"
  BY DEF Loops, Settles
<1>6. Good(x, market, bet)
  BY <1>4, <1>5 DEF Good, Run
<1>7. \A c \in Children : x.op \in Settles /\ x.at = c /\ x.saw.bet = "PENDING" =>
        \A q \in Requests \ {r} : ~Holds(q, c)
  BY DEF Unlocked
<1> QED BY <1>5, <1>6, <1>7, QuietSteps

LEMMA SettleBeginSteps ==
    ASSUME IInv, NEW r \in Requests, SettleBegin(r)
    PROVE  IInv'
<1> DEFINE saw == [bet |-> bet[Head1(r)], row |-> NoMarket]
           x == [run[r] EXCEPT !.at = Head1(r), !.saw = saw]
<1>1. run[r].op \in Settles /\ run[r].op \in Loops /\ run[r].todo # <<>>
  BY DEF SettleBegin, Between, InLoop
<1>2. run[r] \in LoopRun
  BY <1>1, RunFields DEF IInv
<1>3. Head1(r) \in Children
  BY <1>1, <1>2, HeadChild DEF Head1
<1>4. saw \in [bet : BetStatus, row : MarketRow] /\ saw = [bet |-> bet[Head1(r)], row |-> NoMarket]
  BY <1>3, RowTypes DEF IInv, Rows
<1>5. run' = [run EXCEPT ![r] = x] /\ UNCHANGED <<group, market, bet, keys>>
  BY DEF SettleBegin
<1>6. saw.bet = "PENDING" => Unlocked(Head1(r))
  BY DEF SettleBegin
<1> HIDE DEF saw
<1>7. /\ x \in LoopRun /\ x.op = run[r].op /\ x.todo = run[r].todo /\ x.at = Head1(r)
      /\ x.saw = saw /\ x.seen = run[r].seen /\ x.failed = run[r].failed /\ x.moved = run[r].moved
  BY <1>2, <1>3, <1>4 DEF LoopRun
<1> HIDE DEF x
<1> QED BY <1>1, <1>4, <1>5, <1>6, <1>7, OpenSteps

LEMMA ReverseBeginSteps ==
    ASSUME IInv, NEW r \in Requests, ReverseBegin(r)
    PROVE  IInv'
<1> DEFINE saw == [bet |-> bet[Head1(r)], row |-> NoMarket]
           x == [run[r] EXCEPT !.at = Head1(r), !.saw = saw]
<1>1. run[r].op = "reverse" /\ run[r].op \in Loops /\ run[r].op \notin Settles /\ run[r].todo # <<>>
  BY DEF ReverseBegin, Between, InLoop, Settles
<1>2. run[r] \in LoopRun
  BY <1>1, RunFields DEF IInv
<1>3. Head1(r) \in Children
  BY <1>1, <1>2, HeadChild DEF Head1
<1>4. saw \in [bet : BetStatus, row : MarketRow] /\ saw = [bet |-> bet[Head1(r)], row |-> NoMarket]
  BY <1>3, RowTypes DEF IInv, Rows
<1>5. run' = [run EXCEPT ![r] = x] /\ UNCHANGED <<group, market, bet, keys>>
  BY DEF ReverseBegin
<1> HIDE DEF saw
<1>6. /\ x \in LoopRun /\ x.op = run[r].op /\ x.todo = run[r].todo /\ x.at = Head1(r)
      /\ x.saw = saw /\ x.seen = run[r].seen /\ x.failed = run[r].failed /\ x.moved = run[r].moved
  BY <1>2, <1>3, <1>4 DEF LoopRun
<1> HIDE DEF x
<1> QED BY <1>1, <1>4, <1>5, <1>6, OpenSteps

(* On to the next child.                                                   *)
LEMMA NextFields ==
    ASSUME IInv, NEW r \in Requests, run[r].op \in Loops, run[r].todo # <<>>,
           NEW failed \in SUBSET Children
    PROVE  /\ Next1(r, failed) \in LoopRun
           /\ Next1(r, failed).op = run[r].op
           /\ Next1(r, failed).at = None
           /\ Next1(r, failed).seen = run[r].seen
           /\ Next1(r, failed).failed = run[r].failed \cup failed
           /\ Next1(r, failed).moved = run[r].moved
           /\ \A c \in Children : Visits(run[r], c) => c = Head1(r) \/ Visits(Next1(r, failed), c)
<1> DEFINE x == run[r]
           y == Next1(r, failed)
<1>1. x \in LoopRun
  BY RunFields DEF IInv
<1>2. x.todo \in Seq(Children \X Outcome) /\ x.todo # <<>>
  BY <1>1, LoopFields
<1>3. /\ Tail(x.todo) \in Seq(Children \X Outcome) /\ Len(Tail(x.todo)) = Len(x.todo) - 1
      /\ \A i \in 1..Len(Tail(x.todo)) : Tail(x.todo)[i] = x.todo[i + 1]
  BY <1>2, HeadTailProperties
<1>4. NothingSeen \in [bet : BetStatus, row : MarketRow]
  BY RowTypes DEF NothingSeen, BetStatus
<1>5. /\ y \in LoopRun /\ y.op = x.op /\ y.at = None /\ y.seen = x.seen
      /\ y.failed = x.failed \cup failed /\ y.moved = x.moved /\ y.todo = Tail(x.todo)
  BY <1>1, <1>3, <1>4 DEF Next1, LoopRun
<1> HIDE DEF y
<1>6. ASSUME NEW c \in Children, Visits(x, c) PROVE c = Head1(r) \/ Visits(y, c)
  <2>1. PICK i \in 1..Len(x.todo) : x.todo[i][1] = c
    BY <1>6 DEF Visits
  <2>2. Len(x.todo) \in Nat
    BY <1>2
  <2>3. CASE i = 1
    BY <2>1, <2>3 DEF Head1
  <2>4. CASE i # 1
    <3>1. i - 1 \in 1..Len(Tail(x.todo)) /\ (i - 1) + 1 = i
      BY <1>3, <2>2, <2>4
    <3>2. Tail(x.todo)[i - 1][1] = c
      BY <1>3, <2>1, <3>1
    <3> QED BY <1>5, <3>1, <3>2 DEF Visits
  <2> QED BY <2>3, <2>4
<1> QED BY <1>5, <1>6 DEF y

(* The child that is left failed, or is RESOLVED, or was moved.            *)
LEMMA NextGood ==
    ASSUME IInv, NEW r \in Requests, run[r].op \in Loops, run[r].todo # <<>>,
           NEW failed \in SUBSET Children, NEW mk, NEW bt,
           \A c \in Children : Resolved(market, c) => Resolved(mk, c),
           run[r].op \in Settles =>
             Head1(r) \in failed \cup run[r].moved \/ Resolved(mk, Head1(r))
    PROVE  Good(Next1(r, failed), mk, bt)
<1> DEFINE y == Next1(r, failed)
<1>1. /\ y \in LoopRun /\ y.op = run[r].op /\ y.at = None /\ y.seen = run[r].seen
      /\ y.failed = run[r].failed \cup failed /\ y.moved = run[r].moved
      /\ \A c \in Children : Visits(run[r], c) => c = Head1(r) \/ Visits(y, c)
  BY NextFields
<1> HIDE DEF y
<1>2. run[r].seen \in SUBSET Children
  BY RunFields, LoopFields DEF IInv
<1>3. y.op \in Settles => \A c \in y.seen \ (y.failed \cup y.moved) : Visits(y, c) \/ Resolved(mk, c)
  BY <1>1, <1>2 DEF IInv, Good, GoodLoop
<1>4. GoodLoop(y, mk, bt)
  BY <1>1, <1>3 DEF GoodLoop
<1>5. y.op # "place"
  BY <1>1 DEF Loops, Settles
<1> QED BY <1>1, <1>4, <1>5 DEF Good, Run, y

\* The child whose transaction is open is the first that is still to be visited.
LEMMA OpenChild ==
    ASSUME IInv, NEW r \in Requests, run[r].op \in Loops, run[r].at # None
    PROVE  /\ run[r].todo # <<>> /\ run[r].at = Head1(r)
           /\ run[r].at \in Children /\ Asked(r) \in Outcome
           /\ GoodLoop(run[r], market, bet)
           /\ run[r].saw.bet \in BetStatus
<1>1. run[r] \in LoopRun /\ GoodLoop(run[r], market, bet)
  BY RunFields DEF IInv, Good
<1>2. run[r].todo # <<>> /\ run[r].at = Head1(r)
  BY <1>1 DEF GoodLoop, Head1
<1> QED BY <1>1, <1>2, HeadChild, LoopFields DEF Head1, Asked

(* The open transaction loads the market row as it is now.                 *)
LEMMA MarketLoadSteps ==
    ASSUME IInv, NEW r \in Requests, MarketLoad(r)
    PROVE  IInv'
<1> DEFINE x == [run[r] EXCEPT !.saw.row = market[run[r].at]]
<1>1. run[r].op \in Loops /\ run[r].at # None
  BY DEF MarketLoad, InLoop
<1>2. run[r] \in LoopRun /\ run[r].at \in Children /\ GoodLoop(run[r], market, bet)
  BY <1>1, OpenChild, RunFields DEF IInv
<1>3. market[run[r].at] \in MarketRow
  BY <1>2 DEF IInv, Rows
<1>4. /\ x \in LoopRun /\ x.op = run[r].op /\ x.todo = run[r].todo /\ x.at = run[r].at
      /\ x.saw.bet = run[r].saw.bet /\ x.saw.row = market[run[r].at]
      /\ x.seen = run[r].seen /\ x.failed = run[r].failed /\ x.moved = run[r].moved
  BY <1>2, <1>3 DEF LoopRun
<1>5. run' = [run EXCEPT ![r] = x] /\ UNCHANGED <<group, market, bet, keys>>
  BY DEF MarketLoad
<1> HIDE DEF x
<1>6. \A c : Visits(x, c) <=> Visits(run[r], c)
  BY <1>4 DEF Visits
<1>7. GoodLoop(x, market, bet)
  BY <1>2, <1>4, <1>6 DEF GoodLoop, Resolved
<1>8. x.op # "place"
  BY <1>1, <1>4 DEF Loops, Settles
<1>9. Good(x, market, bet)
  BY <1>4, <1>7, <1>8 DEF Good, Run
<1>10. \A c \in Children : x.op \in Settles /\ x.at = c /\ x.saw.bet = "PENDING" =>
         \A q \in Requests \ {r} : ~Holds(q, c)
  <2> SUFFICES ASSUME NEW c \in Children, x.op \in Settles, x.at = c, x.saw.bet = "PENDING"
               PROVE  \A q \in Requests \ {r} : ~Holds(q, c)
    OBVIOUS
  <2>1. Holds(r, c)
    BY <1>1, <1>4, HoldsOf
  <2> QED BY <2>1 DEF IInv, OneHolder
<1> QED BY <1>5, <1>8, <1>9, <1>10, QuietSteps

(* A child is left behind, and nothing is written.                         *)
LEMMA LeaveSteps ==
    ASSUME IInv, NEW r \in Requests, run[r].op \in Loops, run[r].at # None,
           NEW failed \in SUBSET Children,
           run[r].op \in Settles => run[r].at \in failed,
           run' = [run EXCEPT ![r] = Next1(r, failed)], UNCHANGED <<group, market, bet, keys>>
    PROVE  IInv'
<1> DEFINE x == Next1(r, failed)
<1>1. run[r].todo # <<>> /\ run[r].at = Head1(r)
  BY OpenChild
<1>2. Good(x, market, bet)
  BY <1>1, NextGood
<1>3. x.op = run[r].op /\ x.at = None
  BY <1>1, NextFields
<1>4. x.op # "place" /\ \A c \in Children : x.at # c
  BY <1>3, ChildrenAssumption DEF Loops, Settles
<1>5. run' = [run EXCEPT ![r] = x]
  OBVIOUS
<1> HIDE DEF x
<1> QED BY <1>2, <1>4, <1>5, QuietSteps

LEMMA ChildFailSteps ==
    ASSUME IInv, NEW r \in Requests, ChildFail(r)
    PROVE  IInv'
<1>1. run[r].op \in Loops /\ run[r].at # None
  BY DEF ChildFail, InLoop
<1>2. {run[r].at} \in SUBSET Children
  BY <1>1, OpenChild
<1> QED BY <1>1, <1>2, LeaveSteps DEF ChildFail

LEMMA ReverseNothingSteps ==
    ASSUME IInv, NEW r \in Requests, ReverseNothing(r)
    PROVE  IInv'
<1>1. run[r].op \in Loops /\ run[r].at # None /\ run[r].op \notin Settles
  BY DEF ReverseNothing, Inside, Loops, Settles
<1>2. {} \in SUBSET Children
  OBVIOUS
<1> QED BY <1>1, <1>2, LeaveSteps DEF ReverseNothing

(* A child's transaction commits: it wrote the child's bet and market.     *)
LEMMA CommitSteps ==
    ASSUME IInv, NEW r \in Requests, run[r].op \in Loops, run[r].at # None,
           Rows', NEW moved \in SUBSET Children,
           \A c \in Children : bet'[c] # bet[c] => c = run[r].at /\ bet'[c] # "none" /\ bet[c] # "none",
           \A q \in Requests \ {r} : \A c \in Children : Holds(q, c) => bet'[c] = "PENDING",
           \A c \in Children : Resolved(market, c) => c \in moved \/ Resolved(market', c),
           Good(Next1(r, {}), market', bet'),
           run' = [q \in Requests |-> run'[q]],
           \A q \in Requests : run'[q] = IF q = r THEN Next1(r, {}) ELSE Told(run[q], moved)
    PROVE  IInv'
<1> DEFINE x == Next1(r, {})
<1>1. run[r].todo # <<>>
  BY OpenChild
<1>2. {} \in SUBSET Children
  OBVIOUS
<1>3. x.op = run[r].op /\ x.at = None
  BY <1>1, <1>2, NextFields
<1>4. x.op # "place" /\ \A c \in Children : x.at # c
  BY <1>3, ChildrenAssumption DEF Loops, Settles
<1>5. \A q \in Requests \ {r} : run[q].op = "place" => bet'[run[q].child] = "none"
  <2> SUFFICES ASSUME NEW q \in Requests \ {r}, run[q].op = "place"
               PROVE  bet'[run[q].child] = "none"
    OBVIOUS
  <2>1. run[q].child \in Children /\ bet[run[q].child] = "none"
    BY RunFields DEF IInv, Good, OnChild
  <2> QED BY <2>1
<1>6. \A c \in Children : bet[c] # "none" => bet'[c] # "none"
  OBVIOUS
<1>7. Good(x, market', bet') /\ \A q \in Requests : run'[q] = IF q = r THEN x ELSE Told(run[q], moved)
  OBVIOUS
<1> HIDE DEF x
<1> QED BY <1>4, <1>5, <1>6, <1>7, RequestSteps

LEMMA SettleCommitSteps ==
    ASSUME IInv, NEW r \in Requests, SettleCommit(r)
    PROVE  IInv'
<1> DEFINE b == run[r].at
           unmoved == {}
<1>1. run[r].op \in Settles /\ run[r].op \in Loops /\ b # None /\ Stampable(r)
  BY DEF SettleCommit, Inside, Loops
<1>2. /\ run[r].todo # <<>> /\ b = Head1(r) /\ b \in Children /\ Asked(r) \in Outcome
      /\ GoodLoop(run[r], market, bet)
  BY <1>1, OpenChild
<1>3. /\ market' = [market EXCEPT ![b] = stamped(run[r].saw.row, market[b], Asked(r))]
      /\ run' = [run EXCEPT ![r] = Next1(r, {})] /\ UNCHANGED group
  BY DEF SettleCommit
<1>4. \/ /\ run[r].saw.bet = "PENDING"
         /\ keys' = keys \cup {SettleKey(r)}
         /\ bet' = [bet EXCEPT ![b] = IF Asked(r) = "YES" THEN "SETTLED_WON" ELSE "SETTLED_LOST"]
      \/ UNCHANGED <<bet, keys>>
  BY DEF SettleCommit
<1>5. stamped(run[r].saw.row, market[b], Asked(r)) \in MarketRow
  BY <1>2 DEF stamped, IInv, Rows, MarketRow, Status
<1> HIDE DEF b
<1>6. Rows'
  <2>1. SettleKey(r) \in {"settle", "reverse"} \X Children \X Outcome
    BY <1>2 DEF SettleKey, b
  <2> QED BY <1>2, <1>3, <1>4, <1>5, <2>1 DEF IInv, Rows, BetStatus, Settled
<1>7. \A c \in Children : bet'[c] # bet[c] =>
        /\ c = b /\ run[r].saw.bet = "PENDING" /\ bet'[c] # "none" /\ bet[c] = "PENDING"
  BY <1>1, <1>2, <1>4 DEF IInv, Rows, GoodLoop, b
<1>8. \A q \in Requests \ {r} : \A c \in Children : Holds(q, c) => bet'[c] = "PENDING"
  <2> SUFFICES ASSUME NEW q \in Requests \ {r}, NEW c \in Children, Holds(q, c), bet'[c] # bet[c]
               PROVE  FALSE
    BY HoldsOf DEF IInv, Good, GoodLoop, Loops
  <2>1. c = b /\ run[r].saw.bet = "PENDING"
    BY <1>7
  <2>2. Holds(r, c)
    BY <1>1, <2>1, HoldsOf DEF b
  <2> QED BY <2>2 DEF IInv, OneHolder
<1>9. \A c \in Children : Resolved(market, c) => Resolved(market', c)
  BY <1>2, <1>3 DEF stamped, Resolved, IInv, Rows
<1>10. b \in run[r].moved \/ Resolved(market', b)
  BY <1>1, <1>2, <1>3, <1>9 DEF stamped, Resolved, IInv, Rows, GoodLoop, b
<1>11. Good(Next1(r, {}), market', bet')
  BY <1>1, <1>2, <1>9, <1>10, NextGood
<1>12. /\ run' = [q \in Requests |-> run'[q]]
       /\ \A q \in Requests : run'[q] = IF q = r THEN Next1(r, {}) ELSE Told(run[q], unmoved)
  <2>1. \A q \in Requests : Told(run[q], unmoved) = run[q]
    BY ToldFields DEF IInv
  <2> QED BY <1>3, <2>1 DEF IInv
<1>13. unmoved \in SUBSET Children
       /\ \A c \in Children : Resolved(market, c) => c \in unmoved \/ Resolved(market', c)
  BY <1>9
<1>14. \A c \in Children : bet'[c] # bet[c] => c = run[r].at /\ bet'[c] # "none" /\ bet[c] # "none"
  BY <1>7 DEF b
<1> HIDE DEF unmoved
<1> QED BY <1>1, <1>6, <1>8, <1>11, <1>12, <1>13, <1>14, CommitSteps DEF b

LEMMA ReverseCommitSteps ==
    ASSUME IInv, NEW r \in Requests, ReverseCommit(r)
    PROVE  IInv'
<1> DEFINE b == run[r].at
           moved == {b}
<1>1. run[r].op = "reverse" /\ run[r].op \in Loops /\ run[r].op \notin Settles /\ b # None
  BY DEF ReverseCommit, Inside, Loops, Settles
<1>2. /\ run[r].todo # <<>> /\ b = Head1(r) /\ b \in Children /\ GoodLoop(run[r], market, bet)
  BY <1>1, OpenChild
<1>3. /\ market[b] # NoMarket /\ run[r].saw.bet \in Settled
      /\ keys' = keys \cup {ReverseKey(r)}
      /\ bet' = [bet EXCEPT ![b] = "PENDING"]
      /\ market' = [market EXCEPT ![b] = reopened(run[r].saw.row, market[b])]
      /\ run' = Tell(moved, [run EXCEPT ![r] = Next1(r, {})])
      /\ UNCHANGED group
  BY DEF ReverseCommit
<1>4. reopened(run[r].saw.row, market[b]) \in MarketRow
  BY <1>2 DEF reopened, IInv, Rows, MarketRow, Status
<1> HIDE DEF b
<1>5. Rows'
  <2>1. ReverseKey(r) \in {"settle", "reverse"} \X Children \X Outcome
    BY <1>2 DEF ReverseKey, b, Outcome
  <2> QED BY <1>2, <1>3, <1>4, <2>1 DEF IInv, Rows, BetStatus
<1>6. bet[b] # "none"
  BY <1>1, <1>2, <1>3 DEF GoodLoop, Settled, b
<1>7. \A c \in Children : bet'[c] # bet[c] => c = b /\ bet'[c] = "PENDING" /\ bet[c] # "none"
  BY <1>2, <1>3, <1>6 DEF IInv, Rows
<1>8. \A q \in Requests \ {r} : \A c \in Children : Holds(q, c) => bet'[c] = "PENDING"
  BY <1>7, HoldsOf DEF IInv, Good, GoodLoop, Loops
<1>9. \A c \in Children : Resolved(market, c) => c \in moved \/ Resolved(market', c)
  BY <1>2, <1>3 DEF Resolved, IInv, Rows
<1>10. {} \in SUBSET Children /\ moved \in SUBSET Children
  BY <1>2
<1>11. Next1(r, {}).op = run[r].op /\ Next1(r, {}) \in LoopRun /\ Next1(r, {}).at = None
  BY <1>1, <1>2, <1>10, NextFields
<1>12. Good(Next1(r, {}), market', bet')
  <2>1. Next1(r, {}).op # "place" /\ Next1(r, {}).op \notin Settles
    BY <1>1, <1>11 DEF Settles
  <2> QED BY <1>11, <2>1 DEF Good, GoodLoop, Run
<1>13. /\ run' = [q \in Requests |-> run'[q]]
       /\ \A q \in Requests : run'[q] = IF q = r THEN Next1(r, {}) ELSE Told(run[q], moved)
  <2> HIDE DEF moved
  <2> QED BY <1>1, <1>3, <1>11 DEF Tell, Told, IInv
<1>14. \A c \in Children : bet'[c] # bet[c] => c = run[r].at /\ bet'[c] # "none" /\ bet[c] # "none"
  BY <1>7 DEF b
<1> HIDE DEF moved
<1> QED BY <1>1, <1>5, <1>8, <1>9, <1>10, <1>12, <1>13, <1>14, CommitSteps DEF b

-----------------------------------------------------------------------------
(* Every step *)

LEMMA Initially == Init => IInv
<1> SUFFICES ASSUME Init PROVE IInv
  OBVIOUS
<1>1. Rows
  BY RowTypes DEF Init, Rows, BetStatus
<1>2. run \in [Requests -> Run] /\ \A r \in Requests : run[r] = Idle /\ Good(run[r], market, bet)
  BY IdleGood DEF Init, Good
<1>3. \A r \in Requests : run[r].op = "idle"
  BY <1>2, IdleGood
<1>4. OnePlacer /\ OneHolder
  BY <1>3, HoldsOf DEF OnePlacer, OneHolder, Settles
<1> QED BY <1>1, <1>2, <1>4 DEF IInv

LEMMA Stuttering == IInv /\ UNCHANGED vars => IInv'
BY DEF vars, IInv, Rows, Good, GoodLoop, Resolved, OnePlacer, OneHolder, Holds, Inside

LEMMA ArriveSteps ==
    ASSUME IInv, NEW r \in Requests, Arrive(r)
    PROVE  IInv'
BY UpdateCheckSteps, VoidSteps, ReverseEventSteps, PlaceReadSteps, CloseLoadSteps, ResolveSteps DEF Arrive

LEMMA StepSteps ==
    ASSUME IInv, NEW r \in Requests, Step(r)
    PROVE  IInv'
<1>1. CASE \E new \in Lists : update_house_event(r, new)
  BY <1>1, UpdateSteps
<1>2. CASE EditMetadata(r)
  BY <1>2, IdleSteps DEF EditMetadata
<1>3. CASE PlaceCommit(r)
  BY <1>3, PlaceCommitSteps
<1>4. CASE SettleBegin(r)
  BY <1>4, SettleBeginSteps
<1>5. CASE SettleCommit(r)
  BY <1>5, SettleCommitSteps
<1>6. CASE ChildFail(r)
  BY <1>6, ChildFailSteps
<1>7. CASE ReverseBegin(r)
  BY <1>7, ReverseBeginSteps
<1>8. CASE ReverseNothing(r)
  BY <1>8, ReverseNothingSteps
<1>9. CASE ReverseCommit(r)
  BY <1>9, ReverseCommitSteps
<1>10. CASE Report(r)
  BY <1>10, IdleSteps DEF Report
<1>11. CASE CloseCommit(r)
  BY <1>11, CloseCommitSteps
<1>12. CASE MarketLoad(r)
  BY <1>12, MarketLoadSteps
<1> QED BY <1>1, <1>2, <1>3, <1>4, <1>5, <1>6, <1>7, <1>8, <1>9, <1>10, <1>11, <1>12 DEF Step

LEMMA NextSteps == IInv /\ [Next]_vars => IInv'
<1> SUFFICES ASSUME IInv, Next PROVE IInv'
  BY Stuttering
<1>1. CASE \E new \in Lists : create_house_event(new)
  BY <1>1, CreateSteps
<1>2. ASSUME NEW r \in Requests, Arrive(r) \/ Step(r) \/ Crash(r) PROVE IInv'
  BY <1>2, ArriveSteps, StepSteps, IdleSteps DEF Crash
<1> QED BY <1>1, <1>2 DEF Next

(* The event's rows and requests keep the inductive invariant.             *)
THEOREM EventInvariant == Spec => []IInv
BY Initially, NextSteps, PTL DEF Spec

(* TypeOK: rows and requests keep their types.                             *)
THEOREM EventTypes == Spec => []TypeOK
<1>1. IInv => TypeOK
  BY DEF IInv, Rows, TypeOK
<1> QED BY <1>1, EventInvariant, PTL

(* ReportTellsTheTruth: a child that a finished settlement does not list   *)
(* as failed is RESOLVED, unless it was reversed or replaced since, or     *)
(* closed by a request that had loaded it while it was OPEN.               *)
THEOREM ReportsTellTheTruth == Spec => []ReportTellsTheTruth
<1>1. IInv => ReportTellsTheTruth
  <2> SUFFICES ASSUME IInv, NEW r \in Requests, run[r].op \in Settles, run[r].todo = <<>>,
                      NEW c \in run[r].seen \ (run[r].failed \cup run[r].moved)
               PROVE  market[c].status = "RESOLVED"
    BY DEF ReportTellsTheTruth
  <2>1. Visits(run[r], c) \/ Resolved(market, c)
    BY DEF IInv, Good, GoodLoop, Loops
  <2>2. ~Visits(run[r], c)
    BY DEF Visits
  <2> QED BY <2>1, <2>2 DEF Resolved
<1> QED BY <1>1, EventInvariant, PTL

(* SiblingsStayIntact: what was paid on a child is taken back only by the  *)
(* transaction of a reversal that has come to this child.                  *)
THEOREM OnlyReversalsTakeBack == Spec => SiblingsStayIntact
<1> DEFINE Intact == \A c \in Children : bet[c] \in Settled /\ bet'[c] # bet[c] =>
                        \E r \in Requests : Inside(r, {"reverse"}) /\ run[r].at = c
<1>1. IInv /\ [Next]_vars => [Intact]_vars
  <2> SUFFICES ASSUME IInv, [Next]_vars, NEW c \in Children, bet[c] \in Settled, bet'[c] # bet[c]
               PROVE  \E r \in Requests : Inside(r, {"reverse"}) /\ run[r].at = c
    OBVIOUS
  <2>1. PICK r \in Requests : PlaceCommit(r) \/ SettleCommit(r) \/ ReverseCommit(r)
    <3>1. ~UNCHANGED bet
      OBVIOUS
    <3> QED BY <3>1 DEF Next, vars, create_house_event, Arrive, UpdateCheck, void_event, reverse_event,
               PlaceRead, CloseLoad, resolve_event, Step, update_house_event, EditMetadata,
               CloseCommit, SettleBegin, MarketLoad, ChildFail, ReverseBegin, ReverseNothing, Report, Crash
  <2>2. CASE PlaceCommit(r)
    <3>1. bet[run[r].child] = "none" /\ run[r].child \in Children
      BY <2>2, RunFields DEF PlaceCommit, IInv, Good, OnChild
    <3> QED BY <2>2, <3>1 DEF PlaceCommit, IInv, Rows, Settled
  <2>3. CASE SettleCommit(r)
    <3>1. run[r].op \in Settles /\ run[r].op \in Loops /\ run[r].at # None
      BY <2>3 DEF SettleCommit, Inside, Loops
    <3>2. run[r].saw.bet = "PENDING" => bet[run[r].at] = "PENDING"
      BY <3>1, OpenChild DEF GoodLoop
    <3> QED BY <2>3, <3>2 DEF SettleCommit, IInv, Rows, Settled
  <2>4. CASE ReverseCommit(r)
    <3>1. Inside(r, {"reverse"}) /\ bet' = [bet EXCEPT ![run[r].at] = "PENDING"]
      BY <2>4 DEF ReverseCommit
    <3> QED BY <3>1 DEF IInv, Rows
  <2> QED BY <2>1, <2>2, <2>3, <2>4
<1> QED BY <1>1, EventInvariant, PTL DEF Spec, SiblingsStayIntact
=============================================================================
