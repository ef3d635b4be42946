----------------------------- MODULE WalletProofs -----------------------------
(***************************************************************************)
(* The safety properties of WalletTransactions, for any number of players, *)
(* accounts, live bets and concurrent requests.                            *)
(***************************************************************************)
EXTENDS WalletTransactions, ArithmeticProofs

Names(leg, a) == a = leg.debit \/ a = leg.credit
Named(posts, a) == \E i \in 1..Len(posts) : Names(posts[i].leg, a)

FundKey == ({"recharge"} \X ClientKeys) \cup ({"bonus"} \X Users)
BetKey  == {"bet"} \X (1..MaxStakes)

\* What a request may rely on about its locals and the rows it has locked.
FundLocal(r) ==
    \E key \in FundKey, u \in Users, amount \in Nat \ {0} :
        r.posts = <<Row(key, HousePromo, WalletOf[u], amount)>>
StakeLocal(r) ==
    \E key \in BetKey, u \in Users, amount \in Nat \ {0} :
        r.posts = <<Row(key, WalletOf[u], Pool, amount)>>
ViewLocal(r) == r.view.status \in Terminal /\ r.view = upstream[r.bet]
SettleLocal(r) ==
    /\ ViewLocal(r)
    /\ mirror[r.bet] # NoMirror
    /\ r.view.status = "WON" => r.view.payout \in Nat /\ r.view.payout >= mirror[r.bet].stake
    /\ r.posts = SettlePosts(r.bet, mirror[r.bet].stake, r.view, mirror[r.bet].user)
PlaceLocal(r) == r.held = {}
ClaimLocal(r) == mirror[r.bet] = NoMirror /\ r.held \subseteq {WalletOf[r.user]}
CoveredLocal(r) ==
    /\ mirror[r.bet] = NoMirror
    /\ WalletOf[r.user] \in r.held /\ r.held \subseteq {WalletOf[r.user], Escrow}
    /\ balance[WalletOf[r.user]] >= r.stake

Local(r) ==
    /\ r.op \in {"fund", "replay"} => FundLocal(r)
    /\ r.op = "stake"    => StakeLocal(r)
    /\ r.op = "verified" => ViewLocal(r)
    /\ r.op = "settle"   => SettleLocal(r)
    /\ r.op = "place"    => PlaceLocal(r)
    /\ r.op = "claim"    => ClaimLocal(r)
    /\ r.op = "covered"  => CoveredLocal(r)
Locals == \A t \in Tx : Local(tx[t])

\* What is locked comes before what is still to be locked.
InOrder(r) ==
    r.op \in {"fund", "stake", "settle"} =>
        \A a \in r.held, c \in Account : Named(r.posts, c) /\ c \notin r.held => a < c
LocksInOrder == \A t \in Tx : InOrder(tx[t])

LocksExclusive  == \A t, v \in Tx : t # v => tx[t].held \cap tx[v].held = {}
ClaimsExclusive ==
    \A t, v \in Tx : \A b \in LiveBets : t # v /\ Claims(t, b) => ~Claims(v, b)

IInv == /\ TypeOK
        /\ Locals /\ LocksInOrder /\ LocksExclusive /\ ClaimsExclusive
        /\ TransfersTellMirror /\ EscrowBacksMirror

-----------------------------------------------------------------------------
(* Constants and helpers *)

LEMMA ConstantTypes ==
    /\ NumAccounts \in Nat /\ NumLiveBets \in Nat /\ PromoOpening \in Nat
    /\ \A a \in Account : a \in Nat
    /\ HousePromo \in Account /\ HouseRevenue \in Account /\ HousePromo # HouseRevenue
    /\ Escrow \in Account /\ Pool \in Account
    /\ \A u \in Users : WalletOf[u] \in Account
    /\ \A u \in Users : WalletOf[u] \notin {HousePromo, HouseRevenue, Pool, Escrow}
    /\ Pool # Escrow /\ Escrow \notin {HousePromo, HouseRevenue}
    /\ \A s \in Stakes : s \in Nat \ {0}
    /\ \A p \in Payouts : p \in Nat /\ p # None
    /\ \A a \in Amounts : a \in Nat \ {0}
    /\ BonusAmount \in Nat \ {0}
BY SystemAccountsAssumption, LedgerAssumption, QuantitiesAssumption, NoneIsNoPayout DEF Account

(* A transfer changes an account by a whole amount, and by nothing if it   *)
(* does not name the account.                                              *)
LEMMA MoveInt ==
    ASSUME NEW x \in Transfer, NEW a
    PROVE  Move(x.leg, a) \in Int /\ (~Names(x.leg, a) => Move(x.leg, a) = 0)
BY DEF Move, Transfer, Names

LEMMA EffectInt ==
    ASSUME NEW posts \in Seq(Transfer), NEW a
    PROVE  Effect(posts, a) \in Int /\ (~Named(posts, a) => Effect(posts, a) = 0)
<1> DEFINE f == [i \in 1..Len(posts) |-> Move(posts[i].leg, a)]
<1>1. Len(posts) \in Nat /\ \A i \in 1..Len(posts) : posts[i] \in Transfer
  OBVIOUS
<1>2. \A i \in 1..Len(posts) : f[i] \in Int /\ (~Names(posts[i].leg, a) => f[i] = 0)
  BY <1>1, MoveInt
<1>3. ~Named(posts, a) => \A i \in 1..Len(posts) : f[i] = 0
  BY <1>2 DEF Named
<1> HIDE DEF f
<1>4. SumTo(f, Len(posts)) \in Int /\ (~Named(posts, a) => SumTo(f, Len(posts)) = 0)
  BY <1>1, <1>2, <1>3, SumToInt, SumToZero
<1> QED BY <1>4 DEF Effect, f

LEMMA EffectOne ==
    ASSUME NEW x \in Transfer, NEW a
    PROVE  Effect(<<x>>, a) = Move(x.leg, a)
<1> DEFINE f == [i \in 1..1 |-> Move(<<x>>[i].leg, a)]
<1>1. f[1] = Move(x.leg, a) /\ f[1] \in Int
  BY MoveInt
<1>2. Len(<<x>>) = 1
  OBVIOUS
<1> HIDE DEF f
<1>3. SumTo(f, 1) = f[1]
  BY <1>1, SumToSingle
<1> QED BY <1>1, <1>2, <1>3 DEF Effect, f

LEMMA EffectTwo ==
    ASSUME NEW x \in Transfer, NEW y \in Transfer, NEW a
    PROVE  Effect(<<x, y>>, a) = Move(x.leg, a) + Move(y.leg, a)
<1> DEFINE f == [i \in 1..2 |-> Move(<<x, y>>[i].leg, a)]
           p == PartialSums(f, 2)
<1>1. f[1] = Move(x.leg, a) /\ f[2] = Move(y.leg, a) /\ \A i \in 1..2 : f[i] \in Int
  BY MoveInt
<1>2. Len(<<x, y>>) = 2
  OBVIOUS
<1> HIDE DEF f
<1>3. p[0] = 0 /\ \A i \in 1..2 : p[i] = p[i - 1] + f[i]
  BY <1>1, PartialSumsStep
<1>4. p[1] = p[0] + f[1] /\ p[2] = p[1] + f[2]
  BY <1>3
<1>5. SumTo(f, 2) = f[1] + f[2]
  BY <1>1, <1>3, <1>4 DEF SumTo
<1> QED BY <1>1, <1>2, <1>5 DEF Effect, f

(* The requests by the kind of their operation. *)
LEMMA RequestKinds ==
    ASSUME NEW r \in Request
    PROVE  /\ r.held \subseteq Account
           /\ r.op \in {"fund", "replay", "stake", "settle"} => r.posts \in Seq(Transfer)
           /\ r.op \in {"settle", "verified"} => r.bet \in LiveBets /\ r.view \in BetView
           /\ r.op \in {"verified", "place", "claim", "covered"} => r.user \in Users
           /\ r.op \in {"place", "claim", "covered"} => r.bet \in LiveBets /\ r.stake \in Stakes
           /\ r.op \in {"idle", "verified"} => r.held = {}
           /\ r.op \in {"idle", "fund", "replay", "stake", "settle", "verified", "place",
                        "claim", "covered"}
BY DEF Request, Idle, Funding, Staking, Settling, Verified, Placement

LEMMA TouchedIsNamed ==
    ASSUME NEW t, tx[t].posts \in Seq(Transfer)
    PROVE  \A a : a \in Touched(t) <=> Named(tx[t].posts, a)
BY DEF Touched, Named, Names

LEMMA UsedAfter ==
    ASSUME NEW posts \in Seq(Transfer), Post(posts), NEW key
    PROVE  Used(key)' <=> (Used(key) \/ \E i \in 1..Len(posts) : posts[i].key = key)
BY DEF Post, Used

-----------------------------------------------------------------------------
(* Steps that change only the request itself *)

(* A request that reads, locks, or ends without writing keeps the invariant *)
(* if its new locals are right and nobody else has its new locks and claims. *)
LEMMA QuietStep ==
    ASSUME IInv, NEW t \in Tx, NEW r \in Request,
           tx' = [tx EXCEPT ![t] = r],
           UNCHANGED <<balance, transfers, mirror, upstream>>,
           Local(r), InOrder(r),
           \A v \in Tx \ {t} : tx[v].held \cap r.held = {},
           \A v \in Tx \ {t} : \A b \in LiveBets :
             Claims(v, b) => ~(r.op \in {"claim", "covered"} /\ r.bet = b)
    PROVE  IInv'
<1>1. TypeOK /\ \A v \in Tx : tx'[v] = IF v = t THEN r ELSE tx[v]
  BY DEF IInv, TypeOK
<1>2. TypeOK'
  BY <1>1 DEF TypeOK
<1>3. Locals'
  <2>1. ASSUME NEW v \in Tx PROVE Local(tx'[v])
    <3>1. tx'[v] = r \/ tx'[v] = tx[v]
      BY <1>1
    <3>2. Local(r) /\ Local(tx[v])
      BY DEF IInv, Locals
    <3> QED BY ONLY <3>1, <3>2
  <2> QED BY <2>1 DEF Locals, Local, FundLocal, StakeLocal, ViewLocal, SettleLocal, PlaceLocal,
                      ClaimLocal, CoveredLocal
<1>4. LocksInOrder' /\ LocksExclusive'
  BY <1>1 DEF IInv, LocksInOrder, InOrder, LocksExclusive
<1>5. ClaimsExclusive'
  BY <1>1 DEF IInv, ClaimsExclusive, Claims
<1>6. TransfersTellMirror' /\ EscrowBacksMirror'
  BY DEF IInv, TransfersTellMirror, EscrowBacksMirror, Used
<1> QED BY <1>2, <1>3, <1>4, <1>5, <1>6 DEF IInv

(* A request that is over. *)
LEMMA DoneStep ==
    ASSUME IInv, NEW t \in Tx, Done(t), UNCHANGED <<balance, transfers, mirror, upstream>>
    PROVE  IInv'
<1>1. Idle \in Request /\ Local(Idle) /\ InOrder(Idle)
  BY DEF Request, Idle, Local, InOrder
<1> QED BY <1>1, QuietStep DEF Done, Idle

(* A request that has just begun holds nothing. *)
LEMMA BeginStep ==
    ASSUME IInv, NEW t \in Tx, NEW r \in Request, Begin(t, r),
           UNCHANGED <<balance, transfers, mirror, upstream>>,
           Local(r), r.held = {}, r.op \notin {"claim", "covered"}
    PROVE  IInv'
<1>1. InOrder(r)
  BY DEF InOrder
<1> QED BY <1>1, QuietStep DEF Begin

LEMMA SingletonPosts ==
    ASSUME NEW key \in Key, NEW debit \in Account, NEW credit \in Account,
           NEW amount \in Nat \ {0}
    PROVE  /\ Row(key, debit, credit, amount) \in Transfer
           /\ <<Row(key, debit, credit, amount)>> \in Seq(Transfer)
BY DEF Row, Transfer, Leg

LEMMA KeyTypes == FundKey \subseteq Key /\ BetKey \subseteq Key
BY DEF FundKey, BetKey, Key

LEMMA FundBeginStep ==
    ASSUME IInv, NEW t \in Tx, NEW key \in FundKey, NEW u \in Users,
           NEW amount \in Nat \ {0}, Fund(t, key, u, amount)
    PROVE  IInv'
<1> DEFINE r == [op |-> "fund", held |-> {},
                 posts |-> <<Row(key, HousePromo, WalletOf[u], amount)>>]
<1>1. r.posts \in Seq(Transfer)
  BY KeyTypes, ConstantTypes, SingletonPosts
<1>2. r \in Request
  BY <1>1 DEF Request, Funding
<1>3. Local(r)
  BY DEF Local, FundLocal
<1> QED BY <1>2, <1>3, BeginStep DEF Fund

LEMMA StakeBeginStep ==
    ASSUME IInv, NEW t \in Tx, NEW u \in Users, NEW s \in Stakes, NEW n \in 1..MaxStakes,
           StakeBegin(t, u, s, n)
    PROVE  IInv'
<1> DEFINE r == [op |-> "stake", held |-> {},
                 posts |-> <<Row(<<"bet", n>>, WalletOf[u], Pool, s)>>]
<1>0. <<"bet", n>> \in BetKey /\ <<"bet", n>> \in Key /\ s \in Nat \ {0}
  BY KeyTypes, ConstantTypes DEF BetKey
<1>1. r.posts \in Seq(Transfer)
  BY <1>0, ConstantTypes, SingletonPosts
<1>2. r \in Request
  BY <1>1 DEF Request, Staking
<1>3. Local(r)
  BY <1>0 DEF Local, StakeLocal
<1> QED BY <1>2, <1>3, BeginStep DEF StakeBegin

LEMMA PlacedVerifyStep ==
    ASSUME IInv, NEW t \in Tx, NEW u \in Users, NEW b \in LiveBets, PlacedVerify(t, u, b)
    PROVE  IInv'
<1> DEFINE r == [op |-> "place", held |-> {}, bet |-> b, user |-> u,
                 stake |-> upstream[b].stake]
<1>1. upstream[b].stake \in Stakes
  BY DEF IInv, TypeOK, BetView
<1>2. r \in Request
  BY <1>1 DEF Request, Placement
<1>3. Local(r)
  BY DEF Local, PlaceLocal
<1> QED BY <1>2, <1>3, BeginStep DEF PlacedVerify

LEMMA SettledVerifyStep ==
    ASSUME IInv, NEW t \in Tx, NEW u \in Users, NEW b \in LiveBets, SettledVerify(t, u, b)
    PROVE  IInv'
<1> DEFINE r == [op |-> "verified", held |-> {}, bet |-> b, user |-> u, view |-> upstream[b]]
<1>1. upstream[b] \in BetView /\ upstream[b].status \in Terminal
  BY DEF IInv, TypeOK, SettledVerify
<1>2. r \in Request
  BY <1>1 DEF Request, Verified
<1>3. Local(r)
  BY <1>1 DEF Local, ViewLocal
<1> QED BY <1>2, <1>3, BeginStep DEF SettledVerify

LEMMA FundReplayStep ==
    ASSUME IInv, NEW t \in Tx, FundReplay(t)
    PROVE  IInv'
<1> DEFINE r == [tx[t] EXCEPT !.op = "replay", !.held = {}]
<1>1. tx[t] \in Request /\ tx[t].op = "fund" /\ Local(tx[t])
  BY DEF IInv, TypeOK, Locals, FundReplay, Ready
<1>2. tx[t] \in Funding
  BY <1>1 DEF Request, Idle, Funding, Staking, Settling, Verified, Placement
<1>3. r \in Request /\ r.op = "replay" /\ r.held = {} /\ r.posts = tx[t].posts
  BY <1>2 DEF Request, Funding
<1>4. Local(r) /\ InOrder(r)
  BY <1>1, <1>3 DEF Local, FundLocal, InOrder
<1>5. /\ tx' = [tx EXCEPT ![t] = r]
      /\ UNCHANGED <<balance, transfers, mirror, upstream>>
  BY DEF FundReplay, Proceed
<1> HIDE DEF r
<1> QED BY <1>3, <1>4, <1>5, QuietStep

LEMMA PlacedClaimStep ==
    ASSUME IInv, NEW t \in Tx, PlacedClaim(t)
    PROVE  IInv'
<1> DEFINE r == [tx[t] EXCEPT !.op = "claim"]
<1>1. tx[t] \in Request /\ tx[t].op = "place" /\ Local(tx[t])
  BY DEF IInv, TypeOK, Locals, PlacedClaim
<1>2. tx[t] \in Placement /\ tx[t].held = {}
  BY <1>1 DEF Request, Idle, Funding, Staking, Settling, Verified, Placement, Local, PlaceLocal
<1>3. CASE mirror[tx[t].bet] = NoMirror
  <2>1. r \in Request /\ r.op = "claim" /\ r.held = {} /\ r.bet = tx[t].bet
    BY <1>2 DEF Request, Placement
  <2>2. Local(r) /\ InOrder(r)
    BY <1>3, <2>1 DEF Local, ClaimLocal, InOrder
  <2>3. /\ tx' = [tx EXCEPT ![t] = r]
        /\ UNCHANGED <<balance, transfers, mirror, upstream>>
        /\ \A v \in Tx \ {t} : ~Claims(v, tx[t].bet)
    BY <1>3 DEF PlacedClaim, Proceed
  <2> HIDE DEF r
  <2>4. \A v \in Tx \ {t} : \A b \in LiveBets :
          Claims(v, b) => ~(r.op \in {"claim", "covered"} /\ r.bet = b)
    BY <2>1, <2>3
  <2> QED BY <2>1, <2>2, <2>3, <2>4, QuietStep
<1>4. CASE mirror[tx[t].bet] # NoMirror
  BY <1>4, DoneStep DEF PlacedClaim
<1> QED BY <1>3, <1>4

LEMMA PlacedCheckStep ==
    ASSUME IInv, NEW t \in Tx, PlacedCheck(t)
    PROVE  IInv'
<1> DEFINE r == [tx[t] EXCEPT !.op = "covered"]
<1>1. tx[t] \in Request /\ tx[t].op = "claim" /\ Local(tx[t]) /\ tx[t].held # {}
  BY DEF IInv, TypeOK, Locals, PlacedCheck
<1>2. tx[t] \in Placement
  BY <1>1 DEF Request, Idle, Funding, Staking, Settling, Verified, Placement
<1>3. CASE balance[WalletOf[tx[t].user]] >= tx[t].stake
  <2>1. /\ r \in Request /\ r.op = "covered" /\ r.held = tx[t].held /\ r.bet = tx[t].bet
        /\ r.user = tx[t].user /\ r.stake = tx[t].stake
    BY <1>2 DEF Request, Placement
  <2>2. Local(r) /\ InOrder(r)
    <3>1. /\ mirror[tx[t].bet] = NoMirror
          /\ tx[t].held = {WalletOf[tx[t].user]}
      BY <1>1 DEF Local, ClaimLocal
    <3> HIDE DEF r
    <3> QED BY <1>3, <2>1, <3>1 DEF Local, CoveredLocal, InOrder
  <2>3. /\ tx' = [tx EXCEPT ![t] = r]
        /\ UNCHANGED <<balance, transfers, mirror, upstream>>
    BY <1>3 DEF PlacedCheck, Proceed
  <2> HIDE DEF r
  <2>4. /\ \A v \in Tx \ {t} : tx[v].held \cap r.held = {}
        /\ \A v \in Tx \ {t} : \A b \in LiveBets :
             Claims(v, b) => ~(r.op \in {"claim", "covered"} /\ r.bet = b)
    BY <1>1, <2>1 DEF IInv, LocksExclusive, ClaimsExclusive, Claims
  <2> QED BY <2>1, <2>2, <2>3, <2>4, QuietStep
<1>4. CASE ~(balance[WalletOf[tx[t].user]] >= tx[t].stake)
  BY <1>4, DoneStep DEF PlacedCheck
<1> QED BY <1>3, <1>4

(* The transfers of a settlement: one or two, all of the bet's own keys.   *)
LEMMA SettlePostsShape ==
    ASSUME NEW b \in LiveBets, NEW stake \in Nat \ {0}, NEW view \in BetView, NEW u \in Users,
           view.status \in Terminal,
           view.status = "WON" => view.payout \in Nat /\ view.payout >= stake
    PROVE  LET posts == SettlePosts(b, stake, view, u) IN
           /\ posts \in Seq(Transfer)
           /\ Len(posts) \in {1, 2}
           /\ posts[1] = Row(IF view.status = "WON" THEN <<"stake", b>> ELSE <<"settled", b>>,
                             Escrow,
                             IF view.status = "LOST" THEN HouseRevenue ELSE WalletOf[u], stake)
           /\ Len(posts) = 2 =>
                /\ view.status = "WON" /\ view.payout - stake \in Nat \ {0}
                /\ posts[2] = Row(<<"winnings", b>>, HousePromo, WalletOf[u], view.payout - stake)
           /\ Effect(posts, Escrow) = -stake
<1> DEFINE posts == SettlePosts(b, stake, view, u)
           first == Row(IF view.status = "WON" THEN <<"stake", b>> ELSE <<"settled", b>>,
                        Escrow,
                        IF view.status = "LOST" THEN HouseRevenue ELSE WalletOf[u], stake)
           second == Row(<<"winnings", b>>, HousePromo, WalletOf[u], view.payout - stake)
<1>1. <<"stake", b>> \in Key /\ <<"settled", b>> \in Key /\ <<"winnings", b>> \in Key
  BY DEF Key
<1>2. first \in Transfer
  <2>1. (IF view.status = "WON" THEN <<"stake", b>> ELSE <<"settled", b>>) \in Key
    BY <1>1
  <2>2. (IF view.status = "LOST" THEN HouseRevenue ELSE WalletOf[u]) \in Account
    BY ConstantTypes
  <2> QED BY <2>1, <2>2, ConstantTypes, SingletonPosts
<1>3. Move(first.leg, Escrow) = -stake
  <2>1. first.leg.debit = Escrow /\ first.leg.credit # Escrow /\ first.leg.amount = stake
    BY ConstantTypes DEF Row, Leg
  <2> HIDE DEF first
  <2> QED BY <2>1 DEF Move
<1>4. CASE view.status = "WON" /\ view.payout > stake
  <2>1. view.payout - stake \in Nat \ {0}
    BY <1>4
  <2>2. second \in Transfer
    BY <1>1, <2>1, ConstantTypes, SingletonPosts
  <2>3. posts = <<first, second>>
    BY <1>4 DEF SettlePosts, Refunded
  <2>4. Move(second.leg, Escrow) = 0
    <3>1. second.leg.debit # Escrow /\ second.leg.credit # Escrow
      BY ConstantTypes DEF Row, Leg
    <3> HIDE DEF second
    <3> QED BY <3>1 DEF Move
  <2> HIDE DEF first, second, posts
  <2>5. Effect(posts, Escrow) = -stake
    BY <1>2, <1>3, <2>2, <2>3, <2>4, EffectTwo
  <2>6. posts \in Seq(Transfer) /\ Len(posts) = 2 /\ posts[1] = first /\ posts[2] = second
    BY <1>2, <2>2, <2>3
  <2> QED BY <1>4, <2>1, <2>5, <2>6 DEF posts, first, second
<1>5. CASE ~(view.status = "WON" /\ view.payout > stake)
  <2>1. posts = <<first>>
    BY <1>5 DEF SettlePosts, Refunded, Terminal
  <2> HIDE DEF first, posts
  <2>2. Effect(posts, Escrow) = -stake
    BY <1>2, <1>3, <2>1, EffectOne
  <2>3. posts \in Seq(Transfer) /\ Len(posts) = 1 /\ posts[1] = first
    BY <1>2, <2>1
  <2> QED BY <2>2, <2>3 DEF posts, first
<1> QED BY <1>4, <1>5

LEMMA SettledReadStep ==
    ASSUME IInv, NEW t \in Tx, SettledRead(t)
    PROVE  IInv'
<1> DEFINE b == tx[t].bet
           view == tx[t].view
           row == mirror[b]
           posts == SettlePosts(b, row.stake, view, tx[t].user)
           r == [op |-> "settle", held |-> {}, bet |-> b, view |-> view, posts |-> posts]
<1>1. tx[t] \in Request /\ tx[t].op = "verified" /\ Local(tx[t])
  BY DEF IInv, TypeOK, Locals, SettledRead
<1>2. b \in LiveBets /\ view \in BetView /\ tx[t].user \in Users /\ ViewLocal(tx[t])
  BY <1>1, RequestKinds DEF Local
<1>3. CASE Settleable(row, view, tx[t].user)
  <2>1. row \in Mirrored /\ row.user = tx[t].user /\ row # NoMirror
    BY <1>2, <1>3 DEF Settleable, IInv, TypeOK, NoMirror
  <2>2. row.stake \in Nat \ {0} /\ row.user \in Users
    BY <2>1, ConstantTypes DEF Mirrored
  <2>3. view.status = "WON" => view.payout \in Nat /\ view.payout >= row.stake
    BY <1>2, <1>3, ConstantTypes DEF Settleable, BetView
  <2>4. posts \in Seq(Transfer)
    <3> HIDE DEF view, row, b
    <3> QED BY <1>2, <2>2, <2>3, SettlePostsShape DEF ViewLocal, view
  <2>5. r \in Request
    BY <1>2, <2>4 DEF Request, Settling
  <2>6. Local(r)
    <3>1. ViewLocal(r)
      BY <1>2 DEF ViewLocal
    <3>2. SettleLocal(r)
      BY <2>1, <2>3, <3>1 DEF SettleLocal
    <3> QED BY <3>2 DEF Local
  <2>7. InOrder(r)
    BY DEF InOrder
  <2>8. /\ tx' = [tx EXCEPT ![t] = r]
        /\ UNCHANGED <<balance, transfers, mirror, upstream>>
    BY <1>3 DEF SettledRead, Proceed
  <2>9. r.held = {} /\ r.op = "settle"
    OBVIOUS
  <2> HIDE DEF r
  <2> QED BY <2>5, <2>6, <2>7, <2>8, <2>9, QuietStep
<1>4. CASE ~Settleable(row, view, tx[t].user)
  BY <1>4, DoneStep DEF SettledRead
<1> QED BY <1>3, <1>4

(* The next lock is above all that are held, and below those to come.      *)
LEMMA NextIsLeast ==
    ASSUME NEW t \in Tx, tx[t].posts \in Seq(Transfer), NEW a \in NextAccount(t)
    PROVE  /\ Named(tx[t].posts, a) /\ a \notin tx[t].held /\ a \in Account
           /\ \A c : Named(tx[t].posts, c) /\ c \notin tx[t].held => a <= c
<1>1. a \in Touched(t) /\ a \notin tx[t].held
      /\ \A c \in Touched(t) \ tx[t].held : a <= c
  BY DEF NextAccount, Least
<1>2. \A c : c \in Touched(t) <=> Named(tx[t].posts, c)
  BY TouchedIsNamed
<1>3. Named(tx[t].posts, a)
  BY <1>1, <1>2
<1>4. PICK i \in 1..Len(tx[t].posts) : Names(tx[t].posts[i].leg, a)
  BY <1>3 DEF Named
<1>5. tx[t].posts[i] \in Transfer
  OBVIOUS
<1>6. a \in Account
  BY <1>4, <1>5 DEF Names, Transfer
<1> QED BY <1>1, <1>2, <1>3, <1>6

LEMMA LockStep ==
    ASSUME IInv, NEW t \in Tx, Lock(t)
    PROVE  IInv'
<1> DEFINE r == [tx[t] EXCEPT !.held = @ \cup Wanted(t)]
<1>1. tx[t] \in Request /\ Local(tx[t]) /\ InOrder(tx[t])
  BY DEF IInv, TypeOK, Locals, LocksInOrder
<1>2. /\ tx' = [tx EXCEPT ![t] = r]
      /\ UNCHANGED <<balance, transfers, mirror, upstream>>
      /\ \A v \in Tx \ {t} : tx[v].held \cap Wanted(t) = {}
      /\ Wanted(t) # {}
  BY DEF Lock, Proceed, LocksFree
<1>3. tx[t].op \in {"fund", "stake", "settle", "claim", "covered"}
  BY <1>2 DEF Wanted, Ordered
<1>4. CASE tx[t].op \in {"fund", "stake", "settle"}
  <2>1. Wanted(t) = NextAccount(t) /\ tx[t].posts \in Seq(Transfer) /\ tx[t].held \subseteq Account
    BY <1>1, <1>4, RequestKinds DEF Wanted, Ordered
  <2>2. Wanted(t) \subseteq Account
    BY <2>1, NextIsLeast
  <2>3. /\ r \in Request /\ r.op = tx[t].op /\ r.posts = tx[t].posts
        /\ r.held = tx[t].held \cup Wanted(t)
        /\ r.op = "settle" => r.bet = tx[t].bet /\ r.view = tx[t].view
    BY <1>1, <1>4, <2>2 DEF Request, Idle, Funding, Staking, Settling, Verified, Placement
  <2> HIDE DEF r
  <2>4. Local(r)
    BY <1>1, <1>4, <2>3 DEF Local, FundLocal, StakeLocal, ViewLocal, SettleLocal
  <2>5. InOrder(r)
    <3> SUFFICES ASSUME NEW a \in r.held, NEW c \in Account,
                        Named(r.posts, c), c \notin r.held
                 PROVE a < c
      BY DEF InOrder
    <3>1. CASE a \in tx[t].held
      BY <1>1, <1>4, <2>3, <3>1 DEF InOrder
    <3>2. CASE a \in Wanted(t)
      <4>1. a <= c /\ a \in Account /\ a # c
        BY <2>1, <2>3, <3>2, NextIsLeast
      <4> QED BY <4>1, ConstantTypes
    <3> QED BY <2>3, <3>1, <3>2
  <2>6. \A v \in Tx \ {t} : tx[v].held \cap r.held = {}
    BY <1>2, <2>3 DEF IInv, LocksExclusive
  <2> QED BY <1>2, <1>4, <2>3, <2>4, <2>5, <2>6, QuietStep
<1>5. CASE tx[t].op \in {"claim", "covered"}
  <2>1. tx[t] \in Placement
    BY <1>1, <1>5 DEF Request, Idle, Funding, Staking, Settling, Verified
  <2>2. Wanted(t) \subseteq (IF tx[t].op = "claim" THEN {WalletOf[tx[t].user]} ELSE {Escrow})
    BY <1>5 DEF Wanted, Ordered
  <2>3. Wanted(t) \subseteq Account
    BY <2>1, <2>2, ConstantTypes DEF Placement
  <2>4. /\ r \in Request /\ r.op = tx[t].op /\ r.bet = tx[t].bet /\ r.user = tx[t].user
        /\ r.stake = tx[t].stake /\ r.held = tx[t].held \cup Wanted(t)
    BY <2>1, <2>3 DEF Request, Placement
  <2> HIDE DEF r
  <2>5. Local(r)
    BY <1>1, <1>5, <2>2, <2>4 DEF Local, ClaimLocal, CoveredLocal
  <2>6. InOrder(r)
    BY <1>5, <2>4 DEF InOrder
  <2>7. /\ \A v \in Tx \ {t} : tx[v].held \cap r.held = {}
        /\ \A v \in Tx \ {t} : \A b \in LiveBets :
             Claims(v, b) => ~(r.op \in {"claim", "covered"} /\ r.bet = b)
    BY <1>2, <1>5, <2>4 DEF IInv, LocksExclusive, ClaimsExclusive, Claims
  <2> QED BY <1>2, <2>4, <2>5, <2>6, <2>7, QuietStep
<1> QED BY <1>3, <1>4, <1>5

-----------------------------------------------------------------------------
(* Commits *)

Share(b) == IF mirror[b].status = "PENDING" THEN mirror[b].stake ELSE 0

(* What a commit changes outside the accounts it has locked and the bet it *)
(* has claimed or settled: nothing another request relies on.              *)
LEMMA CommitStep ==
    ASSUME IInv, NEW t \in Tx, NEW posts \in Seq(Transfer), Post(posts), Done(t),
           upstream' = upstream,
           \A a \in Account : Named(posts, a) => a \in tx[t].held,
           mirror' \in [LiveBets -> Mirrored \cup {NoMirror}],
           \A b \in LiveBets : mirror[b] # NoMirror =>
             /\ mirror'[b] # NoMirror
             /\ mirror'[b].user = mirror[b].user /\ mirror'[b].stake = mirror[b].stake,
           \A b \in LiveBets : mirror[b] = NoMirror /\ mirror'[b] # NoMirror => Claims(t, b)
    PROVE  TypeOK' /\ Locals' /\ LocksInOrder' /\ LocksExclusive' /\ ClaimsExclusive'
<1>1. TypeOK /\ \A v \in Tx : tx'[v] = IF v = t THEN Idle ELSE tx[v]
  BY DEF IInv, TypeOK, Done
<1>2. \A a \in Account : /\ balance'[a] = balance[a] + Effect(posts, a)
                         /\ balance'[a] \in Nat
                         /\ ~Named(posts, a) => balance'[a] = balance[a]
  <2> TAKE a \in Account
  <2>1. Effect(posts, a) \in Int /\ (~Named(posts, a) => Effect(posts, a) = 0)
    BY EffectInt
  <2>2. balance'[a] = balance[a] + Effect(posts, a) /\ balance[a] + Effect(posts, a) >= 0
    BY DEF Post, Covered
  <2>3. balance[a] \in Nat
    BY <1>1 DEF TypeOK
  <2> QED BY <2>1, <2>2, <2>3
<1>3. TypeOK'
  <2>1. balance' \in [Account -> Nat]
    BY <1>2 DEF Post
  <2>2. transfers' \subseteq Transfer
    BY <1>1 DEF Post, TypeOK
  <2>3. tx' \in [Tx -> Request]
    BY <1>1 DEF TypeOK, Request, Done
  <2> QED BY <1>1, <2>1, <2>2, <2>3 DEF TypeOK
<1>4. Locals'
  <2>1. ASSUME NEW v \in Tx PROVE Local(tx[v])'
    <3>1. CASE v = t
      <4>1. tx'[v] = Idle
        BY <1>1, <3>1
      <4> QED BY <4>1 DEF Local, Idle
    <3>2. CASE v # t
      <4>1. tx'[v] = tx[v] /\ tx[v] \in Request /\ Local(tx[v])
        BY <1>1, <3>2 DEF IInv, TypeOK, Locals
      <4>2. tx[v].op = "settle" => SettleLocal(tx[v])'
        <5> SUFFICES ASSUME tx[v].op = "settle" PROVE SettleLocal(tx[v])'
          OBVIOUS
        <5>1. SettleLocal(tx[v]) /\ tx[v].bet \in LiveBets
          BY <4>1, RequestKinds DEF Local
        <5>2. /\ mirror'[tx[v].bet] # NoMirror
              /\ mirror'[tx[v].bet].user = mirror[tx[v].bet].user
              /\ mirror'[tx[v].bet].stake = mirror[tx[v].bet].stake
          BY <5>1 DEF SettleLocal
        <5> QED BY <4>1, <5>1, <5>2 DEF SettleLocal, ViewLocal
      <4>3. tx[v].op \in {"claim", "covered"} => mirror'[tx[v].bet] = NoMirror
        <5> SUFFICES ASSUME tx[v].op \in {"claim", "covered"} PROVE mirror'[tx[v].bet] = NoMirror
          OBVIOUS
        <5>1. mirror[tx[v].bet] = NoMirror /\ tx[v].bet \in LiveBets
          BY <4>1, RequestKinds DEF Local, ClaimLocal, CoveredLocal
        <5>2. Claims(v, tx[v].bet)
          BY DEF Claims
        <5>3. ~Claims(t, tx[v].bet)
          BY <3>2, <5>1, <5>2 DEF IInv, ClaimsExclusive
        <5> QED BY <5>1, <5>3
      <4>4. tx[v].op = "covered" =>
              balance'[WalletOf[tx[v].user]] = balance[WalletOf[tx[v].user]]
        <5> SUFFICES ASSUME tx[v].op = "covered"
                     PROVE balance'[WalletOf[tx[v].user]] = balance[WalletOf[tx[v].user]]
          OBVIOUS
        <5>1. WalletOf[tx[v].user] \in tx[v].held /\ WalletOf[tx[v].user] \in Account
          BY <4>1, RequestKinds, ConstantTypes DEF Local, CoveredLocal
        <5>2. WalletOf[tx[v].user] \notin tx[t].held
          BY <3>2, <5>1 DEF IInv, LocksExclusive
        <5> QED BY <1>2, <5>1, <5>2
      <4>5. /\ tx[v].op \in {"fund", "replay"} => FundLocal(tx[v])'
            /\ tx[v].op = "stake" => StakeLocal(tx[v])'
            /\ tx[v].op = "verified" => ViewLocal(tx[v])'
            /\ tx[v].op = "place" => PlaceLocal(tx[v])'
        BY <4>1 DEF Local, FundLocal, StakeLocal, ViewLocal, PlaceLocal
      <4>6. /\ tx[v].op = "claim" => ClaimLocal(tx[v])'
            /\ tx[v].op = "covered" => CoveredLocal(tx[v])'
        BY <4>1, <4>3, <4>4 DEF Local, ClaimLocal, CoveredLocal
      <4> QED BY <4>1, <4>2, <4>5, <4>6 DEF Local
    <3> QED BY <3>1, <3>2
  <2> QED BY <2>1 DEF Locals
<1>5. LocksInOrder'
  BY <1>1 DEF IInv, LocksInOrder, InOrder, Idle
<1>6. LocksExclusive' /\ ClaimsExclusive'
  BY <1>1 DEF IInv, LocksExclusive, ClaimsExclusive, Claims, Idle
<1> QED BY <1>3, <1>4, <1>5, <1>6

LEMMA ShareInt ==
    ASSUME IInv, NEW c \in LiveBets
    PROVE  Share(c) \in Int
<1>1. mirror[c] \in Mirrored \cup {NoMirror}
  BY DEF IInv, TypeOK
<1>2. mirror[c].status = "PENDING" => mirror[c].stake \in Int
  BY <1>1, ConstantTypes DEF Mirrored, NoMirror
<1> QED BY <1>2 DEF Share

(* The escrow account moves with the share of one bet.                     *)
LEMMA EscrowShift ==
    ASSUME IInv, mirror' \in [LiveBets -> Mirrored \cup {NoMirror}],
           NEW b \in LiveBets, NEW d \in Int,
           \A c \in LiveBets : Share(c)' = Share(c) + (IF c = b THEN d ELSE 0),
           balance'[Escrow] = balance[Escrow] + d
    PROVE  EscrowBacksMirror'
<1> DEFINE f == [c \in LiveBets |-> Share(c)]
           g == [c \in LiveBets |-> Share(c)']
           e == [c \in LiveBets |-> IF c = b THEN d ELSE 0]
<1>1. NumLiveBets \in Nat /\ b \in 1..NumLiveBets
  BY ConstantTypes DEF LiveBets
<1>2. \A c \in 1..NumLiveBets : f[c] \in Int /\ e[c] \in Int /\ g[c] = f[c] + e[c]
  <2> TAKE c \in 1..NumLiveBets
  <2>1. c \in LiveBets
    BY DEF LiveBets
  <2> QED BY <2>1, ShareInt
<1>3. e[b] = d /\ \A c \in 1..NumLiveBets : c # b => e[c] = 0
  BY DEF LiveBets
<1>4. balance[Escrow] = SumTo(f, NumLiveBets)
  BY DEF IInv, EscrowBacksMirror, Share
<1> HIDE DEF f, g, e
<1>5. SumTo(g, NumLiveBets) = SumTo(f, NumLiveBets) + SumTo(e, NumLiveBets)
  BY <1>1, <1>2, SumToAdd
<1>6. SumTo(e, NumLiveBets) = d
  BY <1>1, <1>2, <1>3, SumToSingle
<1>7. balance'[Escrow] = SumTo(g, NumLiveBets)
  BY <1>4, <1>5, <1>6
<1> QED BY <1>7 DEF g, EscrowBacksMirror, Share

LEMMA KeysApart ==
    ASSUME NEW key \in FundKey \cup BetKey, NEW b
    PROVE  key \notin {<<"placed", b>>, <<"settled", b>>, <<"stake", b>>, <<"winnings", b>>}
BY DEF FundKey, BetKey

(* A recharge, a bonus or a stake leaves the live bets alone.              *)
LEMMA OtherCommit ==
    ASSUME IInv, NEW t \in Tx, NEW x \in Transfer, x.key \in FundKey \cup BetKey,
           ~Names(x.leg, Escrow), Post(<<x>>), Done(t), UNCHANGED <<mirror, upstream>>,
           \A a \in Account : Names(x.leg, a) => a \in tx[t].held
    PROVE  IInv'
<1>1. <<x>> \in Seq(Transfer) /\ Len(<<x>>) = 1 /\ <<x>>[1] = x
  OBVIOUS
<1>2. \A a : Named(<<x>>, a) <=> Names(x.leg, a)
  BY <1>1 DEF Named
<1>3. TypeOK' /\ Locals' /\ LocksInOrder' /\ LocksExclusive' /\ ClaimsExclusive'
  <2>1. mirror' \in [LiveBets -> Mirrored \cup {NoMirror}] /\ mirror' = mirror
    BY DEF IInv, TypeOK
  <2>2. upstream' = upstream
    OBVIOUS
  <2> QED BY <1>1, <1>2, <2>1, <2>2, CommitStep
<1>4. \A key : Used(key)' <=> (Used(key) \/ x.key = key)
  <2>1. \A key : Used(key)' <=> (Used(key) \/ \E i \in 1..Len(<<x>>) : <<x>>[i].key = key)
    BY <1>1, UsedAfter
  <2> QED BY <1>1, <2>1
<1>5. \A b \in LiveBets : /\ Used(<<"placed", b>>)' <=> Used(<<"placed", b>>)
                          /\ Used(<<"stake", b>>)' <=> Used(<<"stake", b>>)
                          /\ Used(<<"settled", b>>)' <=> Used(<<"settled", b>>)
                          /\ Used(<<"winnings", b>>)' <=> Used(<<"winnings", b>>)
  BY <1>4, KeysApart
<1>6. TransfersTellMirror'
  BY <1>5 DEF IInv, TransfersTellMirror
<1>7. EscrowBacksMirror'
  <2>1. Effect(<<x>>, Escrow) = 0 /\ Escrow \in Account
    BY <1>1, <1>2, EffectInt, ConstantTypes
  <2>2. balance'[Escrow] = balance[Escrow]
    BY <2>1 DEF Post, IInv, TypeOK
  <2> QED BY <2>2 DEF IInv, EscrowBacksMirror
<1> QED BY <1>3, <1>6, <1>7 DEF IInv

LEMMA FundCommitStep ==
    ASSUME IInv, NEW t \in Tx, FundCommit(t)
    PROVE  IInv'
<1>1. tx[t] \in Request /\ tx[t].op = "fund" /\ FundLocal(tx[t]) /\ Touched(t) \subseteq tx[t].held
  BY DEF IInv, TypeOK, Locals, Local, FundCommit, Ready
<1>2. PICK key \in FundKey, u \in Users, amount \in Nat \ {0} :
        tx[t].posts = <<Row(key, HousePromo, WalletOf[u], amount)>>
  BY <1>1 DEF FundLocal
<1> DEFINE x == Row(key, HousePromo, WalletOf[u], amount)
<1>3. x \in Transfer /\ x.key = key /\ x.leg.debit = HousePromo /\ x.leg.credit = WalletOf[u]
  BY KeyTypes, ConstantTypes, SingletonPosts DEF Row, Leg
<1>4. Post(<<x>>) /\ Done(t) /\ UNCHANGED <<mirror, upstream>>
  BY <1>2 DEF FundCommit
<1>5. \A a : Names(x.leg, a) => a \in tx[t].held
  <2>1. <<x>> \in Seq(Transfer) /\ tx[t].posts = <<x>> /\ Len(<<x>>) = 1 /\ <<x>>[1] = x
    BY <1>2, <1>3
  <2> HIDE DEF x
  <2>2. \A a : Names(x.leg, a) => Named(tx[t].posts, a)
    BY <2>1 DEF Named
  <2> QED BY <1>1, <2>1, <2>2, TouchedIsNamed
<1>6. ~Names(x.leg, Escrow)
  BY <1>3, ConstantTypes DEF Names
<1> HIDE DEF x
<1> QED BY <1>3, <1>4, <1>5, <1>6, OtherCommit

LEMMA StakeCommitStep ==
    ASSUME IInv, NEW t \in Tx, StakeCommit(t)
    PROVE  IInv'
<1>1. tx[t] \in Request /\ tx[t].op = "stake" /\ StakeLocal(tx[t]) /\ Touched(t) \subseteq tx[t].held
  BY DEF IInv, TypeOK, Locals, Local, StakeCommit, Ready
<1>2. PICK key \in BetKey, u \in Users, amount \in Nat \ {0} :
        tx[t].posts = <<Row(key, WalletOf[u], Pool, amount)>>
  BY <1>1 DEF StakeLocal
<1> DEFINE x == Row(key, WalletOf[u], Pool, amount)
<1>3. x \in Transfer /\ x.key = key /\ x.leg.debit = WalletOf[u] /\ x.leg.credit = Pool
  BY KeyTypes, ConstantTypes, SingletonPosts DEF Row, Leg
<1>4. Post(<<x>>) /\ Done(t) /\ UNCHANGED <<mirror, upstream>>
  BY <1>2 DEF StakeCommit
<1>5. \A a : Names(x.leg, a) => a \in tx[t].held
  <2>1. <<x>> \in Seq(Transfer) /\ tx[t].posts = <<x>> /\ Len(<<x>>) = 1 /\ <<x>>[1] = x
    BY <1>2, <1>3
  <2> HIDE DEF x
  <2>2. \A a : Names(x.leg, a) => Named(tx[t].posts, a)
    BY <2>1 DEF Named
  <2> QED BY <1>1, <2>1, <2>2, TouchedIsNamed
<1>6. ~Names(x.leg, Escrow)
  BY <1>3, ConstantTypes DEF Names
<1> HIDE DEF x
<1> QED BY <1>3, <1>4, <1>5, <1>6, OtherCommit

(* A placement opens the mirror row and moves its stake into escrow.       *)
LEMMA PlacedCommitStep ==
    ASSUME IInv, NEW t \in Tx, PlacedCommit(t)
    PROVE  IInv'
<1> DEFINE b == tx[t].bet
           u == tx[t].user
           stake == tx[t].stake
           x == Row(<<"placed", b>>, WalletOf[u], Escrow, stake)
           new == [user |-> u, stake |-> stake, status |-> "PENDING"]
<1>1. /\ tx[t] \in Request /\ tx[t].op = "covered" /\ CoveredLocal(tx[t])
      /\ Escrow \in tx[t].held
  BY DEF IInv, TypeOK, Locals, Local, PlacedCommit
<1>2. b \in LiveBets /\ u \in Users /\ stake \in Stakes /\ stake \in Nat \ {0}
  BY <1>1, RequestKinds, ConstantTypes
<1>3. /\ Post(<<x>>) /\ Done(t) /\ upstream' = upstream
      /\ mirror' = [mirror EXCEPT ![b] = new]
  BY DEF PlacedCommit
<1>4. mirror[b] = NoMirror /\ WalletOf[u] \in tx[t].held
  BY <1>1 DEF CoveredLocal
<1>5. x \in Transfer /\ x.key = <<"placed", b>> /\ x.leg.debit = WalletOf[u]
      /\ x.leg.credit = Escrow /\ x.leg.amount = stake
  <2>1. <<"placed", b>> \in Key
    BY <1>2 DEF Key
  <2> QED BY <1>2, <2>1, ConstantTypes, SingletonPosts DEF Row, Leg
<1>6. new \in Mirrored /\ new.user = u /\ new.stake = stake /\ new.status = "PENDING"
  BY <1>2 DEF Mirrored
<1>7. Claims(t, b)
  BY <1>1 DEF Claims
<1>8. /\ mirror \in [LiveBets -> Mirrored \cup {NoMirror}]
      /\ \A c \in LiveBets : mirror'[c] = IF c = b THEN new ELSE mirror[c]
      /\ mirror' \in [LiveBets -> Mirrored \cup {NoMirror}]
  <2>1. mirror \in [LiveBets -> Mirrored \cup {NoMirror}]
    BY DEF IInv, TypeOK
  <2> HIDE DEF new, b
  <2> QED BY <1>2, <1>3, <1>6, <2>1
<1>9. new # NoMirror
  BY <1>6 DEF Mirrored, NoMirror
<1> HIDE DEF x, new, b, u, stake
<1>10. <<x>> \in Seq(Transfer) /\ Len(<<x>>) = 1 /\ <<x>>[1] = x
  BY <1>5
<1>11. TypeOK' /\ Locals' /\ LocksInOrder' /\ LocksExclusive' /\ ClaimsExclusive'
  <2>1. \A a \in Account : Named(<<x>>, a) => a \in tx[t].held
    BY <1>1, <1>4, <1>5, <1>10 DEF Named, Names
  <2>2. \A c \in LiveBets : mirror[c] # NoMirror =>
          /\ mirror'[c] # NoMirror
          /\ mirror'[c].user = mirror[c].user /\ mirror'[c].stake = mirror[c].stake
    BY <1>4, <1>8
  <2>3. \A c \in LiveBets : mirror[c] = NoMirror /\ mirror'[c] # NoMirror => Claims(t, c)
    BY <1>7, <1>8
  <2> QED BY <1>3, <1>8, <1>10, <2>1, <2>2, <2>3, CommitStep
<1>12. \A key : Used(key)' <=> (Used(key) \/ key = <<"placed", b>>)
  <2>1. \A key : Used(key)' <=> (Used(key) \/ \E i \in 1..Len(<<x>>) : <<x>>[i].key = key)
    BY <1>3, <1>10, UsedAfter
  <2> QED BY <1>5, <1>10, <2>1
<1>13. TransfersTellMirror'
  <2> SUFFICES ASSUME NEW c \in LiveBets
               PROVE /\ Used(<<"placed", c>>)'  <=> mirror'[c] # NoMirror
                     /\ Used(<<"stake", c>>)'   <=> mirror'[c].status = "WON"
                     /\ Used(<<"settled", c>>)' <=> mirror'[c].status \in {"LOST"} \cup Refunded
                     /\ Used(<<"winnings", c>>)' => mirror'[c].status = "WON"
                     /\ mirror'[c].status \in Terminal => mirror'[c].status = upstream'[c].status
    BY DEF TransfersTellMirror
  <2>1. /\ Used(<<"placed", c>>)'   <=> (Used(<<"placed", c>>) \/ c = b)
        /\ Used(<<"stake", c>>)'    <=> Used(<<"stake", c>>)
        /\ Used(<<"settled", c>>)'  <=> Used(<<"settled", c>>)
        /\ Used(<<"winnings", c>>)' <=> Used(<<"winnings", c>>)
    BY <1>12
  <2>2. /\ Used(<<"placed", c>>)  <=> mirror[c] # NoMirror
        /\ Used(<<"stake", c>>)   <=> mirror[c].status = "WON"
        /\ Used(<<"settled", c>>) <=> mirror[c].status \in {"LOST"} \cup Refunded
        /\ Used(<<"winnings", c>>) => mirror[c].status = "WON"
        /\ mirror[c].status \in Terminal => mirror[c].status = upstream[c].status
    BY DEF IInv, TransfersTellMirror
  <2>3. CASE c = b
    <3>1. mirror'[c] = new
      BY <1>8, <2>3
    <3>2. ~Used(<<"stake", c>>) /\ ~Used(<<"settled", c>>) /\ ~Used(<<"winnings", c>>)
      BY <1>4, <2>2, <2>3 DEF NoMirror, Refunded
    <3> QED BY <1>6, <1>9, <2>1, <2>3, <3>1, <3>2 DEF Refunded, Terminal
  <2>4. CASE c # b
    <3>1. mirror'[c] = mirror[c]
      BY <1>8, <2>4
    <3> QED BY <1>3, <2>1, <2>2, <2>4, <3>1
  <2> QED BY <2>3, <2>4
<1>14. EscrowBacksMirror'
  <2>1. \A c \in LiveBets : Share(c)' = Share(c) + (IF c = b THEN stake ELSE 0)
    <3> TAKE c \in LiveBets
    <3>1. CASE c = b
      <4>1. mirror'[c] = new /\ mirror[c] = NoMirror
        BY <1>4, <1>8, <3>1
      <4> QED BY <1>2, <1>6, <3>1, <4>1 DEF Share, NoMirror
    <3>2. CASE c # b
      <4>1. mirror'[c] = mirror[c] /\ Share(c) \in Int
        BY <1>8, <3>2, ShareInt
      <4> QED BY <3>2, <4>1 DEF Share
    <3> QED BY <3>1, <3>2
  <2>2. Effect(<<x>>, Escrow) = stake
    <3>1. Move(x.leg, Escrow) = stake
      BY <1>2, <1>5, ConstantTypes DEF Move
    <3> QED BY <1>5, <3>1, EffectOne
  <2>3. balance'[Escrow] = balance[Escrow] + stake
    BY <1>3, <2>2, ConstantTypes DEF Post
  <2>4. stake \in Int
    BY <1>2
  <2> QED BY <1>2, <1>8, <2>1, <2>3, <2>4, EscrowShift
<1> QED BY <1>11, <1>13, <1>14 DEF IInv

(* A settlement closes the mirror row and moves its stake out of escrow.   *)
LEMMA SettledCommitStep ==
    ASSUME IInv, NEW t \in Tx, SettledCommit(t)
    PROVE  IInv'
<1> DEFINE b == tx[t].bet
           view == tx[t].view
           row == mirror[b]
           posts == tx[t].posts
           new == [row EXCEPT !.status = view.status]
<1>1. /\ tx[t] \in Request /\ tx[t].op = "settle" /\ SettleLocal(tx[t])
      /\ Touched(t) \subseteq tx[t].held
  BY DEF IInv, TypeOK, Locals, Local, SettledCommit, Ready
<1>2. b \in LiveBets /\ view \in BetView /\ posts \in Seq(Transfer)
  BY <1>1, RequestKinds
<1>3. /\ Post(posts) /\ Done(t) /\ upstream' = upstream
      /\ mirror' = [mirror EXCEPT ![b].status = view.status]
  BY DEF SettledCommit
<1>4. row \in Mirrored /\ row.stake \in Nat \ {0} /\ row.user \in Users
  <2>1. mirror[b] \in Mirrored
    BY <1>1, <1>2 DEF IInv, TypeOK, SettleLocal
  <2> HIDE DEF b
  <2> QED BY <2>1, ConstantTypes DEF Mirrored
<1>5. /\ view.status \in Terminal /\ view.status = upstream[b].status
      /\ view.status = "WON" => view.payout \in Nat /\ view.payout >= row.stake
      /\ posts = SettlePosts(b, row.stake, view, row.user)
  BY <1>1 DEF SettleLocal, ViewLocal
<1>6. new \in Mirrored /\ new.user = row.user /\ new.stake = row.stake /\ new.status = view.status
      /\ new # NoMirror
  BY <1>4, <1>5 DEF Mirrored, NoMirror
<1>7. /\ mirror \in [LiveBets -> Mirrored \cup {NoMirror}]
      /\ \A c \in LiveBets : mirror'[c] = IF c = b THEN new ELSE mirror[c]
      /\ mirror' \in [LiveBets -> Mirrored \cup {NoMirror}]
  <2>1. mirror \in [LiveBets -> Mirrored \cup {NoMirror}]
    BY DEF IInv, TypeOK
  <2>2. mirror' = [mirror EXCEPT ![b] = new]
    BY <1>3
  <2> HIDE DEF new, b
  <2> QED BY <1>2, <1>6, <2>1, <2>2
<1>8. row = mirror[b] /\ \A a : a \in Touched(t) <=> Named(posts, a)
  BY <1>2, TouchedIsNamed
<1> HIDE DEF new, row, posts, b, view
<1>9. /\ Len(posts) \in {1, 2}
      /\ posts[1] = Row(IF view.status = "WON" THEN <<"stake", b>> ELSE <<"settled", b>>,
                        Escrow,
                        IF view.status = "LOST" THEN HouseRevenue ELSE WalletOf[row.user],
                        row.stake)
      /\ Len(posts) = 2 =>
           /\ view.status = "WON" /\ view.payout - row.stake \in Nat \ {0}
           /\ posts[2] = Row(<<"winnings", b>>, HousePromo, WalletOf[row.user],
                             view.payout - row.stake)
      /\ Effect(posts, Escrow) = -row.stake
  BY <1>2, <1>4, <1>5, SettlePostsShape
<1>10. /\ posts[1].key = (IF view.status = "WON" THEN <<"stake", b>> ELSE <<"settled", b>>)
       /\ posts[1].leg.credit \in {WalletOf[row.user], HouseRevenue}
       /\ Len(posts) = 2 => /\ posts[2].key = <<"winnings", b>> /\ view.status = "WON"
                            /\ posts[2].leg.credit = WalletOf[row.user]
  BY <1>9 DEF Row, Leg
<1>11. \A i \in 1..Len(posts) : i = 1 \/ (i = 2 /\ Len(posts) = 2)
  <2>1. Len(posts) = 1 \/ Len(posts) = 2
    BY <1>9
  <2>2. CASE Len(posts) = 1
    BY <2>2
  <2>3. CASE Len(posts) = 2
    BY <2>3
  <2> QED BY <2>1, <2>2, <2>3
<1>12. \A c \in LiveBets :
         /\ Used(<<"placed", c>>)  <=> mirror[c] # NoMirror
         /\ Used(<<"stake", c>>)   <=> mirror[c].status = "WON"
         /\ Used(<<"settled", c>>) <=> mirror[c].status \in {"LOST"} \cup Refunded
         /\ Used(<<"winnings", c>>) => mirror[c].status = "WON"
         /\ mirror[c].status \in Terminal => mirror[c].status = upstream[c].status
  BY DEF IInv, TransfersTellMirror
<1>13. row.status = "PENDING"
  <2> SUFFICES ASSUME row.status \in Terminal PROVE FALSE
    BY <1>4 DEF Mirrored
  <2>1. row.status = view.status
    BY <1>2, <1>5, <1>8, <1>12
  <2>2. 1 \in 1..Len(posts) /\ ~Used(posts[1].key)
    BY <1>3, <1>9 DEF Post, FreshKeys
  <2>3. Used(posts[1].key)
    BY <1>2, <1>8, <1>10, <1>12, <2>1 DEF Terminal
  <2> QED BY <2>2, <2>3
<1>14. TypeOK' /\ Locals' /\ LocksInOrder' /\ LocksExclusive' /\ ClaimsExclusive'
  <2>1. \A a \in Account : Named(posts, a) => a \in tx[t].held
    BY <1>1, <1>8
  <2>2. \A c \in LiveBets : mirror[c] # NoMirror =>
          /\ mirror'[c] # NoMirror
          /\ mirror'[c].user = mirror[c].user /\ mirror'[c].stake = mirror[c].stake
    BY <1>6, <1>7, <1>8
  <2>3. \A c \in LiveBets : mirror[c] = NoMirror /\ mirror'[c] # NoMirror => Claims(t, c)
    <3>1. mirror[b] # NoMirror
      BY <1>8, <1>13 DEF NoMirror
    <3> QED BY <1>7, <3>1
  <2> QED BY <1>2, <1>3, <1>7, <2>1, <2>2, <2>3, CommitStep
<1>15. \A key : Used(key)' <=> \/ Used(key)
                               \/ key = posts[1].key
                               \/ Len(posts) = 2 /\ key = posts[2].key
  <2>1. \A key : Used(key)' <=> (Used(key) \/ \E i \in 1..Len(posts) : posts[i].key = key)
    BY <1>2, <1>3, UsedAfter
  <2>2. 1 \in 1..Len(posts) /\ (Len(posts) = 2 => 2 \in 1..Len(posts))
    BY <1>9
  <2> QED BY <1>11, <2>1, <2>2
<1>16. TransfersTellMirror'
  <2> SUFFICES ASSUME NEW c \in LiveBets
               PROVE /\ Used(<<"placed", c>>)'  <=> mirror'[c] # NoMirror
                     /\ Used(<<"stake", c>>)'   <=> mirror'[c].status = "WON"
                     /\ Used(<<"settled", c>>)' <=> mirror'[c].status \in {"LOST"} \cup Refunded
                     /\ Used(<<"winnings", c>>)' => mirror'[c].status = "WON"
                     /\ mirror'[c].status \in Terminal => mirror'[c].status = upstream'[c].status
    BY DEF TransfersTellMirror
  <2>1. /\ Used(<<"placed", c>>)' <=> Used(<<"placed", c>>)
        /\ Used(<<"stake", c>>)'
             <=> (Used(<<"stake", c>>) \/ (c = b /\ view.status = "WON"))
        /\ Used(<<"settled", c>>)'
             <=> (Used(<<"settled", c>>) \/ (c = b /\ view.status # "WON"))
        /\ Used(<<"winnings", c>>)'
             => (Used(<<"winnings", c>>) \/ (c = b /\ view.status = "WON"))
    BY <1>10, <1>15
  <2>2. CASE c = b
    <3>1. mirror'[c] = new /\ mirror[c] = row
      BY <1>7, <1>8, <2>2
    <3>2. ~Used(<<"stake", c>>) /\ ~Used(<<"settled", c>>) /\ ~Used(<<"winnings", c>>)
      BY <1>12, <1>13, <3>1 DEF Refunded
    <3>3. Used(<<"placed", c>>) /\ mirror'[c] # NoMirror
      <4>1. mirror[c] # NoMirror
        BY <1>13, <3>1 DEF NoMirror
      <4> QED BY <1>6, <1>12, <3>1, <4>1
    <3> QED BY <1>3, <1>5, <1>6, <2>1, <2>2, <3>1, <3>2, <3>3 DEF Refunded, Terminal
  <2>3. CASE c # b
    <3>1. mirror'[c] = mirror[c]
      BY <1>7, <2>3
    <3> QED BY <1>3, <1>12, <2>1, <2>3, <3>1
  <2> QED BY <2>2, <2>3
<1>17. EscrowBacksMirror'
  <2>1. \A c \in LiveBets : Share(c)' = Share(c) + (IF c = b THEN -row.stake ELSE 0)
    <3> TAKE c \in LiveBets
    <3>1. CASE c = b
      <4>1. mirror'[c] = new /\ mirror[c] = row
        BY <1>7, <1>8, <3>1
      <4>2. Share(c)' = 0 /\ Share(c) = row.stake
        BY <1>5, <1>6, <1>13, <4>1 DEF Share, Terminal, Refunded
      <4> QED BY <1>4, <3>1, <4>2
    <3>2. CASE c # b
      <4>1. mirror'[c] = mirror[c] /\ Share(c) \in Int
        BY <1>7, <3>2, ShareInt
      <4> QED BY <3>2, <4>1 DEF Share
    <3> QED BY <3>1, <3>2
  <2>2. balance'[Escrow] = balance[Escrow] + (-row.stake)
    BY <1>3, <1>9, ConstantTypes DEF Post
  <2>3. -row.stake \in Int
    BY <1>4
  <2> QED BY <1>2, <1>7, <2>1, <2>2, <2>3, EscrowShift
<1> QED BY <1>14, <1>16, <1>17 DEF IInv

(* live-bets settles a bet that no request and no row calls settled.       *)
LEMMA UpstreamSettlesStep ==
    ASSUME IInv, NEW b \in LiveBets, NEW view \in BetView, UpstreamSettles(b, view)
    PROVE  IInv'
<1>1. /\ upstream[b].status = "PENDING"
      /\ upstream' = [upstream EXCEPT ![b] = view]
      /\ UNCHANGED <<balance, transfers, mirror, tx>>
  BY DEF UpstreamSettles
<1>2. \A c \in LiveBets : upstream[c].status \in Terminal => upstream'[c] = upstream[c]
  BY <1>1 DEF IInv, TypeOK, Terminal, Refunded
<1>3. TypeOK'
  BY <1>1 DEF IInv, TypeOK
<1>4. Locals'
  <2> SUFFICES ASSUME NEW v \in Tx PROVE Local(tx[v])'
    BY DEF Locals
  <2>1. tx[v] \in Request /\ Local(tx[v]) /\ tx'[v] = tx[v]
    BY <1>1 DEF IInv, TypeOK, Locals
  <2>2. tx[v].op \in {"verified", "settle"} => upstream'[tx[v].bet] = upstream[tx[v].bet]
    BY <1>2, <2>1, RequestKinds DEF Local, SettleLocal, ViewLocal
  <2> QED BY <1>1, <2>1, <2>2 DEF Local, FundLocal, StakeLocal, ViewLocal, SettleLocal, PlaceLocal,
                                  ClaimLocal, CoveredLocal
<1>5. TransfersTellMirror'
  <2>1. \A c \in LiveBets : mirror[c].status \in Terminal => upstream'[c] = upstream[c]
    BY <1>2 DEF IInv, TransfersTellMirror
  <2> QED BY <1>1, <2>1 DEF IInv, TransfersTellMirror, Used
<1>6. /\ LocksInOrder' /\ LocksExclusive' /\ ClaimsExclusive' /\ EscrowBacksMirror'
  BY <1>1 DEF IInv, LocksInOrder, InOrder, LocksExclusive, ClaimsExclusive, Claims,
              EscrowBacksMirror
<1> QED BY <1>3, <1>4, <1>5, <1>6 DEF IInv

-----------------------------------------------------------------------------
(* The invariant, and what it implies *)

LEMMA InitStep == Init => IInv
<1> SUFFICES ASSUME Init PROVE IInv
  OBVIOUS
<1>1. TypeOK
  <2>1. balance \in [Account -> Nat]
    BY ConstantTypes DEF Init
  <2>2. upstream \in [LiveBets -> BetView]
    BY DEF Init, BetView
  <2>3. transfers \subseteq Transfer /\ mirror \in [LiveBets -> Mirrored \cup {NoMirror}]
        /\ tx \in [Tx -> Request]
    BY DEF Init, Request
  <2> QED BY <2>1, <2>2, <2>3 DEF TypeOK
<1>2. \A t \in Tx : tx[t] = Idle
  BY DEF Init
<1>3. Locals /\ LocksInOrder /\ LocksExclusive /\ ClaimsExclusive
  BY <1>2 DEF Locals, Local, LocksInOrder, InOrder, LocksExclusive, ClaimsExclusive, Claims, Idle
<1>4. \A b \in LiveBets : mirror[b] = NoMirror /\ mirror[b].status = "NONE"
  BY DEF Init, NoMirror
<1>5. TransfersTellMirror
  BY <1>4 DEF Init, TransfersTellMirror, Used, Terminal, Refunded
<1>6. EscrowBacksMirror
  <2> DEFINE f == [b \in LiveBets |-> IF mirror[b].status = "PENDING" THEN mirror[b].stake ELSE 0]
  <2>1. \A i \in 1..NumLiveBets : f[i] = 0
    BY <1>4 DEF LiveBets
  <2> HIDE DEF f
  <2>2. SumTo(f, NumLiveBets) = 0
    BY <2>1, ConstantTypes, SumToZero
  <2>3. balance[Escrow] = 0
    BY ConstantTypes DEF Init
  <2> QED BY <2>2, <2>3 DEF EscrowBacksMirror, f
<1> QED BY <1>1, <1>3, <1>5, <1>6 DEF IInv

LEMMA ArriveStep ==
    ASSUME IInv, NEW t \in Tx, Arrive(t)
    PROVE  IInv'
<1>1. ASSUME NEW u \in Users, NEW k \in ClientKeys, NEW amount \in Amounts,
             Recharge(t, u, k, amount)
      PROVE  IInv'
  <2>1. <<"recharge", k>> \in FundKey /\ amount \in Nat \ {0}
    BY ConstantTypes DEF FundKey
  <2> QED BY <1>1, <2>1, FundBeginStep DEF Recharge
<1>2. ASSUME NEW u \in Users, GrantSignupBonus(t, u)
      PROVE  IInv'
  <2>1. <<"bonus", u>> \in FundKey /\ BonusAmount \in Nat \ {0}
    BY ConstantTypes DEF FundKey
  <2> QED BY <1>2, <2>1, FundBeginStep DEF GrantSignupBonus
<1>3. ASSUME NEW u \in Users, NEW s \in Stakes, NEW n \in 1..MaxStakes, StakeBegin(t, u, s, n)
      PROVE  IInv'
  BY <1>3, StakeBeginStep
<1>4. ASSUME NEW u \in Users, NEW b \in LiveBets,
             PlacedVerify(t, u, b) \/ SettledVerify(t, u, b) \/ reconcile_bet(t, u, b)
      PROVE  IInv'
  BY <1>4, PlacedVerifyStep, SettledVerifyStep DEF reconcile_bet
<1> QED BY <1>1, <1>2, <1>3, <1>4 DEF Arrive

LEMMA StepStep ==
    ASSUME IInv, NEW t \in Tx, Step(t) \/ Crash(t)
    PROVE  IInv'
<1>1. CASE Lock(t)
  BY <1>1, LockStep
<1>2. CASE FundCommit(t) \/ FundReplay(t)
  BY <1>2, FundCommitStep, FundReplayStep
<1>3. CASE FundReply(t) \/ FundFail(t) \/ StakeRefuse(t) \/ SettledFail(t)
  BY <1>3, DoneStep DEF FundReply, FundFail, StakeRefuse, SettledFail
<1>4. CASE DeadlockAbort(t) \/ Crash(t)
  BY <1>4, DoneStep DEF DeadlockAbort, Crash
<1>5. CASE StakeCommit(t)
  BY <1>5, StakeCommitStep
<1>6. CASE PlacedClaim(t) \/ PlacedCheck(t) \/ PlacedCommit(t)
  BY <1>6, PlacedClaimStep, PlacedCheckStep, PlacedCommitStep
<1>7. CASE SettledRead(t) \/ SettledCommit(t)
  BY <1>7, SettledReadStep, SettledCommitStep
<1> QED BY <1>1, <1>2, <1>3, <1>4, <1>5, <1>6, <1>7 DEF Step

LEMMA StutterStep == ASSUME IInv, UNCHANGED vars PROVE IInv'
<1>1. UNCHANGED balance /\ UNCHANGED transfers /\ UNCHANGED mirror /\ UNCHANGED upstream
      /\ UNCHANGED tx
  BY DEF vars
<1>2. TypeOK' /\ LocksInOrder' /\ LocksExclusive' /\ ClaimsExclusive'
  BY <1>1 DEF IInv, TypeOK, LocksInOrder, InOrder, LocksExclusive, ClaimsExclusive, Claims
<1>3. Locals'
  BY <1>1 DEF IInv, Locals, Local, FundLocal, StakeLocal, ViewLocal, SettleLocal, PlaceLocal,
              ClaimLocal, CoveredLocal
<1>4. TransfersTellMirror' /\ EscrowBacksMirror'
  BY <1>1 DEF IInv, TransfersTellMirror, EscrowBacksMirror, Used
<1> QED BY <1>2, <1>3, <1>4 DEF IInv

LEMMA NextStep == ASSUME IInv, [Next]_vars PROVE IInv'
<1>1. ASSUME NEW b \in LiveBets, NEW view \in BetView, UpstreamSettles(b, view)
      PROVE  IInv'
  BY <1>1, UpstreamSettlesStep
<1>2. ASSUME NEW t \in Tx, Arrive(t) \/ Step(t) \/ Crash(t)
      PROVE  IInv'
  BY <1>2, ArriveStep, StepStep
<1>3. CASE UNCHANGED vars
  BY <1>3, StutterStep
<1> QED BY <1>1, <1>2, <1>3 DEF Next

\* The invariant holds whatever the interleaving of the requests.
THEOREM WalletInvariant == Spec => []IInv
<1> QED BY InitStep, NextStep, PTL DEF Spec

\* The columns' types and the locals of the handlers; no balance is negative.
THEOREM WalletTypes == Spec => []TypeOK
<1>1. IInv => TypeOK
  BY DEF IInv
<1> QED BY <1>1, WalletInvariant, PTL

\* Escrow holds the stakes of the pending mirrored bets, and nothing else.
THEOREM EscrowNetsToZero == Spec => []EscrowBacksMirror
<1>1. IInv => EscrowBacksMirror
  BY DEF IInv
<1> QED BY <1>1, WalletInvariant, PTL

\* Repeated and concurrent record_placed and record_settled calls mirror and
\* settle a live bet once, in the way live-bets reports.
THEOREM LiveBetSettlesOnce == Spec => []TransfersTellMirror
<1>1. IInv => TransfersTellMirror
  BY DEF IInv
<1> QED BY <1>1, WalletInvariant, PTL

\* After its check of the balance, record_placed finds neither the money gone
\* nor the bet mirrored when the escrow account is its own.
THEOREM CheckedPlacementPosts == Spec => []PlacementWillPost
<1>1. IInv => PlacementWillPost
  <2> SUFFICES ASSUME IInv, NEW t \in Tx, tx[t].op = "covered"
               PROVE  /\ balance[WalletOf[tx[t].user]] >= tx[t].stake
                      /\ mirror[tx[t].bet] = NoMirror /\ ~Used(<<"placed", tx[t].bet>>)
    BY DEF PlacementWillPost
  <2>1. CoveredLocal(tx[t]) /\ tx[t] \in Request
    BY DEF IInv, Locals, Local, TypeOK
  <2>2. tx[t].bet \in LiveBets
    BY <2>1, RequestKinds
  <2> QED BY <2>1, <2>2 DEF CoveredLocal, IInv, TransfersTellMirror
<1> QED BY <1>1, WalletInvariant, PTL

(* Two members of a circle without a placement: the account that the one   *)
(* who is waited for still wants is above the account it holds.            *)
Unplaced(circle) == \A t \in circle : tx[t].op # "covered"
Climbs(circle, u) ==
    \E v \in circle : /\ tx[v].op \in {"fund", "stake", "settle"}
                      /\ \E a \in Wanted(u) : \A c \in Wanted(v) : a < c

LEMMA CircleClimbs ==
    ASSUME IInv, NEW circle \in SUBSET Tx, LockCircle(circle), Unplaced(circle), NEW u \in circle
    PROVE  Climbs(circle, u)
<1>1. PICK v \in circle \ {u} : Wanted(u) \cap tx[v].held # {}
  BY DEF LockCircle
<1>2. PICK a \in Wanted(u) : a \in tx[v].held
  BY <1>1
<1>3. Wanted(v) # {}
  BY <1>1 DEF LockCircle
<1>4. tx[v] \in Request /\ Local(tx[v]) /\ InOrder(tx[v])
  BY <1>1 DEF IInv, TypeOK, Locals, LocksInOrder
<1>5. tx[v].op # "claim"
  BY <1>2, <1>3, <1>4 DEF Local, ClaimLocal, Wanted, Ordered
<1>6. tx[v].op \in {"fund", "stake", "settle"}
  BY <1>1, <1>3, <1>5 DEF Wanted, Ordered, Unplaced
<1>7. Wanted(v) = NextAccount(v) /\ tx[v].posts \in Seq(Transfer)
  BY <1>4, <1>6, RequestKinds DEF Wanted, Ordered
<1>8. \A c \in Wanted(v) : c \in Account /\ Named(tx[v].posts, c) /\ c \notin tx[v].held
  BY <1>1, <1>7, NextIsLeast
<1>9. \A c \in Wanted(v) : a < c
  BY <1>2, <1>4, <1>6, <1>8 DEF InOrder
<1> QED BY <1>1, <1>2, <1>6, <1>9 DEF Climbs

\* Locking in UUID order excludes deadlocks on accounts but for the placements
\* of live bets, which lock the player's account first and the escrow account
\* when they post.
THEOREM OrderedLocksNeverCircle == Spec => []CirclesNeedAPlacement
<1>1. IInv => CirclesNeedAPlacement
  <2> SUFFICES ASSUME IInv, NEW circle \in (SUBSET Tx) \ {{}}, LockCircle(circle),
                      \A t \in circle : tx[t].op # "covered"
               PROVE  FALSE
    BY DEF CirclesNeedAPlacement
  <2> DEFINE Orderly(v) == v \in circle /\ tx[v].op \in {"fund", "stake", "settle"}
             S == {n \in Nat : \E v \in circle : Orderly(v) /\ NumAccounts - n \in Wanted(v)}
  <2>1. \A v : Orderly(v) =>
          /\ Wanted(v) # {}
          /\ \A a \in Wanted(v) : a \in Account /\ \A c \in Wanted(v) : c = a
    <3> SUFFICES ASSUME NEW v, Orderly(v)
                 PROVE /\ Wanted(v) # {}
                       /\ \A a \in Wanted(v) : a \in Account /\ \A c \in Wanted(v) : c = a
      OBVIOUS
    <3>1. Wanted(v) # {} /\ tx[v] \in Request
      BY DEF LockCircle, IInv, TypeOK
    <3>2. Wanted(v) = NextAccount(v) /\ tx[v].posts \in Seq(Transfer)
      BY <3>1, RequestKinds DEF Wanted, Ordered
    <3>3. \A a \in Wanted(v) : a \in Account
      BY <3>2, NextIsLeast
    <3>4. \A a, c \in Wanted(v) : a <= c
      BY <3>2 DEF NextAccount, Least
    <3> QED BY <3>1, <3>3, <3>4, ConstantTypes
  <2>2. \A u \in circle : \E v \in circle : Orderly(v) /\ \E a \in Wanted(u) : \A c \in Wanted(v) : a < c
    <3> TAKE u \in circle
    <3>1. \E v \in circle : /\ tx[v].op \in {"fund", "stake", "settle"}
                            /\ \E a \in Wanted(u) : \A c \in Wanted(v) : a < c
      <4>1. circle \in SUBSET Tx
        OBVIOUS
      <4>2. Unplaced(circle)
        BY DEF Unplaced
      <4>3. Climbs(circle, u)
        BY ONLY IInv, LockCircle(circle), <4>1, <4>2, u \in circle, CircleClimbs
      <4> QED BY ONLY <4>3 DEF Climbs
    <3> QED BY <3>1
  <2>3. \A v : \A a \in Wanted(v) : Orderly(v) => NumAccounts - a \in S
    <3> SUFFICES ASSUME NEW v, NEW a \in Wanted(v), Orderly(v)
                 PROVE  NumAccounts - a \in S
      OBVIOUS
    <3>1. a \in Account
      BY <2>1
    <3>2. NumAccounts - a \in Nat /\ NumAccounts - (NumAccounts - a) = a
      BY <3>1, ConstantTypes DEF Account
    <3> QED BY <3>2
  <2>4. S # {}
    <3>1. PICK u : u \in circle
      OBVIOUS
    <3>2. PICK v \in circle : Orderly(v)
      BY <2>2, <3>1
    <3>3. PICK a : a \in Wanted(v)
      BY <2>1, <3>2
    <3> HIDE DEF S, Orderly
    <3> QED BY <2>3, <3>2, <3>3
  <2>5. PICK n \in S : \A k \in S : n <= k
    <3>1. S \in SUBSET Nat
      OBVIOUS
    <3> HIDE DEF S
    <3> QED BY <2>4, <3>1, LeastNatural
  <2>6. PICK w \in circle : Orderly(w) /\ NumAccounts - n \in Wanted(w)
    BY <2>5
  <2>7. PICK v \in circle : Orderly(v) /\ \E a \in Wanted(w) : \A c \in Wanted(v) : a < c
    BY <2>2
  <2>8. PICK c : c \in Wanted(v)
    BY <2>1, <2>7
  <2>9. NumAccounts - n < c
    <3> HIDE DEF Orderly, S
    <3> QED BY <2>1, <2>6, <2>7, <2>8
  <2>10. n \in Nat /\ NumAccounts - c \in S
    <3>1. n \in Nat
      OBVIOUS
    <3> HIDE DEF Orderly, S
    <3> QED BY <2>3, <2>7, <2>8, <3>1
  <2>11. n <= NumAccounts - c /\ c \in Nat
    <3>1. c \in Account
      BY <2>1, <2>7, <2>8
    <3> QED BY <2>5, <2>10, <3>1, ConstantTypes
  <2> HIDE DEF S
  <2> QED BY <2>9, <2>10, <2>11, ConstantTypes
<1> QED BY <1>1, WalletInvariant, PTL

-----------------------------------------------------------------------------
(* The books: each balance is the sum of its entries                       *)

SumOver(a, rows) == MapThenSumSet(LAMBDA row : Move(row.leg, a), rows)
MovesOf(a, rows) == [row \in rows |-> Move(row.leg, a)]
Opening(a)       == IF a = HousePromo THEN PromoOpening ELSE 0

Books ==
    /\ IsFiniteSet(transfers)
    /\ \A x, y \in transfers : x.key = y.key => x = y
    /\ \A a \in Account : balance[a] = Opening(a) + SumOver(a, transfers)

(* MapThenSumSet sums the moves of the rows.                               *)
LEMMA SumOverSums ==
    ASSUME NEW a, NEW rows \in SUBSET Transfer, IsFiniteSet(rows)
    PROVE  \E g : AreSetSums(g, MovesOf(a, rows), SUBSET rows) /\ SumOver(a, rows) = g[rows]
<1> DEFINE v == MovesOf(a, rows)
           IsIter(g) == g = [s \in SUBSET rows |->
                               IF s = {} THEN 0 ELSE LET x == CHOOSE y \in s : TRUE
                                                     IN  Move(x.leg, a) + g[s \ {x}]]
           iter == CHOOSE g : IsIter(g)
<1>1. \A row \in rows : v[row] = Move(row.leg, a) /\ v[row] \in Int
  BY MoveInt DEF MovesOf
<1>2. PICK g \in [SUBSET rows -> Int] : AreSetSums(g, v, SUBSET rows)
  BY <1>1, SetSumsExist
<1>3. \A s \in SUBSET rows : s # {} => (CHOOSE y \in s : TRUE) \in rows
  OBVIOUS
<1>4. IsIter(g)
  <2>1. \A s \in SUBSET rows : s # {} => v[Pick(s)] = Move(Pick(s).leg, a)
    BY <1>1, <1>3 DEF Pick
  <2>2. \A s \in SUBSET rows :
          g[s] = IF s = {} THEN 0 ELSE Move(Pick(s).leg, a) + g[s \ {Pick(s)}]
    BY <1>2, <2>1 DEF AreSetSums
  <2>3. g = [s \in SUBSET rows |-> g[s]]
    OBVIOUS
  <2> QED BY <2>2, <2>3 DEF Pick
<1>5. IsIter(iter)
  BY <1>4
<1>6. AreSetSums(iter, v, SUBSET rows)
  <2>1. \A s \in SUBSET rows :
          iter[s] = IF s = {} THEN 0 ELSE Move(Pick(s).leg, a) + iter[s \ {Pick(s)}]
    <3> HIDE DEF iter
    <3> QED BY <1>5 DEF Pick
  <2>2. \A s \in SUBSET rows : s # {} => v[Pick(s)] = Move(Pick(s).leg, a)
    BY <1>1, <1>3 DEF Pick
  <2> HIDE DEF iter, v
  <2> QED BY <2>1, <2>2 DEF AreSetSums
<1>7. SumOver(a, rows) = iter[rows]
  BY DEF SumOver, MapThenSumSet, MapThenFoldSet
<1> HIDE DEF iter, v
<1> QED BY <1>6, <1>7 DEF v

LEMMA SumOverAdds ==
    ASSUME NEW a, NEW rows \in SUBSET Transfer, IsFiniteSet(rows), NEW x \in Transfer, x \notin rows
    PROVE  SumOver(a, rows \cup {x}) = SumOver(a, rows) + Move(x.leg, a) /\ SumOver(a, rows) \in Int
<1> DEFINE more == rows \cup {x}
           v == MovesOf(a, more)
           w == MovesOf(a, rows)
<1>1. more \in SUBSET Transfer /\ IsFiniteSet(more) /\ rows \in SUBSET more /\ more \ {x} = rows
      /\ x \in more
  BY FS_AddElement
<1>2. /\ \A row \in more : v[row] = Move(row.leg, a) /\ v[row] \in Int
      /\ \A row \in rows : w[row] = v[row]
  BY <1>1, MoveInt DEF MovesOf
<1> HIDE DEF more
<1>3. PICK h : AreSetSums(h, v, SUBSET more) /\ SumOver(a, more) = h[more]
  BY <1>1, SumOverSums
<1>4. PICK g : AreSetSums(g, w, SUBSET rows) /\ SumOver(a, rows) = g[rows]
  BY SumOverSums
<1> HIDE DEF v, w
<1>5. h[more] = v[x] + h[rows] /\ h[more] \in Int /\ h[rows] \in Int
  BY <1>1, <1>2, <1>3, SetSumsAdd
<1>6. g[rows] = h[rows]
  <2>1. SUBSET rows \subseteq SUBSET more
    BY <1>1
  <2>2. \A s \in SUBSET rows : g[s] = h[s]
    BY <1>2, <1>3, <1>4, <2>1, SetSumsUnique
  <2> QED BY <2>2
<1>7. v[x] = Move(x.leg, a) /\ v[x] \in Int
  BY <1>1, <1>2
<1> QED BY <1>3, <1>4, <1>5, <1>6, <1>7 DEF more

LEMMA SumOverInt ==
    ASSUME NEW a, NEW rows \in SUBSET Transfer, IsFiniteSet(rows)
    PROVE  SumOver(a, rows) \in Int
<1> DEFINE v == MovesOf(a, rows)
<1>1. \A row \in rows : v[row] \in Int
  BY MoveInt DEF MovesOf
<1>2. PICK h : AreSetSums(h, v, SUBSET rows) /\ SumOver(a, rows) = h[rows]
  BY SumOverSums
<1>3. PICK g \in [SUBSET rows -> Int] : AreSetSums(g, v, SUBSET rows)
  BY <1>1, SetSumsExist
<1>4. g[rows] = h[rows]
  BY <1>2, <1>3, SetSumsUnique
<1> QED BY <1>2, <1>3, <1>4

LEMMA SumOverEmpty == \A a : SumOver(a, {}) = 0
<1> SUFFICES ASSUME NEW a PROVE SumOver(a, {}) = 0
  OBVIOUS
<1>1. PICK g : AreSetSums(g, MovesOf(a, {}), SUBSET {}) /\ SumOver(a, {}) = g[{}]
  BY SumOverSums, FS_EmptySet
<1> QED BY <1>1 DEF AreSetSums

(* A request posts one or two rows, of different keys.                     *)
LEMMA PostsAreFew ==
    ASSUME IInv, NEW t \in Tx, tx[t].op \in {"fund", "stake", "settle"}
    PROVE  /\ tx[t].posts \in Seq(Transfer) /\ Len(tx[t].posts) \in {1, 2}
           /\ Len(tx[t].posts) = 2 => tx[t].posts[1].key # tx[t].posts[2].key
<1>1. tx[t] \in Request /\ Local(tx[t])
  BY DEF IInv, TypeOK, Locals
<1>2. tx[t].posts \in Seq(Transfer)
  BY <1>1, RequestKinds
<1>3. CASE tx[t].op \in {"fund", "stake"}
  <2>1. \E x : tx[t].posts = <<x>>
    BY <1>1, <1>3 DEF Local, FundLocal, StakeLocal
  <2> QED BY <1>2, <2>1
<1>4. CASE tx[t].op = "settle"
  <2> DEFINE b == tx[t].bet
             view == tx[t].view
             row == mirror[b]
             posts == tx[t].posts
  <2>1. SettleLocal(tx[t]) /\ b \in LiveBets /\ view \in BetView
    BY <1>1, <1>4, RequestKinds DEF Local
  <2>2. row \in Mirrored
    BY <2>1 DEF IInv, TypeOK, SettleLocal
  <2>3. row.stake \in Nat \ {0} /\ row.user \in Users
    <3> HIDE DEF row
    <3> QED BY <2>2, ConstantTypes DEF Mirrored
  <2>4. /\ view.status \in Terminal
        /\ view.status = "WON" => view.payout \in Nat /\ view.payout >= row.stake
        /\ posts = SettlePosts(b, row.stake, view, row.user)
    BY <2>1 DEF SettleLocal, ViewLocal
  <2> HIDE DEF posts, b, view, row
  <2>5. /\ Len(posts) \in {1, 2}
        /\ posts[1] = Row(IF view.status = "WON" THEN <<"stake", b>> ELSE <<"settled", b>>,
                          Escrow,
                          IF view.status = "LOST" THEN HouseRevenue ELSE WalletOf[row.user],
                          row.stake)
        /\ Len(posts) = 2 =>
             /\ view.status = "WON" /\ view.payout - row.stake \in Nat \ {0}
             /\ posts[2] = Row(<<"winnings", b>>, HousePromo, WalletOf[row.user], view.payout - row.stake)
    BY <2>1, <2>3, <2>4, SettlePostsShape
  <2>6. Len(posts) = 2 => posts[1].key # posts[2].key
    BY <2>5 DEF Row
  <2> QED BY <1>2, <2>5, <2>6 DEF posts
<1> QED BY <1>3, <1>4

LEMMA PostKeepsBooks ==
    ASSUME TypeOK, Books, NEW posts \in Seq(Transfer), Len(posts) \in {1, 2},
           Len(posts) = 2 => posts[1].key # posts[2].key, Post(posts)
    PROVE  Books'
<1> DEFINE x == posts[1]
           y == posts[2]
           one == transfers \cup {x}
<1>1. x \in Transfer /\ \A z \in transfers : z.key # x.key
  BY DEF Post, FreshKeys, Used
<1>2. transfers \in SUBSET Transfer /\ IsFiniteSet(transfers) /\ \A a \in Account : balance[a] \in Int
  BY DEF TypeOK, Books
<1>3. one \in SUBSET Transfer /\ IsFiniteSet(one) /\ x \notin transfers
  BY <1>1, <1>2, FS_AddElement
<1>4. \A a \in Account : balance'[a] = balance[a] + Effect(posts, a)
  BY DEF Post
<1>5. CASE Len(posts) = 1
  <2>1. transfers' = one
    BY <1>5 DEF Post
  <2>2. posts = <<x>>
    BY <1>5
  <2> HIDE DEF x, one
  <2>3. \A a \in Account : balance'[a] = Opening(a) + SumOver(a, one)
    <3> TAKE a \in Account
    <3>1. Effect(posts, a) = Move(x.leg, a) /\ Move(x.leg, a) \in Int
      BY <1>1, <2>2, EffectOne, MoveInt
    <3>2. SumOver(a, one) = SumOver(a, transfers) + Move(x.leg, a) /\ SumOver(a, transfers) \in Int
      BY <1>1, <1>2, <1>3, SumOverAdds DEF one
    <3>3. Opening(a) \in Int /\ balance[a] = Opening(a) + SumOver(a, transfers)
      BY ConstantTypes DEF Opening, Books
    <3>4. balance'[a] = balance[a] + Effect(posts, a)
      BY <1>4
    <3> QED BY ONLY <3>1, <3>2, <3>3, <3>4
  <2>4. \A z, u \in one : z.key = u.key => z = u
    BY <1>1 DEF Books, one
  <2> QED BY <1>3, <2>1, <2>3, <2>4 DEF Books
<1>6. CASE Len(posts) = 2
  <2> DEFINE two == one \cup {y}
  <2>1. transfers' = two
    BY <1>6 DEF Post
  <2>2. posts = <<x, y>>
    BY <1>6
  <2>3. y \in Transfer /\ y.key # x.key /\ \A z \in transfers : z.key # y.key
    BY <1>6 DEF Post, FreshKeys, Used
  <2> HIDE DEF x, y, two
  <2>4. y \notin one /\ IsFiniteSet(two)
    BY <1>3, <2>3, FS_AddElement DEF two
  <2>5. \A a \in Account : balance'[a] = Opening(a) + SumOver(a, two)
    <3> TAKE a \in Account
    <3>1. /\ Effect(posts, a) = Move(x.leg, a) + Move(y.leg, a)
          /\ Move(x.leg, a) \in Int /\ Move(y.leg, a) \in Int
      BY <1>1, <2>2, <2>3, EffectTwo, MoveInt
    <3>2. SumOver(a, one) = SumOver(a, transfers) + Move(x.leg, a) /\ SumOver(a, transfers) \in Int
      BY <1>1, <1>2, <1>3, SumOverAdds
    <3>3. SumOver(a, two) = SumOver(a, one) + Move(y.leg, a)
      <4> HIDE DEF one
      <4> QED BY <1>3, <2>3, <2>4, SumOverAdds DEF two
    <3>4. Opening(a) \in Int /\ balance[a] = Opening(a) + SumOver(a, transfers)
      BY ConstantTypes DEF Opening, Books
    <3>5. balance'[a] = balance[a] + Effect(posts, a)
      BY <1>4
    <3> HIDE DEF one
    <3> QED BY ONLY <3>1, <3>2, <3>3, <3>4, <3>5
  <2>6. \A z, u \in two : z.key = u.key => z = u
    BY <1>1, <2>3 DEF Books, two
  <2> QED BY <2>1, <2>4, <2>5, <2>6 DEF Books
<1> QED BY <1>5, <1>6

LEMMA InitBooks == Init => Books
<1> SUFFICES ASSUME Init PROVE Books
  OBVIOUS
<1>1. transfers = {} /\ \A a \in Account : balance[a] = Opening(a) + 0
  BY ConstantTypes DEF Init, Opening
<1> QED BY <1>1, SumOverEmpty, FS_EmptySet DEF Books

LEMMA NextBooks == ASSUME IInv, Books, [Next]_vars PROVE Books'
<1>1. ASSUME UNCHANGED <<balance, transfers>> PROVE Books'
  BY <1>1 DEF Books
<1>2. ASSUME NEW t \in Tx, FundCommit(t) \/ StakeCommit(t) \/ SettledCommit(t) PROVE Books'
  <2>1. tx[t].op \in {"fund", "stake", "settle"} /\ Post(tx[t].posts)
    BY <1>2 DEF FundCommit, StakeCommit, SettledCommit, Ready
  <2> QED BY <2>1, PostsAreFew, PostKeepsBooks DEF IInv
<1>3. ASSUME NEW t \in Tx, PlacedCommit(t) PROVE Books'
  <2> DEFINE b == tx[t].bet
             u == tx[t].user
             x == Row(<<"placed", b>>, WalletOf[u], Escrow, tx[t].stake)
  <2>1. tx[t] \in Request /\ tx[t].op = "covered" /\ Post(<<x>>)
    BY <1>3 DEF IInv, TypeOK, PlacedCommit
  <2>2. b \in LiveBets /\ u \in Users /\ tx[t].stake \in Nat \ {0}
    BY <2>1, RequestKinds, ConstantTypes
  <2>3. <<"placed", b>> \in Key
    BY <2>2 DEF Key
  <2>4. x \in Transfer
    BY <2>2, <2>3, ConstantTypes, SingletonPosts
  <2> HIDE DEF x
  <2> DEFINE posts == <<x>>
  <2>5. posts \in Seq(Transfer) /\ Len(posts) = 1 /\ Post(posts)
    BY <2>1, <2>4
  <2> HIDE DEF posts
  <2> QED BY <2>5, PostKeepsBooks DEF IInv
<1>4. ASSUME NEW t \in Tx, Arrive(t) PROVE Books'
  BY <1>1, <1>4 DEF Arrive, Recharge, GrantSignupBonus, Fund, StakeBegin, PlacedVerify,
     SettledVerify, reconcile_bet
<1>5. ASSUME NEW t \in Tx, Step(t) \/ Crash(t) PROVE Books'
  BY <1>1, <1>2, <1>3, <1>5 DEF Step, Crash, Lock, FundReplay, FundReply, FundFail, StakeRefuse,
     PlacedClaim, PlacedCheck, SettledRead, SettledFail, DeadlockAbort
<1>6. ASSUME NEW b \in LiveBets, NEW view \in BetView, UpstreamSettles(b, view) PROVE Books'
  BY <1>1, <1>6 DEF UpstreamSettles
<1>7. CASE UNCHANGED vars
  BY <1>1, <1>7 DEF vars
<1> QED BY <1>4, <1>5, <1>6, <1>7 DEF Next

\* A retried recharge, bonus or live-bets call moves its money once, and
\* reconcile_wallets, whenever it runs, finds every balance equal to its entries.
THEOREM KeysMoveMoneyOnce == Spec => []KeysPayOnce
<1>1. Init => IInv /\ Books
  BY InitStep, InitBooks
<1>2. IInv /\ Books /\ [Next]_vars => IInv' /\ Books'
  BY NextStep, NextBooks
<1>3. IInv /\ Books => KeysPayOnce
  <2> SUFFICES ASSUME IInv, Books PROVE KeysPayOnce
    OBVIOUS
  <2>1. \A a : ledger_sum(a) = SumOver(a, transfers)
    BY DEF ledger_sum, SumOver
  <2>2. \A a \in Account : balance[a] = Opening(a) + ledger_sum(a)
    BY <2>1 DEF Books
  <2>3. ASSUME NEW a \in Account, a # HousePromo PROVE balance[a] = ledger_sum(a)
    <3>1. SumOver(a, transfers) \in Int
      <4>1. transfers \in SUBSET Transfer /\ IsFiniteSet(transfers)
        BY DEF IInv, TypeOK, Books
      <4> QED BY <4>1, SumOverInt
    <3> QED BY <2>1, <2>2, <2>3, <3>1 DEF Opening
  <2>4. _reconcile_with_session = {}
    BY <2>3 DEF _reconcile_with_session, _RECONCILE_EXCLUDED_ACCOUNT_IDS
  <2> QED BY <2>2, <2>4, ConstantTypes DEF KeysPayOnce, Books, Opening
<1> QED BY <1>1, <1>2, <1>3, PTL DEF Spec
-----------------------------------------------------------------------------
(* The atomic cashier: every step of a request is one of its steps or none *)

(* What the cashier asks of a request: its posts, and the stake live-bets  *)
(* took.                                                                   *)
Recharges(r, u, k, amount) == r.posts = <<Row(<<"recharge", k>>, HousePromo, WalletOf[u], amount)>>
Grants(r, u)               == r.posts = <<Row(<<"bonus", u>>, HousePromo, WalletOf[u], BonusAmount)>>
Bets(r, n, u, stake)       == r.posts = <<Row(<<"bet", n>>, WalletOf[u], Pool, stake)>>

FundSource(r) ==
    \E u \in Users : \/ \E k \in ClientKeys, amount \in Amounts : Recharges(r, u, k, amount)
                     \/ Grants(r, u)
StakeSource(r) == \E n \in 1..MaxStakes, u \in Users, stake \in Stakes : Bets(r, n, u, stake)
PlaceSource(r) == upstream[r.bet].status = "PENDING" => r.stake = upstream[r.bet].stake
SettleSource(r) ==
    /\ r.view.stake = mirror[r.bet].stake
    /\ r.view.status = "WON" => r.view.payout # None

Source(r) ==
    /\ r.op = "fund"   => FundSource(r)
    /\ r.op = "stake"  => StakeSource(r)
    /\ r.op \in {"place", "claim", "covered"} => PlaceSource(r)
    /\ r.op = "settle" => SettleSource(r)
Sources == \A t \in Tx : Source(tx[t])

(* A step that changes only one request.                                   *)
LEMMA SourcesQuiet ==
    ASSUME IInv, Sources, NEW t \in Tx, NEW r, tx' = [tx EXCEPT ![t] = r],
           UNCHANGED <<mirror, upstream>>, Source(r)
    PROVE  Sources'
<1> SUFFICES ASSUME NEW v \in Tx PROVE Source(tx[v])'
  BY DEF Sources
<1>1. tx'[v] = r \/ tx'[v] = tx[v]
  BY DEF IInv, TypeOK
<1>2. Source(r) /\ Source(tx[v])
  BY DEF Sources
<1>3. Source(tx'[v])
  BY ONLY <1>1, <1>2
<1> QED BY <1>3 DEF Source, FundSource, StakeSource, PlaceSource, SettleSource,
                    Recharges, Grants, Bets

LEMMA SourcesDone ==
    ASSUME IInv, Sources, NEW t \in Tx, Done(t), UNCHANGED <<mirror, upstream>>
    PROVE  Sources'
<1>1. Source(Idle)
  BY DEF Source, Idle
<1> QED BY <1>1, SourcesQuiet DEF Done

(* A request goes on with the posts, the bet and the stake it had.         *)
LEMMA SourcesProceed ==
    ASSUME IInv, Sources, NEW t \in Tx, NEW r, Proceed(t, r), UNCHANGED <<mirror, upstream>>,
           r.op \in {"fund", "stake", "settle"} =>
             r.op = tx[t].op /\ r.posts = tx[t].posts,
           r.op = "settle" => r.bet = tx[t].bet /\ r.view = tx[t].view,
           r.op \in {"place", "claim", "covered"} =>
             /\ tx[t].op \in {"place", "claim", "covered"}
             /\ r.bet = tx[t].bet /\ r.stake = tx[t].stake
    PROVE  Sources'
<1>1. Source(tx[t])
  BY DEF Sources
<1>2. Source(r)
  BY <1>1 DEF Source, FundSource, StakeSource, PlaceSource, SettleSource, Recharges, Grants, Bets
<1> QED BY <1>2, SourcesQuiet DEF Proceed

LEMMA SourcesArrive == ASSUME IInv, Sources, NEW t \in Tx, Arrive(t) PROVE Sources'
<1>1. ASSUME NEW u \in Users, NEW k \in ClientKeys, NEW amount \in Amounts,
             Recharge(t, u, k, amount)
      PROVE  Sources'
  <2> DEFINE r == [op |-> "fund", held |-> {},
                   posts |-> <<Row(<<"recharge", k>>, HousePromo, WalletOf[u], amount)>>]
  <2>1. r.op = "fund" /\ Recharges(r, u, k, amount)
    BY DEF Recharges
  <2>2. tx' = [tx EXCEPT ![t] = r] /\ UNCHANGED <<mirror, upstream>>
    BY <1>1 DEF Recharge, Fund, Begin
  <2> HIDE DEF r
  <2>3. Source(r)
    BY <2>1 DEF Source, FundSource
  <2> QED BY <2>2, <2>3, SourcesQuiet
<1>2. ASSUME NEW u \in Users, GrantSignupBonus(t, u) PROVE Sources'
  <2> DEFINE r == [op |-> "fund", held |-> {},
                   posts |-> <<Row(<<"bonus", u>>, HousePromo, WalletOf[u], BonusAmount)>>]
  <2>1. r.op = "fund" /\ Grants(r, u)
    BY DEF Grants
  <2>2. tx' = [tx EXCEPT ![t] = r] /\ UNCHANGED <<mirror, upstream>>
    BY <1>2 DEF GrantSignupBonus, Fund, Begin
  <2> HIDE DEF r
  <2>3. Source(r)
    BY <2>1 DEF Source, FundSource
  <2> QED BY <2>2, <2>3, SourcesQuiet
<1>3. ASSUME NEW u \in Users, NEW s \in Stakes, NEW n \in 1..MaxStakes, StakeBegin(t, u, s, n)
      PROVE  Sources'
  <2> DEFINE r == [op |-> "stake", held |-> {},
                   posts |-> <<Row(<<"bet", n>>, WalletOf[u], Pool, s)>>]
  <2>1. r.op = "stake" /\ Bets(r, n, u, s)
    BY DEF Bets
  <2>2. tx' = [tx EXCEPT ![t] = r] /\ UNCHANGED <<mirror, upstream>>
    BY <1>3 DEF StakeBegin, Begin
  <2> HIDE DEF r
  <2>3. Source(r)
    BY <2>1 DEF Source, StakeSource
  <2> QED BY <2>2, <2>3, SourcesQuiet
<1>4. ASSUME NEW u \in Users, NEW b \in LiveBets, PlacedVerify(t, u, b) PROVE Sources'
  <2> DEFINE r == [op |-> "place", held |-> {}, bet |-> b, user |-> u,
                   stake |-> upstream[b].stake]
  <2>1. r.op = "place" /\ PlaceSource(r)
    BY DEF PlaceSource
  <2>2. tx' = [tx EXCEPT ![t] = r] /\ UNCHANGED <<mirror, upstream>>
    BY <1>4 DEF PlacedVerify, Begin
  <2> HIDE DEF r
  <2>3. Source(r)
    BY <2>1 DEF Source
  <2> QED BY <2>2, <2>3, SourcesQuiet
<1>5. ASSUME NEW u \in Users, NEW b \in LiveBets,
             SettledVerify(t, u, b) \/ reconcile_bet(t, u, b)
      PROVE  Sources'
  <2> DEFINE r == [op |-> "verified", held |-> {}, bet |-> b, user |-> u, view |-> upstream[b]]
  <2>1. tx' = [tx EXCEPT ![t] = r] /\ UNCHANGED <<mirror, upstream>>
    BY <1>5 DEF reconcile_bet, SettledVerify, Begin
  <2>2. Source(r)
    BY DEF Source
  <2> QED BY <2>1, <2>2, SourcesQuiet
<1> QED BY <1>1, <1>2, <1>3, <1>4, <1>5 DEF Arrive

(* A settlement takes its stake from the mirror row it has just compared.  *)
LEMMA SourcesSettledRead == ASSUME IInv, Sources, NEW t \in Tx, SettledRead(t) PROVE Sources'
<1> DEFINE b == tx[t].bet
           view == tx[t].view
           r == [op |-> "settle", held |-> {}, bet |-> b, view |-> view,
                 posts |-> SettlePosts(b, mirror[b].stake, view, tx[t].user)]
<1>1. CASE Settleable(mirror[b], view, tx[t].user)
  <2>1. r.op = "settle" /\ SettleSource(r)
    BY <1>1 DEF SettleSource, Settleable
  <2>2. tx' = [tx EXCEPT ![t] = r] /\ UNCHANGED <<mirror, upstream>>
    BY <1>1 DEF SettledRead, Proceed
  <2> HIDE DEF r
  <2>3. Source(r)
    BY <2>1 DEF Source
  <2> QED BY <2>2, <2>3, SourcesQuiet
<1>2. CASE ~Settleable(mirror[b], view, tx[t].user)
  BY <1>2, SourcesDone DEF SettledRead
<1> QED BY <1>1, <1>2

(* The commits of the bridge: no settlement under way sees another stake.  *)
LEMMA SourcesMirror ==
    ASSUME IInv, Sources, NEW t \in Tx, Done(t), upstream' = upstream,
           \A b \in LiveBets : mirror[b] # NoMirror => mirror'[b].stake = mirror[b].stake
    PROVE  Sources'
<1> SUFFICES ASSUME NEW v \in Tx PROVE Source(tx[v])'
  BY DEF Sources
<1>1. CASE v = t
  <2>1. tx'[v] = Idle
    BY <1>1 DEF Done, IInv, TypeOK
  <2> QED BY <2>1 DEF Source, Idle
<1>2. CASE v # t
  <2>1. tx'[v] = tx[v] /\ tx[v] \in Request /\ Local(tx[v]) /\ Source(tx[v])
    BY <1>2 DEF Done, IInv, TypeOK, Locals, Sources
  <2>2. tx[v].op = "settle" => SettleSource(tx[v])'
    <3> SUFFICES ASSUME tx[v].op = "settle" PROVE SettleSource(tx[v])'
      OBVIOUS
    <3>1. tx[v].bet \in LiveBets /\ mirror[tx[v].bet] # NoMirror /\ SettleSource(tx[v])
      BY <2>1, RequestKinds DEF Local, SettleLocal, Source
    <3>2. mirror'[tx[v].bet].stake = mirror[tx[v].bet].stake
      BY <3>1
    <3> QED BY <2>1, <3>1, <3>2 DEF SettleSource
  <2>3. /\ tx[v].op = "fund" => FundSource(tx[v])'
        /\ tx[v].op = "stake" => StakeSource(tx[v])'
        /\ tx[v].op \in {"place", "claim", "covered"} => PlaceSource(tx[v])'
    BY <2>1 DEF Source, FundSource, StakeSource, PlaceSource, Recharges, Grants, Bets
  <2> QED BY <2>1, <2>2, <2>3 DEF Source
<1> QED BY <1>1, <1>2

LEMMA MirrorStakeKept ==
    ASSUME IInv, NEW t \in Tx, PlacedCommit(t) \/ SettledCommit(t)
    PROVE  \A b \in LiveBets : mirror[b] # NoMirror => mirror'[b].stake = mirror[b].stake
<1> SUFFICES ASSUME NEW b \in LiveBets, mirror[b] # NoMirror
             PROVE mirror'[b].stake = mirror[b].stake
  OBVIOUS
<1>1. mirror[b] \in Mirrored /\ tx[t] \in Request /\ Local(tx[t])
  BY DEF IInv, TypeOK, Locals
<1>2. CASE b # tx[t].bet
  <2>1. \/ \E new : mirror' = [mirror EXCEPT ![tx[t].bet] = new]
        \/ mirror' = [mirror EXCEPT ![tx[t].bet].status = tx[t].view.status]
    BY DEF PlacedCommit, SettledCommit
  <2>2. mirror \in [LiveBets -> Mirrored \cup {NoMirror}]
    BY DEF IInv, TypeOK
  <2> QED BY ONLY <1>2, <2>1, <2>2, b \in LiveBets
<1>3. CASE b = tx[t].bet /\ PlacedCommit(t)
  <2>1. tx[t].op = "covered"
    BY <1>3 DEF PlacedCommit
  <2> QED BY <1>1, <1>3, <2>1 DEF Local, CoveredLocal
<1>4. CASE b = tx[t].bet /\ SettledCommit(t)
  <2>1. mirror' = [mirror EXCEPT ![b].status = tx[t].view.status]
    BY <1>4 DEF SettledCommit
  <2>2. mirror'[b] = [mirror[b] EXCEPT !.status = tx[t].view.status]
    BY <2>1 DEF IInv, TypeOK
  <2> QED BY <1>1, <2>2 DEF Mirrored
<1> QED BY <1>2, <1>3, <1>4

LEMMA SourcesStep == ASSUME IInv, Sources, NEW t \in Tx, Step(t) \/ Crash(t) PROVE Sources'
<1>0. tx[t] \in Request
  BY DEF IInv, TypeOK
<1>1. CASE Lock(t)
  <2> DEFINE r == [tx[t] EXCEPT !.held = @ \cup Wanted(t)]
  <2>1. Proceed(t, r) /\ UNCHANGED <<mirror, upstream>>
    BY <1>1 DEF Lock
  <2>2. /\ r.op = tx[t].op
        /\ tx[t].op \in {"fund", "stake", "settle"} => r.posts = tx[t].posts
        /\ tx[t].op = "settle" => r.bet = tx[t].bet /\ r.view = tx[t].view
        /\ tx[t].op \in {"place", "claim", "covered"} =>
             r.bet = tx[t].bet /\ r.stake = tx[t].stake
    BY <1>0 DEF Request, Idle, Funding, Staking, Settling, Verified, Placement
  <2> HIDE DEF r
  <2> QED BY <2>1, <2>2, SourcesProceed
<1>2. CASE FundReplay(t)
  <2> DEFINE r == [tx[t] EXCEPT !.op = "replay", !.held = {}]
  <2>1. Proceed(t, r) /\ UNCHANGED <<mirror, upstream>> /\ tx[t].op = "fund"
    BY <1>2 DEF FundReplay, Ready
  <2>2. r.op = "replay"
    BY <1>0, <2>1 DEF Request, Idle, Funding, Staking, Settling, Verified, Placement
  <2> HIDE DEF r
  <2> QED BY <2>1, <2>2, SourcesProceed
<1>3. CASE PlacedClaim(t) \/ PlacedCheck(t)
  <2>1. CASE Done(t)
    BY <1>3, <2>1, SourcesDone DEF PlacedClaim, PlacedCheck
  <2>2. ASSUME NEW op \in {"claim", "covered"}, Proceed(t, [tx[t] EXCEPT !.op = op])
        PROVE  Sources'
    <3> DEFINE r == [tx[t] EXCEPT !.op = op]
    <3>1. tx[t].op \in {"place", "claim"} /\ UNCHANGED <<mirror, upstream>>
      BY <1>3 DEF PlacedClaim, PlacedCheck
    <3>2. r.op = op /\ r.bet = tx[t].bet /\ r.stake = tx[t].stake
      BY <1>0, <3>1 DEF Request, Idle, Funding, Staking, Settling, Verified, Placement
    <3>3. Proceed(t, r)
      BY <2>2
    <3> HIDE DEF r
    <3> QED BY <3>1, <3>2, <3>3, SourcesProceed
  <2> QED BY <1>3, <2>1, <2>2 DEF PlacedClaim, PlacedCheck
<1>4. CASE SettledRead(t)
  BY <1>4, SourcesSettledRead
<1>5. CASE PlacedCommit(t) \/ SettledCommit(t)
  <2>1. Done(t) /\ upstream' = upstream
    BY <1>5 DEF PlacedCommit, SettledCommit
  <2> QED BY <1>5, <2>1, MirrorStakeKept, SourcesMirror
<1>6. CASE Done(t) /\ UNCHANGED <<mirror, upstream>>
  BY <1>6, SourcesDone
<1> QED BY <1>1, <1>2, <1>3, <1>4, <1>5, <1>6 DEF Step, Crash, FundCommit, FundReply, FundFail,
           StakeCommit, StakeRefuse, SettledFail, DeadlockAbort

LEMMA SourcesNext == ASSUME IInv, Sources, [Next]_vars PROVE Sources'
<1>1. ASSUME NEW b \in LiveBets, NEW view \in BetView, UpstreamSettles(b, view) PROVE Sources'
  <2> SUFFICES ASSUME NEW v \in Tx PROVE Source(tx[v])'
    BY DEF Sources
  <2>1. /\ tx' = tx /\ mirror' = mirror /\ Source(tx[v])
        /\ upstream' = [upstream EXCEPT ![b] = view]
        /\ view.status # "PENDING"
    BY <1>1 DEF UpstreamSettles, Sources, Terminal, Refunded
  <2>2. \A c \in LiveBets : upstream'[c].status = "PENDING" => upstream'[c] = upstream[c]
    BY <2>1 DEF IInv, TypeOK
  <2>3. tx[v].op \in {"place", "claim", "covered"} => PlaceSource(tx[v])'
    <3>1. tx[v].op \in {"place", "claim", "covered"} => tx[v].bet \in LiveBets
      BY RequestKinds DEF IInv, TypeOK
    <3> QED BY <2>1, <2>2, <3>1 DEF Source, PlaceSource
  <2>4. /\ tx[v].op = "fund" => FundSource(tx[v])'
        /\ tx[v].op = "stake" => StakeSource(tx[v])'
        /\ tx[v].op = "settle" => SettleSource(tx[v])'
    BY <2>1 DEF Source, FundSource, StakeSource, SettleSource, Recharges, Grants, Bets
  <2> QED BY <2>1, <2>3, <2>4 DEF Source
<1>2. ASSUME NEW t \in Tx, Arrive(t) \/ Step(t) \/ Crash(t) PROVE Sources'
  BY <1>2, SourcesArrive, SourcesStep
<1>3. CASE UNCHANGED vars
  BY <1>3 DEF vars, Sources, Source, FundSource, StakeSource, PlaceSource, SettleSource,
              Recharges, Grants, Bets
<1> QED BY <1>1, <1>2, <1>3 DEF Next

LEMMA InitSources == Init => Sources
BY DEF Init, Sources, Source, Idle

-----------------------------------------------------------------------------
(* The steps of the cashier *)

LEMMA SameLedger ==
    /\ Promised!LiveBets = LiveBets /\ Promised!Account = Account
    /\ Promised!NoMirror = NoMirror /\ Promised!Terminal = Terminal /\ Promised!NoLeg = NoLeg
    /\ \A d, c, n : Promised!Leg(d, c, n) = Leg(d, c, n)
    /\ \A leg, a : Promised!Move(leg, a) = Move(leg, a)
BY DEF Promised!LiveBets, LiveBets, Promised!Account, Account, Promised!NoMirror, NoMirror,
       Promised!Terminal, Terminal, Promised!Refunded, Refunded, Promised!NoLeg, NoLeg,
       Promised!Leg, Leg, Promised!Move, Move

LEMMA NoLegMoves == \A a : Move(NoLeg, a) = 0
BY DEF Move, NoLeg, Leg

(* What a request posts moves the accounts as two legs of the cashier do.  *)
LEMMA PostMoves ==
    ASSUME TypeOK, NEW posts, Post(posts), NEW leg, NEW other,
           \A a \in Account : /\ Effect(posts, a) = Move(leg, a) + Move(other, a)
                              /\ Move(leg, a) \in Int /\ Move(other, a) \in Int
    PROVE  Promised!Moves(leg, other)
<1>1. \A a \in Account : balance[a] \in Int
  BY DEF TypeOK
<1>2. \A a \in Account : /\ balance[a] + Effect(posts, a) = balance[a] + Move(leg, a) + Move(other, a)
                         /\ balance[a] + Effect(posts, a) >= 0
  BY <1>1 DEF Post, Covered
<1>3. balance' = [a \in Account |-> balance[a] + Move(leg, a) + Move(other, a)]
  BY <1>2 DEF Post
<1>4. \A a \in Account : balance'[a] >= 0
  BY <1>2, <1>3
<1> QED BY <1>3, <1>4, SameLedger DEF Promised!Moves

LEMMA PostMovesOne ==
    ASSUME TypeOK, NEW x \in Transfer, Post(<<x>>)
    PROVE  Promised!Moves(x.leg, NoLeg)
<1>1. \A a \in Account : /\ Effect(<<x>>, a) = Move(x.leg, a) + Move(NoLeg, a)
                         /\ Move(x.leg, a) \in Int /\ Move(NoLeg, a) \in Int
  BY MoveInt, EffectOne, NoLegMoves
<1> QED BY <1>1, PostMoves

(* A recharge, a bonus or a stake: its key is new, and done from then on.  *)
LEMMA PostOnce ==
    ASSUME TypeOK, NEW x \in Transfer, Post(<<x>>), UNCHANGED <<mirror, upstream>>,
           x.key[1] \in {"recharge", "bonus", "bet"}
    PROVE  Promised!Once(x.key, x.leg)
<1>1. transfers' = transfers \cup {x} /\ ~Used(x.key)
  <2>1. Len(<<x>>) = 1 /\ <<x>>[1] = x
    OBVIOUS
  <2> QED BY <2>1 DEF Post, FreshKeys
<1>2. x.key \notin Moved /\ Moved' = Moved \cup {x.key}
  BY <1>1 DEF Moved, Used
<1>3. Promised!Moves(x.leg, NoLeg)
  BY PostMovesOne
<1> QED BY <1>2, <1>3, SameLedger DEF Promised!Once

LEMMA FundCommitRefines ==
    ASSUME IInv, Sources, NEW t \in Tx, FundCommit(t)
    PROVE  Promised!Next
<1>1. tx[t].op = "fund" /\ Post(tx[t].posts) /\ UNCHANGED <<mirror, upstream>>
  BY DEF FundCommit, Ready
<1>2. TypeOK /\ FundSource(tx[t])
  BY <1>1 DEF IInv, Sources, Source
<1>3. PICK u \in Users : \/ \E k \in ClientKeys, amount \in Amounts : Recharges(tx[t], u, k, amount)
                         \/ Grants(tx[t], u)
  BY <1>2 DEF FundSource
<1>4. ASSUME NEW k \in ClientKeys, NEW amount \in Amounts, Recharges(tx[t], u, k, amount)
      PROVE  Promised!Next
  <2> DEFINE x == Row(<<"recharge", k>>, HousePromo, WalletOf[u], amount)
  <2>1. <<"recharge", k>> \in Key /\ <<"recharge", k>>[1] = "recharge"
    BY DEF Key
  <2>2. x \in Transfer
    BY <2>1, ConstantTypes, SingletonPosts
  <2>3. x.key = <<"recharge", k>> /\ x.leg = Leg(HousePromo, WalletOf[u], amount) /\ Post(<<x>>)
    BY <1>1, <1>4 DEF Row, Recharges
  <2> HIDE DEF x
  <2>4. Promised!Once(<<"recharge", k>>, Leg(HousePromo, WalletOf[u], amount))
    BY <1>1, <1>2, <2>1, <2>2, <2>3, PostOnce
  <2>5. Promised!Recharge(k, u, amount)
    BY <2>4, SameLedger DEF Promised!Recharge
  <2> QED BY <2>5 DEF Promised!Next
<1>5. ASSUME Grants(tx[t], u) PROVE Promised!Next
  <2> DEFINE x == Row(<<"bonus", u>>, HousePromo, WalletOf[u], BonusAmount)
  <2>1. <<"bonus", u>> \in Key /\ <<"bonus", u>>[1] = "bonus"
    BY DEF Key
  <2>2. x \in Transfer
    BY <2>1, ConstantTypes, SingletonPosts
  <2>3. x.key = <<"bonus", u>> /\ x.leg = Leg(HousePromo, WalletOf[u], BonusAmount) /\ Post(<<x>>)
    BY <1>1, <1>5 DEF Row, Grants
  <2> HIDE DEF x
  <2>4. Promised!Once(<<"bonus", u>>, Leg(HousePromo, WalletOf[u], BonusAmount))
    BY <1>1, <1>2, <2>1, <2>2, <2>3, PostOnce
  <2>5. Promised!GrantBonus(u)
    BY <2>4, SameLedger DEF Promised!GrantBonus
  <2> QED BY <2>5 DEF Promised!Next
<1> QED BY <1>3, <1>4, <1>5

LEMMA StakeCommitRefines ==
    ASSUME IInv, Sources, NEW t \in Tx, StakeCommit(t)
    PROVE  Promised!Next
<1>1. tx[t].op = "stake" /\ Post(tx[t].posts) /\ UNCHANGED <<mirror, upstream>>
  BY DEF StakeCommit, Ready
<1>2. TypeOK /\ StakeSource(tx[t])
  BY <1>1 DEF IInv, Sources, Source
<1>3. PICK n \in 1..MaxStakes, u \in Users, stake \in Stakes : Bets(tx[t], n, u, stake)
  BY <1>2 DEF StakeSource
<1> DEFINE x == Row(<<"bet", n>>, WalletOf[u], Pool, stake)
<1>4. <<"bet", n>> \in Key /\ <<"bet", n>>[1] = "bet"
  BY DEF Key
<1>5. x \in Transfer
  BY <1>4, ConstantTypes, SingletonPosts
<1>6. x.key = <<"bet", n>> /\ x.leg = Leg(WalletOf[u], Pool, stake) /\ Post(<<x>>)
  BY <1>1, <1>3 DEF Row, Bets
<1> HIDE DEF x
<1>7. Promised!Once(<<"bet", n>>, Leg(WalletOf[u], Pool, stake))
  BY <1>1, <1>2, <1>4, <1>5, <1>6, PostOnce
<1>8. Promised!Stake(n, u, stake)
  BY <1>7, SameLedger DEF Promised!Stake
<1> QED BY <1>8 DEF Promised!Next

LEMMA PlacedCommitRefines ==
    ASSUME IInv, Sources, NEW t \in Tx, PlacedCommit(t)
    PROVE  Promised!Next
<1> DEFINE b == tx[t].bet
           u == tx[t].user
           stake == tx[t].stake
           x == Row(<<"placed", b>>, WalletOf[u], Escrow, stake)
<1>1. TypeOK /\ tx[t] \in Request /\ tx[t].op = "covered" /\ Local(tx[t]) /\ Source(tx[t])
  BY DEF IInv, TypeOK, Locals, Sources, PlacedCommit
<1>2. b \in LiveBets /\ u \in Users /\ stake \in Stakes /\ stake \in Nat \ {0}
  BY <1>1, RequestKinds, ConstantTypes
<1>3. mirror[b] = NoMirror /\ (upstream[b].status = "PENDING" => stake = upstream[b].stake)
  BY <1>1 DEF Local, CoveredLocal, Source, PlaceSource
<1>4. /\ Post(<<x>>) /\ upstream' = upstream
      /\ mirror' = [mirror EXCEPT ![b] = [user |-> u, stake |-> stake, status |-> "PENDING"]]
  BY DEF PlacedCommit
<1>5. x \in Transfer
  <2>1. <<"placed", b>> \in Key
    BY <1>2 DEF Key
  <2> QED BY <1>2, <2>1, ConstantTypes, SingletonPosts
<1>6. x.leg = Leg(WalletOf[u], Escrow, stake) /\ x.key[1] = "placed"
  BY DEF Row
<1> HIDE DEF x, b, u, stake
<1>7. Promised!Moves(Leg(WalletOf[u], Escrow, stake), NoLeg)
  BY <1>1, <1>4, <1>5, <1>6, PostMovesOne
<1>8. Moved' = Moved
  <2>1. Len(<<x>>) = 1 /\ <<x>>[1] = x
    OBVIOUS
  <2>2. transfers' = transfers \cup {x}
    BY <1>4, <2>1 DEF Post
  <2> QED BY <1>6, <2>2 DEF Moved
<1>9. Promised!Place(b, u, stake)
  BY <1>3, <1>4, <1>7, <1>8, SameLedger DEF Promised!Place
<1> QED BY <1>2, <1>9, SameLedger DEF Promised!Next

(* The transfers of a settlement are the two legs of the cashier; winnings *)
(* of nothing are no transfer.                                             *)
LEMMA SettleMoves ==
    ASSUME NEW b \in LiveBets, NEW stake \in Nat \ {0}, NEW view \in BetView, NEW u \in Users,
           view.status \in Terminal,
           view.status = "WON" => view.payout \in Nat /\ view.payout >= stake,
           NEW a \in Account
    PROVE  LET leg   == Leg(Escrow, IF view.status = "LOST" THEN HouseRevenue ELSE WalletOf[u], stake)
               other == IF view.status = "WON" THEN Leg(HousePromo, WalletOf[u], view.payout - stake)
                                               ELSE NoLeg
           IN  /\ Effect(SettlePosts(b, stake, view, u), a) = Move(leg, a) + Move(other, a)
               /\ Move(leg, a) \in Int /\ Move(other, a) \in Int
<1> DEFINE posts == SettlePosts(b, stake, view, u)
           first == posts[1]
           second == posts[2]
           wins == Leg(HousePromo, WalletOf[u], view.payout - stake)
<1>1. /\ posts \in Seq(Transfer) /\ Len(posts) \in {1, 2}
      /\ first = Row(IF view.status = "WON" THEN <<"stake", b>> ELSE <<"settled", b>>,
                     Escrow,
                     IF view.status = "LOST" THEN HouseRevenue ELSE WalletOf[u], stake)
      /\ Len(posts) = 2 =>
           view.status = "WON" /\ second = Row(<<"winnings", b>>, HousePromo, WalletOf[u], view.payout - stake)
  BY SettlePostsShape
<1>2. Len(posts) = 1 /\ view.status = "WON" => view.payout = stake
  BY DEF SettlePosts, Refunded
<1> HIDE DEF posts
<1>3. first \in Transfer /\ (Len(posts) = 2 => second \in Transfer)
  BY <1>1
<1>4. /\ first.leg = Leg(Escrow, IF view.status = "LOST" THEN HouseRevenue ELSE WalletOf[u], stake)
      /\ Len(posts) = 2 => second.leg = wins
  BY <1>1 DEF Row
<1>5. posts = IF Len(posts) = 2 THEN <<first, second>> ELSE <<first>>
  BY <1>1
<1> HIDE DEF first, second
<1>6. Move(first.leg, a) \in Int /\ Move(NoLeg, a) = 0
  BY <1>3, MoveInt, NoLegMoves
<1>7. CASE Len(posts) = 2
  <2>1. Effect(posts, a) = Move(first.leg, a) + Move(wins, a) /\ Move(wins, a) \in Int
    BY <1>3, <1>4, <1>5, <1>7, EffectTwo, MoveInt
  <2> QED BY <1>1, <1>4, <1>6, <1>7, <2>1 DEF posts
<1>8. CASE Len(posts) = 1
  <2>1. Effect(posts, a) = Move(first.leg, a)
    BY <1>3, <1>5, <1>8, EffectOne
  <2>2. view.status = "WON" => Move(wins, a) = 0
    BY <1>2, <1>8 DEF Move, Leg
  <2> QED BY <1>4, <1>6, <2>1, <2>2 DEF posts
<1> QED BY <1>1, <1>7, <1>8

(* No row of a settlement is a recharge, a bonus or a stake.               *)
LEMMA SettleNotMoved ==
    ASSUME NEW b, NEW stake, NEW view, NEW u, view.status \in Terminal, NEW i \in 1..2
    PROVE  LET posts == SettlePosts(b, stake, view, u)
           IN  i \in 1..Len(posts) => posts[i].key[1] \in {"stake", "settled", "winnings"}
BY DEF SettlePosts, Row, Terminal, Refunded

LEMMA SettledCommitRefines ==
    ASSUME IInv, Sources, NEW t \in Tx, SettledCommit(t)
    PROVE  Promised!Next
<1> DEFINE b == tx[t].bet
           view == tx[t].view
           row == mirror[b]
           posts == tx[t].posts
<1>1. /\ TypeOK /\ tx[t] \in Request /\ tx[t].op = "settle"
      /\ SettleLocal(tx[t]) /\ SettleSource(tx[t])
  BY DEF IInv, TypeOK, Locals, Local, Sources, Source, SettledCommit, Ready
<1>2. b \in LiveBets /\ view \in BetView /\ posts \in Seq(Transfer)
  BY <1>1, RequestKinds
<1>3. /\ Post(posts) /\ upstream' = upstream
      /\ mirror' = [mirror EXCEPT ![b].status = view.status]
  BY DEF SettledCommit
<1>4. row \in Mirrored /\ row.stake \in Nat \ {0} /\ row.user \in Users
  <2>1. mirror[b] \in Mirrored
    BY <1>1, <1>2 DEF TypeOK, SettleLocal
  <2> HIDE DEF b
  <2> QED BY <2>1, ConstantTypes DEF Mirrored
<1>5. view = upstream[b] /\ view.stake = row.stake
  BY <1>1 DEF SettleLocal, ViewLocal, SettleSource
<1>6. /\ view.status \in Terminal
      /\ view.status = "WON" => view.payout \in Nat /\ view.payout >= row.stake
      /\ posts = SettlePosts(b, row.stake, view, row.user)
  BY <1>1 DEF SettleLocal, ViewLocal
<1> HIDE DEF row, posts, b, view
<1>7. /\ Len(posts) \in {1, 2}
      /\ posts[1].key = (IF view.status = "WON" THEN <<"stake", b>> ELSE <<"settled", b>>)
  <2>1. /\ Len(posts) \in {1, 2}
        /\ posts[1] = Row(IF view.status = "WON" THEN <<"stake", b>> ELSE <<"settled", b>>,
                          Escrow,
                          IF view.status = "LOST" THEN HouseRevenue ELSE WalletOf[row.user],
                          row.stake)
        /\ Len(posts) = 2 =>
             /\ view.status = "WON" /\ view.payout - row.stake \in Nat \ {0}
             /\ posts[2] = Row(<<"winnings", b>>, HousePromo, WalletOf[row.user],
                               view.payout - row.stake)
        /\ Effect(posts, Escrow) = -row.stake
    BY <1>2, <1>4, <1>6, SettlePostsShape
  <2> QED BY <2>1 DEF Row
<1>8. row.status = "PENDING"
  <2>1. ~Used(posts[1].key)
    BY <1>3, <1>7 DEF Post, FreshKeys
  <2>2. /\ Used(<<"stake", b>>)   <=> row.status = "WON"
        /\ Used(<<"settled", b>>) <=> row.status \in {"LOST"} \cup Refunded
        /\ row.status \in Terminal => row.status = view.status
    BY <1>2, <1>5 DEF IInv, TransfersTellMirror, row
  <2> QED BY <1>4, <1>7, <2>1, <2>2 DEF Mirrored, Terminal
<1> DEFINE leg   == Leg(Escrow, IF view.status = "LOST" THEN HouseRevenue ELSE WalletOf[row.user], row.stake)
           other == IF view.status = "WON"
                    THEN Leg(HousePromo, WalletOf[row.user], view.payout - row.stake) ELSE NoLeg
<1>9. Promised!Moves(leg, other)
  <2>1. \A a \in Account : /\ Effect(posts, a) = Move(leg, a) + Move(other, a)
                           /\ Move(leg, a) \in Int /\ Move(other, a) \in Int
    BY <1>2, <1>4, <1>6, SettleMoves
  <2> HIDE DEF leg, other
  <2> QED BY <1>1, <1>3, <2>1, PostMoves
<1>10. Moved' = Moved
  <2>1. \A i \in 1..Len(posts) : posts[i].key[1] \notin {"recharge", "bonus", "bet"}
    <3> TAKE i \in 1..Len(posts)
    <3>1. Len(posts) = 1 \/ Len(posts) = 2
      BY <1>7
    <3>2. CASE Len(posts) = 1
      BY <1>6, <3>2, SettleNotMoved
    <3>3. CASE Len(posts) = 2
      BY <1>6, <3>3, SettleNotMoved
    <3> QED BY <3>1, <3>2, <3>3
  <2> QED BY <1>3, <2>1 DEF Moved, Post
<1>11. view.status = "WON" => view.payout # None
  BY <1>1 DEF SettleSource, view
<1>12. Promised!Settle(b)
  BY <1>3, <1>5, <1>6, <1>8, <1>9, <1>10, <1>11, SameLedger DEF Promised!Settle, row
<1> QED BY <1>2, <1>12, SameLedger DEF Promised!Next

(* Every other step of a request moves no money: the cashier does nothing. *)
LEMMA StepRefines ==
    ASSUME IInv, Sources, [Next]_vars
    PROVE  Promised!Next \/ UNCHANGED <<balance, Moved, mirror, upstream>>
<1>1. ASSUME UNCHANGED <<balance, transfers, mirror, upstream>>
      PROVE  UNCHANGED <<balance, Moved, mirror, upstream>>
  BY <1>1 DEF Moved
<1>2. ASSUME NEW t \in Tx,
             FundCommit(t) \/ StakeCommit(t) \/ PlacedCommit(t) \/ SettledCommit(t)
      PROVE  Promised!Next
  BY <1>2, FundCommitRefines, StakeCommitRefines, PlacedCommitRefines, SettledCommitRefines
<1>3. ASSUME NEW t \in Tx, Arrive(t)
      PROVE  UNCHANGED <<balance, transfers, mirror, upstream>>
  BY <1>3 DEF Arrive, Recharge, GrantSignupBonus, Fund, StakeBegin, PlacedVerify,
              SettledVerify, reconcile_bet
<1>4. ASSUME NEW t \in Tx, Step(t) \/ Crash(t)
      PROVE  Promised!Next \/ UNCHANGED <<balance, transfers, mirror, upstream>>
  BY <1>2, <1>4 DEF Step, Crash, Lock, FundReplay, FundReply, FundFail, StakeRefuse,
                    PlacedClaim, PlacedCheck, SettledRead, SettledFail, DeadlockAbort
<1>5. ASSUME NEW b \in LiveBets, NEW view \in BetView, UpstreamSettles(b, view)
      PROVE  Promised!Next
  <2>1. /\ upstream[b].status = "PENDING" /\ view.status \in Terminal
        /\ upstream' = [upstream EXCEPT ![b] = view]
        /\ balance' = balance /\ transfers' = transfers /\ mirror' = mirror
    BY <1>5 DEF UpstreamSettles
  <2>2. upstream'[b] = view
    BY <2>1 DEF IInv, TypeOK
  <2>3. Moved' = Moved
    BY <2>1 DEF Moved
  <2>4. upstream'[b].status \in Promised!Terminal
    BY <2>1, <2>2, SameLedger
  <2>5. upstream' = [upstream EXCEPT ![b] = upstream'[b]]
    BY <2>1, <2>2
  <2>6. Promised!Report(b)
    BY ONLY <2>1, <2>3, <2>4, <2>5 DEF Promised!Report
  <2> QED BY <2>6, SameLedger DEF Promised!Next
<1>6. CASE UNCHANGED vars
  BY <1>1, <1>6 DEF vars
<1> QED BY <1>1, <1>3, <1>4, <1>5, <1>6 DEF Next

LEMMA InitRefines == Init => Promised!Init
<1> SUFFICES ASSUME Init PROVE Promised!Init
  OBVIOUS
<1>1. Moved = {}
  BY DEF Init, Moved
<1>2. \A b \in LiveBets : upstream[b].status = "PENDING"
  BY DEF Init
<1> QED BY <1>1, <1>2, SameLedger DEF Init, Promised!Init

\* Recharges, bonuses, stakes and the calls of the live-bets bridge, run
\* statement by statement with their locks, retries, crashes and deadlocks,
\* move money as the cashier does in single steps, each made at most once.
THEOREM WalletImplementsCashier == Spec => ActsAtomically
<1>1. Init => IInv /\ Sources /\ Promised!Init
  BY InitStep, InitSources, InitRefines
<1>2. IInv /\ Sources /\ [Next]_vars => IInv' /\ Sources'
  BY NextStep, SourcesNext
<1>3. IInv /\ Sources /\ [Next]_vars => [Promised!Next]_(Promised!vars)
  BY StepRefines DEF Promised!vars
<1> QED BY <1>1, <1>2, <1>3, PTL DEF Spec, ActsAtomically, Promised!Spec

=============================================================================
