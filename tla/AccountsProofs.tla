---------------------------- MODULE AccountsProofs ----------------------------
(***************************************************************************)
(* The safety properties of Accounts, for any number of sessions, passwords *)
(* and concurrent requests.                                                *)
(***************************************************************************)
EXTENDS Accounts, FiniteSetTheorems, TLAPS

-----------------------------------------------------------------------------
\* The resets whose new password is written and whose tokens are not revoked yet.
Resetting   == {r \in Requests : req[r].op \in {"refresh", "revoke"}}
Outstanding == {req[r].mine : r \in Resetting}
\* The requests that will issue a token, or may, with the row they have read.
Entering    == {r \in Requests : req[r].op \in {"welcome", "login"}}

\* No superuser is registered before there is a user.
NobodyYet == ~user.exists => ~user.superuser

\* Each reset writes a password of its own; the version is behind the passwords
\* by the resets that may still bump it.
ResetsDistinct == \A q, r \in Resetting : req[q].mine = req[r].mine => q = r
ResetsCounted ==
    /\ \A r \in Resetting : req[r].mine \in 2..user.password
    /\ user.token_version + Cardinality(Outstanding) < user.password
    /\ reset <= user.password

\* A request that has read the row before a reset wrote its password has a
\* version that the reset will leave behind, or has left behind.
SawBefore ==
    \A q \in Entering :
        /\ req[q].saw.token_version <= user.token_version
        /\ req[q].saw.token_version = user.token_version => req[q].saw.password >= reset
ObservedSince ==
    \A r \in Requests : req[r].op = "revoke" =>
        /\ req[r].observed <= user.token_version
        /\ \A q \in Entering : req[q].saw.password < req[r].mine =>
               req[q].saw.token_version <= req[r].observed

IInv ==
    /\ TypeOK
    /\ NobodyYet
    /\ ResetsDistinct /\ ResetsCounted
    /\ SawBefore /\ ObservedSince
    /\ NoSessionSurvivesReset /\ BonusOnce /\ AuditSaysWhoIsBanned

-----------------------------------------------------------------------------
(* What a step does to the requests *)

\* The fields that a request has, by what it is doing.
SeenRow == [banned: BOOLEAN, password: Password, token_version: Version]

LEMMA RequestFields ==
    ASSUME TypeOK, NEW r \in Requests
    PROVE  /\ req[r].op \in {"welcome", "login"} => req[r].saw \in SeenRow
           /\ req[r].op \in {"refresh", "revoke"} => req[r].mine \in Password
           /\ req[r].op = "revoke" => req[r].observed \in Version
           /\ req[r].op = "ban" => req[r].to \in BOOLEAN
<1>1. req[r] \in Request
  BY DEF TypeOK
<1> QED BY <1>1 DEF Request, SeenRow

LEMMA Becoming ==
    ASSUME TypeOK, NEW r \in Requests, NEW stage, Becomes(r, stage)
    PROVE  /\ stage \in Request => req' \in [Requests -> Request]
           /\ req'[r] = stage
           /\ \A q \in Requests : q # r => req'[q] = req[q]
BY DEF TypeOK, Becomes

\* The counters of the row: what the constants allow.
LEMMA UserFields ==
    ASSUME TypeOK
    PROVE  /\ user.password \in Nat /\ user.password \in 1..MaxPassword
           /\ user.token_version \in Nat /\ reset \in Nat
           /\ MaxPassword \in Nat /\ MaxBalance \in Nat /\ None \notin Nat
BY AccountsAssumption DEF TypeOK, UserRow, Password, Version

\* A step that begins no reset, and lets none observe or revoke: it may end
\* requests, let them enter with the row as it is now, and set passwords.
Calm ==
    /\ \A r \in Requests : req'[r].op \in {"refresh", "revoke"} => req'[r] = req[r]
    /\ \A q \in Requests : req'[q].op \in {"welcome", "login"} =>
         \/ req[q].op \in {"welcome", "login"} /\ req'[q].saw = req[q].saw
         \/ /\ req'[q].saw.password = user'.password
            /\ req'[q].saw.token_version = user'.token_version
    /\ user'.password >= user.password
    /\ user'.token_version = user.token_version
    /\ reset' = reset

(* The resets in progress and their passwords are finitely many. *)
LEMMA OutstandingFinite ==
    ASSUME TypeOK, ResetsCounted
    PROVE  /\ Outstanding \subseteq 2..user.password
           /\ IsFiniteSet(Outstanding) /\ Cardinality(Outstanding) \in Nat
<1>1. user.password \in Int
  BY UserFields
<1>2. Outstanding \subseteq 2..user.password
  BY DEF ResetsCounted, Outstanding
<1>3. IsFiniteSet(2..user.password)
  BY <1>1, FS_Interval
<1> QED BY <1>2, <1>3, FS_Subset, FS_CardinalityType

(* A calm step keeps the resets in order. *)
LEMMA CalmResets ==
    ASSUME IInv, TypeOK', Calm
    PROVE  ResetsDistinct' /\ ResetsCounted'
<1>0. TypeOK /\ ResetsDistinct /\ ResetsCounted
  BY DEF IInv
<1>1. Resetting' \subseteq Resetting /\ \A r \in Resetting' : req'[r] = req[r]
  BY DEF Resetting, Calm
<1>2. ResetsDistinct'
  BY <1>0, <1>1 DEF ResetsDistinct
<1>3. Outstanding' \subseteq Outstanding
  BY <1>1 DEF Outstanding
<1>4. Cardinality(Outstanding') <= Cardinality(Outstanding) /\ Cardinality(Outstanding') \in Nat
  BY <1>0, <1>3, OutstandingFinite, FS_Subset, FS_CardinalityType
<1>5. /\ user'.password \in Nat /\ user'.token_version \in Nat
      /\ user.password \in Nat /\ user.token_version \in Nat
  <2>1. user.password \in Nat /\ user.token_version \in Nat
    BY <1>0, UserFields
  <2>2. user'.password \in Nat
    BY AccountsAssumption DEF TypeOK, UserRow, Password
  <2> QED BY <2>1, <2>2 DEF Calm
<1>6. \A r \in Resetting' : req'[r].mine \in 2..user'.password
  BY <1>0, <1>1, <1>5 DEF ResetsCounted, Calm
<1>7. reset' <= user'.password
  BY <1>0, <1>5, UserFields DEF ResetsCounted, Calm
<1>8. user'.token_version + Cardinality(Outstanding') < user'.password
  BY <1>0, <1>4, <1>5, OutstandingFinite DEF ResetsCounted, Calm
<1> QED BY <1>2, <1>6, <1>7, <1>8 DEF ResetsCounted

(* A calm step lets nobody enter with a row that a reset has overtaken. *)
LEMMA CalmEntries ==
    ASSUME IInv, TypeOK', Calm
    PROVE  SawBefore' /\ ObservedSince'
<1>0. TypeOK /\ SawBefore /\ ObservedSince /\ ResetsCounted'
  BY CalmResets DEF IInv
<1>1. /\ user.password \in Nat /\ user'.password \in Nat
      /\ user.token_version \in Nat /\ user'.token_version = user.token_version
      /\ reset \in Nat /\ reset' = reset /\ reset <= user'.password
  <2>1. user'.password \in Nat
    BY AccountsAssumption DEF TypeOK, UserRow, Password
  <2> QED BY <1>0, <2>1, UserFields DEF Calm, ResetsCounted
<1>2. ASSUME NEW q \in Entering'
      PROVE  /\ req'[q].saw.token_version <= user'.token_version
             /\ req'[q].saw.token_version = user'.token_version => req'[q].saw.password >= reset'
  <2>1. q \in Requests /\ req'[q].op \in {"welcome", "login"}
    BY DEF Entering
  <2>2. CASE q \in Entering /\ req'[q].saw = req[q].saw
    BY <1>0, <1>1, <2>2 DEF SawBefore
  <2>3. CASE /\ req'[q].saw.password = user'.password
             /\ req'[q].saw.token_version = user'.token_version
    BY <1>1, <2>3
  <2> QED BY <2>1, <2>2, <2>3 DEF Calm, Entering
<1>3. ASSUME NEW r \in Requests, req'[r].op = "revoke"
      PROVE  /\ req'[r].observed <= user'.token_version
             /\ \A q \in Entering' : req'[q].saw.password < req'[r].mine =>
                    req'[q].saw.token_version <= req'[r].observed
  <2>1. req'[r] = req[r]
    BY <1>3 DEF Calm
  <2>2. req'[r].observed <= user'.token_version
    BY <1>0, <1>1, <1>3, <2>1 DEF ObservedSince
  <2>3. req'[r].mine \in Nat /\ req'[r].mine <= user'.password
    BY <1>0, <1>1, <1>3 DEF ResetsCounted, Resetting
  <2>4. ASSUME NEW q \in Entering', req'[q].saw.password < req'[r].mine
        PROVE  req'[q].saw.token_version <= req'[r].observed
    <3>1. q \in Requests /\ req'[q].op \in {"welcome", "login"}
      BY DEF Entering
    <3>2. req'[q].saw.password # user'.password
      BY <1>1, <2>3, <2>4
    <3>3. q \in Entering /\ req'[q].saw = req[q].saw
      BY <3>1, <3>2 DEF Calm, Entering
    <3> QED BY <1>0, <1>3, <2>1, <2>4, <3>3 DEF ObservedSince
  <2> QED BY <2>2, <2>4
<1> QED BY <1>2, <1>3 DEF SawBefore, ObservedSince

-----------------------------------------------------------------------------
(* Types, action by action *)

\* Only the requests change, and the new stage of r is one.
LEMMA OnlyRequestTypes ==
    ASSUME TypeOK, NEW r \in Requests, NEW stage \in Request, Becomes(r, stage),
           UNCHANGED <<demo, user, money, token, rest, reset>>
    PROVE  TypeOK'
<1>1. req' \in [Requests -> Request]
  BY Becoming
<1> QED BY <1>1 DEF TypeOK, money, rest

\* The stages that name nothing but what the request is doing.
LEMMA PlainStages ==
    /\ Idle \in Request
    /\ \A op \in {"register", "verify", "bonus", "reset", "bet", "recharge"} :
         [op |-> op] \in Request
    /\ \A row \in UserRow : \A op \in {"welcome", "login"} :
         [op |-> op, saw |-> Seen(row)] \in Request
    /\ \A saw \in SeenRow : [op |-> "login", saw |-> saw] \in Request
BY DEF Idle, Request, Seen, SeenRow, UserRow

LEMMA RegistrationTypes ==
    ASSUME IInv, NEW r \in Requests,
           \/ RegisterCheck(r) \/ RegisterCommit(r) \/ RegisterTaken(r)
           \/ VerifyCheck(r) \/ VerifyCommit(r) \/ Bonus(r) \/ Welcome(r)
    PROVE  TypeOK'
<1>0. TypeOK /\ NobodyYet
  BY DEF IInv
<1>1. CASE RegisterCheck(r)
  BY <1>0, <1>1, OnlyRequestTypes, PlainStages DEF RegisterCheck
<1>2. CASE RegisterCommit(r)
  <2>1. user' \in UserRow /\ user'.exists /\ ~user'.superuser
    BY <1>0, <1>2 DEF RegisterCommit, RegisterWith, TypeOK, UserRow, NobodyYet
  <2>2. [op |-> "welcome", saw |-> Seen(user')] \in Request
    BY <2>1, PlainStages
  <2>3. req' \in [Requests -> Request]
    BY <1>0, <1>2, <2>2, Becoming DEF RegisterCommit, RegisterWith
  <2>4. balance' = 0 /\ 0 \in 0..MaxBalance /\ 0 # None
    BY <1>0, <1>2, UserFields DEF RegisterCommit, RegisterWith, create_wallet
  <2> QED BY <1>0, <1>2, <2>1, <2>3, <2>4 DEF RegisterCommit, RegisterWith, TypeOK, rest
<1>3. CASE RegisterTaken(r)
  BY <1>0, <1>3, OnlyRequestTypes, PlainStages DEF RegisterTaken, Ends
<1>5. CASE VerifyCheck(r)
  BY <1>0, <1>5, OnlyRequestTypes, PlainStages DEF VerifyCheck
<1>6. CASE VerifyCommit(r)
  <2>1. req' \in [Requests -> Request]
    BY <1>0, <1>6, Becoming, PlainStages DEF VerifyCommit
  <2> QED BY <1>0, <1>6, <2>1 DEF VerifyCommit, TypeOK, UserRow, money
<1>7. ASSUME grant_signup_bonus \/ UNCHANGED money
      PROVE  /\ balance' \in (0..MaxBalance) \cup {None} /\ bonuses' \in Nat
             /\ balance' = None <=> balance = None
  BY <1>0, <1>7, UserFields DEF grant_signup_bonus, Credit, money, TypeOK
<1>8. CASE Bonus(r)
  <2>1. req' \in [Requests -> Request]
    BY <1>0, <1>8, Becoming, PlainStages DEF Bonus, Ends
  <2> QED BY <1>0, <1>7, <1>8, <2>1 DEF Bonus, TypeOK, rest
<1>9. CASE Welcome(r)
  <2>1. req' \in [Requests -> Request]
    BY <1>0, <1>9, Becoming, PlainStages, RequestFields DEF Welcome, Ends, demo_login
  <2>2. mail' \subseteq {"verify", "reset"}
    BY <1>0, <1>9 DEF Welcome, on_after_request_verify, TypeOK
  <2>3. grant_signup_bonus \/ UNCHANGED money
    BY <1>9 DEF Welcome
  <2> QED BY <1>0, <1>7, <1>9, <2>1, <2>2, <2>3 DEF Welcome, TypeOK
<1> QED BY <1>1, <1>2, <1>3, <1>5, <1>6, <1>8, <1>9

LEMMA LoginTypes ==
    ASSUME IInv, NEW r \in Requests,
           \/ Authenticate(r) \/ LoginSuspended(r) \/ admin_login_failed(r)
           \/ \E t \in Tokens : Issue(r, t)
    PROVE  TypeOK'
<1>0. TypeOK
  BY DEF IInv
<1>1. CASE Authenticate(r)
  <2>1. [op |-> "login", saw |-> Seen(user)] \in Request
    BY <1>0, PlainStages DEF TypeOK
  <2> QED BY <1>0, <1>1, <2>1, OnlyRequestTypes DEF Authenticate
<1>2. CASE LoginSuspended(r) \/ admin_login_failed(r)
  BY <1>0, <1>2, OnlyRequestTypes, PlainStages DEF LoginSuspended, admin_login_failed, Ends
<1>3. ASSUME NEW t \in Tokens, Issue(r, t) PROVE TypeOK'
  <2>1. req' \in [Requests -> Request]
    BY <1>0, <1>3, Becoming, PlainStages DEF Issue, IssueAt, Ends
  <2>2. req[r].saw \in SeenRow
    BY <1>0, <1>3, RequestFields DEF Issue, IssueAt
  <2>3. req[r].saw.password \in 0..MaxPassword
    BY <2>2, UserFields, <1>0 DEF SeenRow, Password
  <2>4. token' \in [Tokens -> [state: {"unissued", "active", "expired", "revoked"},
                               token_version: Version, auth: 0..MaxPassword]]
    BY <1>0, <1>3, <2>2, <2>3 DEF Issue, IssueAt, TypeOK, SeenRow
  <2> QED BY <1>0, <1>3, <2>1, <2>4 DEF Issue, IssueAt, TypeOK, money, rest
<1> QED BY <1>1, <1>2, <1>3

LEMMA AccountTypes ==
    ASSUME IInv,
           \/ \E t \in Tokens : Logout(t) \/ Reuse(t) \/ Expire(t)
           \/ create_admin \/ request_verify \/ forgot_password \/ ChangeEmail \/ ChangePassword
    PROVE  TypeOK'
<1>0. TypeOK
  BY DEF IInv
<1>1. ASSUME NEW t \in Tokens, Logout(t) \/ Expire(t) PROVE TypeOK'
  BY <1>0, <1>1 DEF Logout, destroy_token, Expire, TypeOK, money, rest
<1>2. ASSUME NEW t \in Tokens, Reuse(t) PROVE TypeOK'
  BY <1>0, <1>2 DEF Reuse, Revoked, TypeOK, money, rest
<1>3. CASE create_admin
  BY <1>0, <1>3 DEF create_admin, TypeOK, UserRow, money, rest
<1>4. CASE request_verify \/ forgot_password
  BY <1>0, <1>4 DEF request_verify, forgot_password, on_after_request_verify, TypeOK, money
<1>5. CASE ChangeEmail
  BY <1>0, <1>5 DEF ChangeEmail, TypeOK, UserRow, money
<1>6. CASE ChangePassword
  <2>1. user.password + 1 \in Password
    BY <1>0, <1>6, UserFields DEF ChangePassword, Password
  <2> QED BY <1>0, <1>6, <2>1 DEF ChangePassword, TypeOK, UserRow, money
<1> QED BY <1>1, <1>2, <1>3, <1>4, <1>5, <1>6

LEMMA ResetTypes ==
    ASSUME IInv, NEW r \in Requests,
           ResetCheck(r) \/ ResetWrite(r) \/ ResetRefresh(r) \/ ResetRevoke(r)
    PROVE  TypeOK'
<1>0. TypeOK /\ ResetsCounted
  BY DEF IInv
<1>1. CASE ResetCheck(r)
  BY <1>0, <1>1, OnlyRequestTypes, PlainStages DEF ResetCheck
<1>2. CASE ResetWrite(r)
  <2>1. user.password + 1 \in Password
    BY <1>0, <1>2, UserFields DEF ResetWrite, Password
  <2>2. [op |-> "refresh", mine |-> user.password + 1] \in Request
    BY <2>1 DEF Request
  <2>3. req' \in [Requests -> Request]
    BY <1>0, <1>2, <2>2, Becoming DEF ResetWrite
  <2> QED BY <1>0, <1>2, <2>1, <2>3 DEF ResetWrite, TypeOK, UserRow, money
<1>3. CASE ResetRefresh(r)
  <2>1. [op |-> "revoke", mine |-> req[r].mine, observed |-> user.token_version] \in Request
    BY <1>0, <1>3, RequestFields DEF ResetRefresh, Request, TypeOK, UserRow
  <2> QED BY <1>0, <1>3, <2>1, OnlyRequestTypes DEF ResetRefresh
<1>4. CASE ResetRevoke(r)
  <2>1. req' \in [Requests -> Request]
    BY <1>0, <1>4, Becoming, PlainStages DEF ResetRevoke, Ends
  <2>2. req[r].mine \in Outstanding /\ req[r].mine \in Nat /\ req[r].mine \in 0..MaxPassword
    BY <1>0, <1>4, RequestFields, UserFields DEF ResetRevoke, Outstanding, Resetting, Password
  <2>3. Cardinality(Outstanding) \in Nat /\ Cardinality(Outstanding) # 0
    BY <1>0, <2>2, OutstandingFinite, FS_EmptySet
  <2>4. user.token_version + 1 \in Version
    BY <1>0, <2>3, UserFields DEF ResetsCounted, Version
  <2>5. user' \in UserRow /\ user'.exists = user.exists /\ user'.superuser = user.superuser
    BY <1>0, <1>4, <2>4 DEF ResetRevoke, TypeOK, UserRow
  <2>6. reset' \in 0..MaxPassword
    BY <1>0, <1>4, <2>2 DEF ResetRevoke, TypeOK
  <2> QED BY <1>0, <1>4, <2>1, <2>5, <2>6 DEF ResetRevoke, Revoked, TypeOK, money, rest
<1> QED BY <1>1, <1>2, <1>3, <1>4

LEMMA GateTypes ==
    ASSUME IInv, NEW r \in Requests,
           \/ BanCommit(r) \/ \E ban \in BOOLEAN : BanCheck(r, ban)
           \/ BetGate(r) \/ LiveGate(r) \/ Bet(r) \/ RechargeGate(r) \/ Recharge(r) \/ Crash(r)
    PROVE  TypeOK'
<1>0. TypeOK
  BY DEF IInv
<1>1. ASSUME NEW ban \in BOOLEAN, BanCheck(r, ban) PROVE TypeOK'
  <2>1. [op |-> "ban", to |-> ban] \in Request
    BY DEF Request
  <2> QED BY <1>0, <1>1, <2>1, OnlyRequestTypes DEF BanCheck
<1>2. CASE BanCommit(r)
  <2>1. req' \in [Requests -> Request] /\ req[r].to \in BOOLEAN
    BY <1>0, <1>2, Becoming, PlainStages, RequestFields DEF BanCommit, Ends
  <2> QED BY <1>0, <1>2, <2>1 DEF BanCommit, record, TypeOK, UserRow, money
<1>3. CASE BetGate(r) \/ LiveGate(r) \/ RechargeGate(r)
  BY <1>0, <1>3, OnlyRequestTypes, PlainStages DEF BetGate, LiveGate, RechargeGate, Enters
<1>4. CASE Bet(r) \/ Recharge(r)
  <2>1. req' \in [Requests -> Request]
    BY <1>0, <1>4, Becoming, PlainStages DEF Bet, Recharge, Ends
  <2>2. /\ balance' \in (0..MaxBalance) \cup {None}
        /\ balance' = None <=> balance = None
    BY <1>0, <1>4, UserFields DEF Bet, Recharge, Credit, Debit, TypeOK
  <2> QED BY <1>0, <1>4, <2>1, <2>2 DEF Bet, Recharge, TypeOK, rest
<1>5. CASE Crash(r)
  BY <1>0, <1>5, OnlyRequestTypes, PlainStages DEF Crash, Ends
<1> QED BY <1>1, <1>2, <1>3, <1>4, <1>5

-----------------------------------------------------------------------------
(* Resets, sessions and bans, action by action *)

\* No session comes to life, or is opened with an older password.
SessionsKept ==
    \A t \in Tokens : token'[t].state = "active" =>
        token'[t] = token[t] \/ (token'[t].token_version >= user.token_version
                                  => token'[t].auth >= reset)

\* The audit log follows the ban, and the bonus is not granted again.
RowsKept == NobodyYet' /\ BonusOnce' /\ AuditSaysWhoIsBanned'

LEMMA RegistrationIsCalm ==
    ASSUME IInv, NEW r \in Requests,
           \/ RegisterCheck(r) \/ RegisterCommit(r) \/ RegisterTaken(r)
           \/ VerifyCheck(r) \/ VerifyCommit(r) \/ Bonus(r) \/ Welcome(r)
    PROVE  Calm /\ SessionsKept /\ RowsKept
<1>0. TypeOK /\ NobodyYet /\ BonusOnce /\ AuditSaysWhoIsBanned /\ user.password \in Nat
  BY UserFields DEF IInv
<1>1. CASE RegisterCheck(r) \/ RegisterTaken(r) \/ VerifyCheck(r)
  BY <1>0, <1>1, Becoming DEF RegisterCheck, RegisterTaken, VerifyCheck, Ends, Idle,
     Calm, SessionsKept, RowsKept, NobodyYet, BonusOnce, AuditSaysWhoIsBanned, money, rest
<1>2. CASE RegisterCommit(r)
  <2>1. /\ req'[r] = [op |-> "welcome", saw |-> Seen(user')]
        /\ \A q \in Requests : q # r => req'[q] = req[q]
    BY <1>0, <1>2, Becoming DEF RegisterCommit, RegisterWith
  <2>2. /\ user'.password = user.password /\ user'.token_version = user.token_version
        /\ user'.exists /\ user'.banned = user.banned
    BY <1>0, <1>2 DEF RegisterCommit, RegisterWith, TypeOK, UserRow
  <2>3. Calm
    BY <1>0, <1>2, <2>1, <2>2 DEF Calm, Seen, RegisterCommit, RegisterWith
  <2> QED BY <1>0, <1>2, <2>2, <2>3 DEF RegisterCommit, RegisterWith,
            SessionsKept, RowsKept, NobodyYet, BonusOnce, AuditSaysWhoIsBanned, rest
<1>4. CASE VerifyCommit(r)
  BY <1>0, <1>4, Becoming DEF VerifyCommit, TypeOK, UserRow, Calm, SessionsKept, RowsKept,
     NobodyYet, BonusOnce, AuditSaysWhoIsBanned, money
<1>5. CASE Bonus(r)
  BY <1>0, <1>5, Becoming DEF Bonus, Ends, Idle, grant_signup_bonus, Credit, Calm, SessionsKept,
     RowsKept, NobodyYet, BonusOnce, AuditSaysWhoIsBanned, money, rest
<1>6. CASE Welcome(r)
  <2>1. /\ req'[r] = Idle \/ req'[r] = [op |-> "login", saw |-> req[r].saw]
        /\ \A q \in Requests : q # r => req'[q] = req[q]
    BY <1>0, <1>6, Becoming DEF Welcome, Ends, demo_login
  <2>2. Calm
    BY <1>0, <1>6, <2>1 DEF Calm, Welcome, Idle
  <2>3. bonuses' <= 1
    BY <1>0, <1>6 DEF Welcome, grant_signup_bonus, money, BonusOnce
  <2> QED BY <1>0, <1>6, <2>2, <2>3 DEF Welcome, SessionsKept, RowsKept,
            NobodyYet, BonusOnce, AuditSaysWhoIsBanned
<1> QED BY <1>1, <1>2, <1>4, <1>5, <1>6

LEMMA LoginsAreCalm ==
    ASSUME IInv, NEW r \in Requests,
           \/ Authenticate(r) \/ LoginSuspended(r) \/ admin_login_failed(r)
           \/ \E t \in Tokens : Issue(r, t)
    PROVE  Calm /\ SessionsKept /\ RowsKept
<1>0. TypeOK /\ NobodyYet /\ BonusOnce /\ AuditSaysWhoIsBanned /\ user.password \in Nat
  BY UserFields DEF IInv
<1>1. CASE Authenticate(r) \/ LoginSuspended(r) \/ admin_login_failed(r)
  BY <1>0, <1>1, Becoming DEF Authenticate, LoginSuspended, admin_login_failed, Ends, Idle, Seen,
     Calm, SessionsKept, RowsKept, NobodyYet, BonusOnce, AuditSaysWhoIsBanned, money, rest
<1>2. ASSUME NEW t \in Tokens, Issue(r, t) PROVE Calm /\ SessionsKept /\ RowsKept
  <2>1. /\ req'[r] = Idle
        /\ \A q \in Requests : q # r => req'[q] = req[q]
    BY <1>0, <1>2, Becoming DEF Issue, IssueAt, Ends
  <2>2. Calm /\ RowsKept
    BY <1>0, <1>2, <2>1 DEF Issue, IssueAt, Idle, Calm, RowsKept, NobodyYet, BonusOnce,
       AuditSaysWhoIsBanned, money, rest
  <2>3. /\ token'[t] = [state |-> "active", token_version |-> req[r].saw.token_version,
                        auth |-> req[r].saw.password]
        /\ \A u \in Tokens : u # t => token'[u] = token[u]
    BY <1>0, <1>2 DEF Issue, IssueAt, TypeOK
  <2>4. req[r].saw.token_version >= user.token_version => req[r].saw.password >= reset
    <3>1. req[r].saw.token_version \in Nat
      BY <1>0, <1>2, RequestFields DEF Issue, IssueAt, SeenRow, Version
    <3> QED BY <1>0, <1>2, <3>1, UserFields DEF IInv, SawBefore, Entering, Issue, IssueAt
  <2>5. SessionsKept
    BY <2>3, <2>4 DEF SessionsKept
  <2> QED BY <2>2, <2>5
<1> QED BY <1>1, <1>2

LEMMA AccountStepsAreCalm ==
    ASSUME IInv,
           \/ \E t \in Tokens : Logout(t) \/ Reuse(t) \/ Expire(t)
           \/ create_admin \/ request_verify \/ forgot_password \/ ChangeEmail \/ ChangePassword
    PROVE  Calm /\ SessionsKept /\ RowsKept
<1>0. TypeOK /\ NobodyYet /\ BonusOnce /\ AuditSaysWhoIsBanned /\ user.password \in Nat
  BY UserFields DEF IInv
<1>1. ASSUME NEW t \in Tokens, Logout(t) \/ Reuse(t) \/ Expire(t)
      PROVE  Calm /\ SessionsKept /\ RowsKept
  <2>1. \A u \in Tokens : token'[u].state = "active" => token'[u] = token[u]
    BY <1>0, <1>1 DEF Logout, destroy_token, Reuse, Revoked, Expire, TypeOK
  <2> QED BY <1>0, <1>1, <2>1 DEF Logout, Reuse, Expire, Calm, SessionsKept, RowsKept, NobodyYet,
            BonusOnce, AuditSaysWhoIsBanned, money, rest
<1>2. CASE create_admin
  BY <1>0, <1>2 DEF create_admin, TypeOK, UserRow, Calm, SessionsKept, RowsKept, NobodyYet,
     BonusOnce, AuditSaysWhoIsBanned, money, rest
<1>3. CASE request_verify \/ forgot_password
  BY <1>0, <1>3 DEF request_verify, forgot_password, Calm, SessionsKept, RowsKept, NobodyYet,
     BonusOnce, AuditSaysWhoIsBanned, money
<1>4. CASE ChangeEmail \/ ChangePassword
  BY <1>0, <1>4 DEF ChangeEmail, ChangePassword, TypeOK, UserRow, Calm, SessionsKept, RowsKept,
     NobodyYet, BonusOnce, AuditSaysWhoIsBanned, money
<1> QED BY <1>1, <1>2, <1>3, <1>4

LEMMA GatesAreCalm ==
    ASSUME IInv, NEW r \in Requests,
           \/ BanCommit(r) \/ (\E ban \in BOOLEAN : BanCheck(r, ban)) \/ ResetCheck(r)
           \/ BetGate(r) \/ LiveGate(r) \/ Bet(r) \/ RechargeGate(r) \/ Recharge(r) \/ Crash(r)
    PROVE  Calm /\ SessionsKept /\ RowsKept
<1>0. TypeOK /\ NobodyYet /\ BonusOnce /\ AuditSaysWhoIsBanned /\ user.password \in Nat
  BY UserFields DEF IInv
<1>1. CASE \/ \E ban \in BOOLEAN : BanCheck(r, ban)
           \/ ResetCheck(r) \/ BetGate(r) \/ LiveGate(r) \/ RechargeGate(r)
  <2>1. PICK stage : Becomes(r, stage) /\ stage.op \in {"ban", "reset", "bet", "recharge"}
    <3>1. ASSUME NEW ban \in BOOLEAN, BanCheck(r, ban)
          PROVE  \E stage : Becomes(r, stage) /\ stage.op \in {"ban", "reset", "bet", "recharge"}
      BY <3>1 DEF BanCheck
    <3>2. CASE ResetCheck(r)
      BY <3>2 DEF ResetCheck
    <3>3. CASE BetGate(r) \/ LiveGate(r) \/ RechargeGate(r)
      BY <3>3 DEF BetGate, LiveGate, RechargeGate, Enters
    <3> QED BY <1>1, <3>1, <3>2, <3>3
  <2>2. /\ req'[r].op \in {"ban", "reset", "bet", "recharge"}
        /\ \A q \in Requests : q # r => req'[q] = req[q]
    BY <1>0, <2>1, Becoming
  <2>3. UNCHANGED <<demo, user, money, token, rest, reset>>
    BY <1>1 DEF BanCheck, ResetCheck, BetGate, LiveGate, RechargeGate
  <2> QED BY <1>0, <2>2, <2>3 DEF Calm, SessionsKept, RowsKept, NobodyYet, BonusOnce,
            AuditSaysWhoIsBanned, money, rest
<1>2. CASE BanCommit(r)
  <2>1. /\ req'[r] = Idle
        /\ \A q \in Requests : q # r => req'[q] = req[q]
    BY <1>0, <1>2, Becoming DEF BanCommit, Ends
  <2> QED BY <1>0, <1>2, <2>1 DEF BanCommit, record, Idle, TypeOK, UserRow, Calm,
            SessionsKept, RowsKept, NobodyYet, BonusOnce, AuditSaysWhoIsBanned, money
<1>3. CASE Bet(r) \/ Recharge(r) \/ Crash(r)
  BY <1>0, <1>3, Becoming DEF Bet, Recharge, Crash, Ends, Idle, Calm, SessionsKept, RowsKept,
     NobodyYet, BonusOnce, AuditSaysWhoIsBanned, money, rest
<1> QED BY <1>1, <1>2, <1>3

(* After a calm step that keeps sessions and rows the invariant holds. *)
LEMMA CalmStep ==
    ASSUME IInv, TypeOK', Calm, SessionsKept, RowsKept
    PROVE  IInv'
<1>1. NoSessionSurvivesReset'
  BY DEF IInv, NoSessionSurvivesReset, Usable, Calm, SessionsKept
<1> QED BY <1>1, CalmResets, CalmEntries DEF IInv, RowsKept

-----------------------------------------------------------------------------
(* The steps of a reset *)

(* A new password is one that no other reset has written, and every row that *)
(* was read before has an older one.                                       *)
LEMMA ResetWriteStep ==
    ASSUME IInv, NEW r \in Requests, ResetWrite(r)
    PROVE  IInv'
<1>0. /\ TypeOK /\ TypeOK' /\ NobodyYet /\ ResetsDistinct /\ ResetsCounted
      /\ SawBefore /\ ObservedSince
      /\ NoSessionSurvivesReset /\ BonusOnce /\ AuditSaysWhoIsBanned
  BY ResetTypes DEF IInv
<1>1. /\ user.password \in Nat /\ user'.password = user.password + 1
      /\ user'.token_version = user.token_version /\ user.token_version \in Nat
      /\ user'.exists = user.exists /\ user'.superuser = user.superuser
      /\ user'.banned = user.banned
      /\ UNCHANGED <<bonuses, token, trail, reset>> /\ reset \in Nat
  BY <1>0, UserFields DEF ResetWrite, TypeOK, UserRow, money
<1>2. /\ req'[r] = [op |-> "refresh", mine |-> user.password + 1]
      /\ \A q \in Requests : q # r => req'[q] = req[q]
      /\ req[r].op = "reset"
  BY <1>0, Becoming DEF ResetWrite
<1>3. Resetting' = Resetting \cup {r} /\ r \notin Resetting
  BY <1>2 DEF Resetting
<1>4. Outstanding' = Outstanding \cup {user.password + 1}
  <2>1. \A q \in Resetting : req'[q].mine = req[q].mine
    BY <1>2 DEF Resetting
  <2>2. req'[r].mine = user.password + 1
    BY <1>2
  <2> QED BY <1>3, <2>1, <2>2 DEF Outstanding
<1>5. Cardinality(Outstanding') <= Cardinality(Outstanding) + 1
      /\ Cardinality(Outstanding') \in Nat /\ Cardinality(Outstanding) \in Nat
  <2>1. IsFiniteSet(Outstanding) /\ Cardinality(Outstanding) \in Nat
    BY <1>0, OutstandingFinite
  <2>2. Cardinality(Outstanding') \in {Cardinality(Outstanding), Cardinality(Outstanding) + 1}
    BY <1>4, <2>1, FS_AddElement
  <2> QED BY <2>1, <2>2
<1>6. ResetsCounted'
  <2>1. \A q \in Resetting' : req'[q].mine \in 2..user'.password
    <3> TAKE q \in Resetting'
    <3>1. CASE q = r
      BY <1>0, <1>1, <1>2, <1>3, <3>1, UserFields
    <3>2. CASE q # r
      BY <1>0, <1>1, <1>2, <1>3, <3>2 DEF ResetsCounted, Resetting
    <3> QED BY <3>1, <3>2
  <2> QED BY <1>0, <1>1, <1>5, <2>1 DEF ResetsCounted
<1>7. ResetsDistinct'
  <2> SUFFICES ASSUME NEW p \in Resetting', NEW q \in Resetting', req'[p].mine = req'[q].mine
               PROVE  p = q
    BY DEF ResetsDistinct
  <2>1. p # r => p \in Resetting /\ req'[p].mine = req[p].mine /\ req[p].mine \in 2..user.password
    BY <1>0, <1>2, <1>3 DEF ResetsCounted, Resetting
  <2>2. q # r => q \in Resetting /\ req'[q].mine = req[q].mine /\ req[q].mine \in 2..user.password
    BY <1>0, <1>2, <1>3 DEF ResetsCounted, Resetting
  <2> QED BY <1>0, <1>1, <1>2, <2>1, <2>2 DEF ResetsDistinct
<1>8. Entering' = Entering /\ \A q \in Entering : req'[q] = req[q]
  BY <1>2 DEF Entering
<1>9. SawBefore' /\ ObservedSince'
  BY <1>0, <1>1, <1>2, <1>8 DEF SawBefore, ObservedSince
<1>10. NoSessionSurvivesReset' /\ NobodyYet' /\ BonusOnce' /\ AuditSaysWhoIsBanned'
  BY <1>0, <1>1 DEF NoSessionSurvivesReset, Usable, NobodyYet, BonusOnce, AuditSaysWhoIsBanned
<1> QED BY <1>0, <1>6, <1>7, <1>9, <1>10 DEF IInv

(* The version that a reset observes is one that nobody has read beyond.   *)
LEMMA ResetRefreshStep ==
    ASSUME IInv, NEW r \in Requests, ResetRefresh(r)
    PROVE  IInv'
<1>0. /\ TypeOK /\ TypeOK' /\ NobodyYet /\ ResetsDistinct /\ ResetsCounted
      /\ SawBefore /\ ObservedSince
      /\ NoSessionSurvivesReset /\ BonusOnce /\ AuditSaysWhoIsBanned
  BY ResetTypes DEF IInv
<1>1. UNCHANGED <<user, bonuses, token, trail, reset>> /\ user.token_version \in Nat
  BY <1>0, UserFields DEF ResetRefresh, money, rest
<1>2. /\ req'[r] = [op |-> "revoke", mine |-> req[r].mine, observed |-> user.token_version]
      /\ \A q \in Requests : q # r => req'[q] = req[q]
      /\ req[r].op = "refresh"
  BY <1>0, Becoming DEF ResetRefresh
<1>3. Resetting' = Resetting /\ \A q \in Resetting : req'[q].mine = req[q].mine
  BY <1>2 DEF Resetting
<1>4. Outstanding' = Outstanding
  BY <1>3 DEF Outstanding
<1>5. ResetsDistinct' /\ ResetsCounted'
  BY <1>0, <1>1, <1>3, <1>4 DEF ResetsDistinct, ResetsCounted
<1>6. Entering' = Entering /\ \A q \in Entering : req'[q] = req[q]
  BY <1>2 DEF Entering
<1>7. SawBefore'
  BY <1>0, <1>1, <1>6 DEF SawBefore
<1>8. ObservedSince'
  <2> SUFFICES ASSUME NEW p \in Requests, req'[p].op = "revoke"
               PROVE  /\ req'[p].observed <= user'.token_version
                      /\ \A q \in Entering' : req'[q].saw.password < req'[p].mine =>
                             req'[q].saw.token_version <= req'[p].observed
    BY DEF ObservedSince
  <2>1. CASE p = r
    BY <1>0, <1>1, <1>2, <1>6, <2>1 DEF SawBefore
  <2>2. CASE p # r
    BY <1>0, <1>1, <1>2, <1>6, <2>2 DEF ObservedSince
  <2> QED BY <2>1, <2>2
<1>9. NoSessionSurvivesReset' /\ NobodyYet' /\ BonusOnce' /\ AuditSaysWhoIsBanned'
  BY <1>0, <1>1 DEF NoSessionSurvivesReset, Usable, NobodyYet, BonusOnce, AuditSaysWhoIsBanned
<1> QED BY <1>0, <1>5, <1>7, <1>8, <1>9 DEF IInv

(* The bump, by this reset or by another since it observed the version,    *)
(* leaves behind whoever has read an older password than it wrote.         *)
LEMMA ResetRevokeStep ==
    ASSUME IInv, NEW r \in Requests, ResetRevoke(r)
    PROVE  IInv'
<1>0. /\ TypeOK /\ TypeOK' /\ NobodyYet /\ ResetsDistinct /\ ResetsCounted
      /\ SawBefore /\ ObservedSince /\ BonusOnce /\ AuditSaysWhoIsBanned
  BY ResetTypes DEF IInv
<1> DEFINE old == user.token_version
           new == user'.token_version
<1>1. /\ user'.password = user.password /\ user'.exists = user.exists
      /\ user'.superuser = user.superuser /\ user'.banned = user.banned
      /\ UNCHANGED <<bonuses, trail>>
      /\ user.password \in Nat /\ old \in Nat /\ reset \in Nat
  BY <1>0, UserFields DEF ResetRevoke, TypeOK, UserRow, money, rest
<1>2. /\ new = IF old = req[r].observed THEN old + 1 ELSE old
      /\ reset' = IF req[r].mine > reset THEN req[r].mine ELSE reset
      /\ req[r].op = "revoke" /\ req[r].observed \in Nat /\ req[r].observed <= old
      /\ req[r].mine \in Nat /\ req[r].mine <= user.password
  <2>1. new = IF old = req[r].observed THEN old + 1 ELSE old
    BY <1>0 DEF ResetRevoke, TypeOK, UserRow
  <2>2. req[r].observed \in Nat /\ req[r].mine \in 2..user.password
    BY <1>0, RequestFields DEF ResetRevoke, Version, ResetsCounted, Resetting
  <2> QED BY <1>0, <1>1, <2>1, <2>2 DEF ResetRevoke, ObservedSince
<1>3. /\ req'[r] = Idle
      /\ \A q \in Requests : q # r => req'[q] = req[q]
  BY <1>0, Becoming DEF ResetRevoke, Ends
<1>4. Resetting' = Resetting \ {r} /\ r \in Resetting
  BY <1>2, <1>3 DEF Resetting, Idle
<1>a. \A q \in Resetting' : q \in Resetting /\ req'[q] = req[q]
  BY <1>3, <1>4 DEF Resetting
<1>5. Outstanding' = Outstanding \ {req[r].mine} /\ req[r].mine \in Outstanding
  <2>1. \A q \in Resetting : q # r => q \in Resetting' /\ req[q].mine # req[r].mine
    BY <1>0, <1>4 DEF ResetsDistinct
  <2> QED BY <1>a, <1>4, <2>1 DEF Outstanding
<1>6. Cardinality(Outstanding') = Cardinality(Outstanding) - 1 /\ Cardinality(Outstanding) \in Nat
  BY <1>0, <1>5, OutstandingFinite, FS_RemoveElement
<1>7. ResetsCounted' /\ ResetsDistinct'
  <2>1. ResetsDistinct'
    BY <1>0, <1>a DEF ResetsDistinct
  <2>2. \A q \in Resetting' : req'[q].mine \in 2..user'.password
    BY <1>0, <1>1, <1>a DEF ResetsCounted
  <2>3. new + Cardinality(Outstanding') < user'.password
    BY <1>0, <1>1, <1>2, <1>6 DEF ResetsCounted
  <2>4. reset' <= user'.password
    BY <1>0, <1>1, <1>2 DEF ResetsCounted
  <2> QED BY <2>1, <2>2, <2>3, <2>4 DEF ResetsCounted
<1>8. Entering' = Entering /\ \A q \in Entering : req'[q] = req[q]
  BY <1>2, <1>3 DEF Entering, Idle
<1>9. SawBefore'
  <2> SUFFICES ASSUME NEW q \in Entering
               PROVE  /\ req[q].saw.token_version <= new
                      /\ req[q].saw.token_version = new => req[q].saw.password >= reset'
    BY <1>8 DEF SawBefore
  <2>1. req[q].saw.token_version \in Nat /\ req[q].saw.password \in Nat
    BY <1>0, RequestFields DEF Entering, SeenRow, Password, Version
  <2>2. /\ req[q].saw.token_version <= old
        /\ req[q].saw.token_version = old => req[q].saw.password >= reset
    BY <1>0 DEF SawBefore
  <2>3. req[q].saw.password < req[r].mine => req[q].saw.token_version <= req[r].observed
    BY <1>0, <1>2 DEF ObservedSince
  <2>4. req[q].saw.token_version = new => old # req[r].observed
    BY <1>1, <1>2, <2>1, <2>2
  <2> HIDE DEF new, old
  <2> QED BY <1>1, <1>2, <2>1, <2>2, <2>3, <2>4
<1>10. ObservedSince'
  <2> SUFFICES ASSUME NEW p \in Requests, req'[p].op = "revoke"
               PROVE  /\ req'[p].observed <= new
                      /\ \A q \in Entering' : req'[q].saw.password < req'[p].mine =>
                             req'[q].saw.token_version <= req'[p].observed
    BY DEF ObservedSince
  <2>1. p # r /\ req'[p] = req[p]
    BY <1>3 DEF Idle
  <2>2. req[p].observed \in Nat
    BY <1>0, <2>1, RequestFields DEF Version
  <2>3. req[p].observed <= new
    BY <1>0, <1>1, <1>2, <2>1, <2>2 DEF ObservedSince
  <2> QED BY <1>0, <1>8, <2>1, <2>3 DEF ObservedSince
<1>11. NoSessionSurvivesReset'
  <2>1. \A t \in Tokens : token'[t].state # "active"
    BY <1>0 DEF ResetRevoke, Revoked, TypeOK
  <2> QED BY <2>1 DEF NoSessionSurvivesReset, Usable
<1>12. NobodyYet' /\ BonusOnce' /\ AuditSaysWhoIsBanned'
  BY <1>0, <1>1 DEF NobodyYet, BonusOnce, AuditSaysWhoIsBanned
<1> QED BY <1>0, <1>7, <1>9, <1>10, <1>11, <1>12 DEF IInv

-----------------------------------------------------------------------------
LEMMA InitIInv == Init => IInv
<1> SUFFICES ASSUME Init PROVE IInv
  OBVIOUS
<1>1. 1 \in Password /\ 0 \in Version /\ 0 \in 0..MaxPassword
  BY AccountsAssumption DEF Password, Version
<1>2. TypeOK
  BY <1>1, PlainStages DEF Init, TypeOK, NoUser, UserRow, NoToken
<1>3. Resetting = {} /\ Entering = {} /\ Outstanding = {}
  BY DEF Init, Resetting, Entering, Outstanding, Idle
<1>4. Cardinality(Outstanding) = 0
  BY <1>3, FS_EmptySet
<1>5. ResetsDistinct /\ ResetsCounted /\ SawBefore /\ ObservedSince
  BY <1>3, <1>4 DEF Init, NoUser, Idle, Resetting, ResetsDistinct, ResetsCounted, SawBefore,
     ObservedSince
<1>6. NobodyYet /\ BonusOnce /\ AuditSaysWhoIsBanned
  <2>1. ~user.superuser /\ trail = user.banned
    BY Zenon DEF Init, NoUser
  <2>2. bonuses <= 1
    BY DEF Init
  <2> QED BY <2>1, <2>2 DEF NobodyYet, BonusOnce, AuditSaysWhoIsBanned
<1>7. NoSessionSurvivesReset
  <2>1. \A t \in Tokens : token[t].state = "unissued"
    BY DEF Init, NoToken
  <2> QED BY <2>1 DEF NoSessionSurvivesReset, Usable
<1> QED BY <1>2, <1>5, <1>6, <1>7 DEF IInv

LEMMA NextIInv == IInv /\ [Next]_vars => IInv'
<1> SUFFICES ASSUME IInv, [Next]_vars PROVE IInv'
  OBVIOUS
<1>1. ASSUME NEW r \in Requests, Step(r) PROVE IInv'
  <2>1. CASE \/ RegisterCheck(r) \/ RegisterCommit(r) \/ RegisterTaken(r)
             \/ VerifyCheck(r) \/ VerifyCommit(r) \/ Bonus(r) \/ Welcome(r)
    BY <2>1, RegistrationTypes, RegistrationIsCalm, CalmStep
  <2>2. CASE \/ BanCommit(r) \/ \E ban \in BOOLEAN : BanCheck(r, ban)
             \/ BetGate(r) \/ LiveGate(r) \/ Bet(r) \/ RechargeGate(r) \/ Recharge(r) \/ Crash(r)
    BY <2>2, GateTypes, GatesAreCalm, CalmStep
  <2>3. CASE ResetCheck(r)
    BY <2>3, ResetTypes, GatesAreCalm, CalmStep
  <2>4. CASE ResetWrite(r)
    BY <2>4, ResetWriteStep
  <2>5. CASE ResetRefresh(r)
    BY <2>5, ResetRefreshStep
  <2>6. CASE ResetRevoke(r)
    BY <2>6, ResetRevokeStep
  <2>7. CASE \/ Authenticate(r) \/ LoginSuspended(r) \/ admin_login_failed(r)
             \/ \E t \in Tokens : Issue(r, t)
    BY <2>7, LoginTypes, LoginsAreCalm, CalmStep
  <2> QED BY <1>1, <2>1, <2>2, <2>3, <2>4, <2>5, <2>6, <2>7 DEF Step
<1>2. CASE \/ \E t \in Tokens : Logout(t) \/ Reuse(t) \/ Expire(t)
           \/ create_admin \/ request_verify \/ forgot_password \/ ChangeEmail \/ ChangePassword
  BY <1>2, AccountTypes, AccountStepsAreCalm, CalmStep
<1>3. CASE UNCHANGED vars
  BY <1>3 DEF vars, money, rest, IInv, TypeOK, NobodyYet, Resetting, Outstanding, Entering,
     ResetsDistinct, ResetsCounted, SawBefore, ObservedSince, Usable, NoSessionSurvivesReset,
     BonusOnce, AuditSaysWhoIsBanned
<1> QED BY <1>1, <1>2, <1>3 DEF Next

THEOREM AccountsInvariant == Spec => []IInv
BY InitIInv, NextIInv, PTL DEF Spec

(* The rows have the columns' types and no counter leaves its range: the    *)
(* version of the tokens stays behind the passwords that were ever set.    *)
THEOREM AccountsTypes == Spec => []TypeOK
<1>1. IInv => TypeOK
  BY DEF IInv
<1> QED BY <1>1, AccountsInvariant, PTL

(* A completed reset of the password ends every session of an older one    *)
(* (on_after_reset_password), for any number of logins and resets at once. *)
THEOREM ResetEndsSessions == Spec => []NoSessionSurvivesReset
<1>1. IInv => NoSessionSurvivesReset
  BY DEF IInv
<1> QED BY <1>1, AccountsInvariant, PTL

(* The sign-up bonus is paid at most once (grant_signup_bonus).            *)
THEOREM OneBonus == Spec => []BonusOnce
<1>1. IInv => BonusOnce
  BY DEF IInv
<1> QED BY <1>1, AccountsInvariant, PTL

(* The last ban event in the audit log is what the users row says          *)
(* (ban_user, unban_user), in whatever order admins act on what they read. *)
THEOREM AuditIsCurrent == Spec => []AuditSaysWhoIsBanned
<1>1. IInv => AuditSaysWhoIsBanned
  BY DEF IInv
<1> QED BY <1>1, AccountsInvariant, PTL
=============================================================================
