------------------------------ MODULE Accounts ------------------------------
(***************************************************************************)
(* A player's account: registration with its wallet, e-mail verification   *)
(* and the sign-up bonus, sessions kept as hashed tokens, password resets, *)
(* rest, and the gates that the money routes put before a request (auth/,  *)
(* admin/service.py, wallet/admin_router.py).                              *)
(*                                                                         *)
(* Requests of the same user run beside each other; each has its own       *)
(* database sessions, and between two of its commits it may die.           *)
(***************************************************************************)
EXTENDS Naturals, FiniteSets

CONSTANTS
    Tokens,         \* bound: session tokens ever issued
    Requests,       \* bound: requests in flight
    MaxPassword,    \* bound: passwords the user ever has, numbered as they are set
    MaxBalance,     \* bound: of the wallet
    None

ASSUME AccountsAssumption ==
    MaxPassword \in Nat \ {0} /\ MaxBalance \in Nat \ {0} /\ None \notin Nat

VARIABLES
    demo,       \* settings.DEMO_MODE
    user,       \* the users row
    balance,    \* of the user_wallet account, or None before there is one
    bonuses,    \* how many transfers of kind signup_bonus there are
    token,      \* the refresh_tokens rows
    req,        \* the requests in flight
    trail,      \* what the last ban event in the audit log says
    mail,       \* the links sent out that are still good
    reset       \* the newest password whose reset has completed (history)

money == <<balance, bonuses>>
rest  == <<trail, mail>>
vars  == <<demo, user, balance, bonuses, token, req, trail, mail, reset>>

-----------------------------------------------------------------------------
Idle == [op |-> "idle"]
NoUser == [exists |-> FALSE, superuser |-> FALSE, verified |-> FALSE, banned |-> FALSE,
           password |-> 1, token_version |-> 0]
\* auth: the password presented to the login that issued the token (history).
NoToken == [state |-> "unissued", token_version |-> 0, auth |-> 0]

Init ==
    /\ demo \in BOOLEAN
    /\ user = NoUser
    /\ balance = None
    /\ bonuses = 0
    /\ token = [t \in Tokens |-> NoToken]
    /\ req = [r \in Requests |-> Idle]
    /\ trail = FALSE
    /\ mail = {}
    /\ reset = 0

Becomes(r, stage) == req' = [req EXCEPT ![r] = stage]
Ends(r) == Becomes(r, Idle)
\* Without a wallet both raise.
Credit == balance # None /\ balance < MaxBalance /\ balance' = balance + 1
Debit  == balance # None /\ balance > 0 /\ balance' = balance - 1

\* read_token: neither revoked nor expired, and issued since the last reset.
Usable(t) == token[t].state = "active" /\ token[t].token_version >= user.token_version

\* What a login goes on with, from the row it has read.
Seen(row) == [banned |-> row.banned, password |-> row.password,
              token_version |-> row.token_version]

\* current_active_player, the gate of the routes of a player.
SignedIn == user.exists /\ user.verified /\ \E t \in Tokens : Usable(t)

-----------------------------------------------------------------------------
(* UserManager.create: user and wallet in one transaction, then the hook,  *)
(* which grants the bonus in demo mode.                                    *)

RegisterCheck(r) ==
    /\ req[r] = Idle /\ ~user.exists
    /\ Becomes(r, [op |-> "register"])
    /\ UNCHANGED <<demo, user, money, token, rest, reset>>

RegisterWith(r, wallet) ==
    /\ req[r].op = "register" /\ ~user.exists
    /\ user' = [user EXCEPT !.exists = TRUE, !.verified = demo]
    /\ wallet
    /\ Becomes(r, [op |-> "welcome", saw |-> Seen(user')])
    /\ UNCHANGED <<demo, bonuses, token, rest, reset>>

\* Mutation: the wallet is left for a later transaction.
RegisterUserOnly(r) == RegisterWith(r, UNCHANGED balance)

create_wallet == balance' = 0

RegisterCommit(r) == RegisterWith(r, create_wallet)

\* bin/create_admin.py does nothing if the user is there.  An admin has no wallet.
create_admin ==
    /\ ~user.exists
    /\ user' = [user EXCEPT !.exists = TRUE, !.superuser = TRUE, !.verified = TRUE]
    /\ UNCHANGED <<demo, money, token, req, rest, reset>>

\* users.email is UNIQUE: the second INSERT raises.
RegisterTaken(r) ==
    /\ req[r].op = "register" /\ user.exists
    /\ Ends(r)
    /\ UNCHANGED <<demo, user, money, token, rest, reset>>

on_after_request_verify == mail' = mail \cup {"verify"}

\* POST /auth/request-verify-token; an address that is verified gets no mail.
request_verify ==
    /\ user.exists /\ ~user.verified
    /\ on_after_request_verify
    /\ UNCHANGED <<demo, user, money, token, req, trail, reset>>

\* verify (fastapi-users) reads the user, refuses a verified one, commits the flag,
\* calls on_after_verify.
VerifyCheck(r) ==
    /\ req[r] = Idle /\ "verify" \in mail /\ ~user.verified
    /\ Becomes(r, [op |-> "verify"])
    /\ UNCHANGED <<demo, user, money, token, rest, reset>>

VerifyCommit(r) ==
    /\ req[r].op = "verify"
    /\ user' = [user EXCEPT !.verified = TRUE]
    /\ mail' = mail \ {"verify"}
    /\ Becomes(r, [op |-> "bonus"])
    /\ UNCHANGED <<demo, money, token, trail, reset>>

\* PATCH /auth/users/me (fastapi-users): a new e-mail, one the user never had,
\* has to be verified again by a new link; a new password ends no session.  The
\* link of a reset is bound to the password it was sent for.
ChangeEmail ==
    /\ SignedIn
    /\ user' = [user EXCEPT !.verified = FALSE]
    /\ mail' = mail \ {"verify"}
    /\ UNCHANGED <<demo, money, token, req, trail, reset>>

ChangePassword ==
    /\ SignedIn /\ user.password < MaxPassword
    /\ user' = [user EXCEPT !.password = @ + 1]
    /\ mail' = mail \ {"reset"}
    /\ UNCHANGED <<demo, money, token, req, trail, reset>>

\* Mutation: each grant has a key of its own.
grant_each_time == Credit /\ bonuses' = bonuses + 1

\* bonus:{user_id} is UNIQUE, the loser returns the winner's transfer.
grant_signup_bonus ==
    \/ bonuses = 0 /\ Credit /\ bonuses' = 1
    \/ bonuses > 0 /\ UNCHANGED money

\* on_after_verify; a grant that raises is logged.
Bonus(r) ==
    /\ req[r].op = "bonus"
    /\ grant_signup_bonus
    /\ Ends(r)
    /\ UNCHANGED <<demo, user, token, rest, reset>>

demo_login(r) == demo /\ Becomes(r, [op |-> "login", saw |-> req[r].saw])

\* on_after_register: the bonus in demo mode, else the mail; what raises is
\* logged.  The one-click demo login goes on with the row as it was created.
Welcome(r) ==
    /\ req[r].op = "welcome"
    /\ IF demo
       THEN (grant_signup_bonus \/ UNCHANGED money) /\ UNCHANGED mail
       ELSE (on_after_request_verify \/ UNCHANGED mail) /\ UNCHANGED money
    /\ Ends(r) \/ demo_login(r)
    /\ UNCHANGED <<demo, user, token, trail, reset>>

-----------------------------------------------------------------------------
(* DatabaseStrategy: login, logout, reuse of a revoked token. *)

\* authenticate: the row is read, then a worker thread verifies the password.
Authenticate(r) ==
    /\ req[r] = Idle /\ user.exists
    /\ Becomes(r, [op |-> "login", saw |-> Seen(user)])
    /\ UNCHANGED <<demo, user, money, token, rest, reset>>

\* write_token, with the user as it was read: for a player who passes
\* assert_not_banned, or for an admin (login_proxy, admin_login_proxy).
MayEnter(r) == ~req[r].saw.banned \/ user.superuser

IssueAt(r, t, version) ==
    /\ req[r].op = "login" /\ MayEnter(r) /\ token[t] = NoToken
    /\ token' = [token EXCEPT ![t] = [state |-> "active", token_version |-> version,
                                      auth |-> req[r].saw.password]]
    /\ Ends(r)
    /\ UNCHANGED <<demo, user, money, rest, reset>>

\* Mutation: the token takes the version that the user has by now.
IssueAtPresent(r, t) == IssueAt(r, t, user.token_version)

Issue(r, t) == IssueAt(r, t, req[r].saw.token_version)

LoginSuspended(r) ==
    /\ req[r].op = "login" /\ req[r].saw.banned
    /\ Ends(r)
    /\ UNCHANGED <<demo, user, money, token, rest, reset>>

Revoked == [t \in Tokens |-> IF token[t].state \in {"active", "expired"}
                             THEN [token[t] EXCEPT !.state = "revoked"] ELSE token[t]]

\* The admin login refuses who is no superuser.
admin_login_failed(r) ==
    /\ req[r].op = "login" /\ ~user.superuser
    /\ Ends(r)
    /\ UNCHANGED <<demo, user, money, token, rest, reset>>

destroy_token(t) == token' = [token EXCEPT ![t].state = "revoked"]

\* Either logout reads the token before it destroys it.
Logout(t) ==
    /\ Usable(t)
    /\ destroy_token(t)
    /\ UNCHANGED <<demo, user, money, req, rest, reset>>

\* A revoked token is presented again: all of the user's tokens are revoked.
Reuse(t) ==
    /\ token[t].state = "revoked"
    /\ token' = Revoked
    /\ UNCHANGED <<demo, user, money, req, rest, reset>>

Expire(t) ==
    /\ token[t].state = "active"
    /\ token' = [token EXCEPT ![t].state = "expired"]
    /\ UNCHANGED <<demo, user, money, req, rest, reset>>

-----------------------------------------------------------------------------
(* reset_password (fastapi-users) and on_after_reset_password. *)

\* POST /auth/forgot-password.
forgot_password ==
    /\ user.exists /\ user.password < MaxPassword
    /\ mail' = mail \cup {"reset"}
    /\ UNCHANGED <<demo, user, money, token, req, trail, reset>>

ResetCheck(r) ==
    /\ req[r] = Idle /\ "reset" \in mail
    /\ Becomes(r, [op |-> "reset"])
    /\ UNCHANGED <<demo, user, money, token, rest, reset>>

ResetWrite(r) ==
    /\ req[r].op = "reset" /\ user.password < MaxPassword
    /\ user' = [user EXCEPT !.password = @ + 1]
    /\ mail' = mail \ {"reset"}
    /\ Becomes(r, [op |-> "refresh", mine |-> user.password + 1])
    /\ UNCHANGED <<demo, money, token, trail, reset>>

\* The adapter re-reads the row after its commit.
ResetRefresh(r) ==
    /\ req[r].op = "refresh"
    /\ Becomes(r, [op |-> "revoke", mine |-> req[r].mine, observed |-> user.token_version])
    /\ UNCHANGED <<demo, user, money, token, rest, reset>>

\* The version is bumped unless another reset has done so; every token is revoked.
ResetRevoke(r) ==
    /\ req[r].op = "revoke"
    /\ user' = [user EXCEPT !.token_version = IF @ = req[r].observed THEN @ + 1 ELSE @]
    /\ token' = Revoked
    /\ reset' = IF req[r].mine > reset THEN req[r].mine ELSE reset
    /\ Ends(r)
    /\ UNCHANGED <<demo, money, rest>>

-----------------------------------------------------------------------------
(* AdminUserService.ban_user, unban_user: the row is read without a lock. *)

\* Mutation: the audit row is written when the request comes in.
BanCheckAudited(r, ban) ==
    /\ req[r] = Idle /\ user.exists /\ user.banned # ban
    /\ Becomes(r, [op |-> "ban", to |-> ban])
    /\ trail' = ban
    /\ UNCHANGED <<demo, user, money, token, mail, reset>>

BanCheck(r, ban) ==
    /\ req[r] = Idle /\ user.exists /\ user.banned # ban
    /\ Becomes(r, [op |-> "ban", to |-> ban])
    /\ UNCHANGED <<demo, user, money, token, rest, reset>>

\* AuditService.record: an insert in the transaction of the caller.
record(ban) == trail' = ban

\* The flag and its audit row in one transaction.
BanCommit(r) ==
    /\ req[r].op = "ban"
    /\ user' = [user EXCEPT !.banned = req[r].to]
    /\ record(req[r].to)
    /\ Ends(r)
    /\ UNCHANGED <<demo, money, token, mail, reset>>

-----------------------------------------------------------------------------
(* The gates of the money routes, then their transactions. *)

Enters(r, op) == Becomes(r, [op |-> op])

\* POST /bets: current_betting_player.
BetGate(r) ==
    /\ req[r] = Idle /\ SignedIn /\ ~user.banned
    /\ Enters(r, "bet")
    /\ UNCHANGED <<demo, user, money, token, rest, reset>>

\* POST /api/live/bets/{id}/placed: current_active_player.
LiveGate(r) ==
    /\ req[r] = Idle /\ SignedIn
    /\ Enters(r, "bet")
    /\ UNCHANGED <<demo, user, money, token, rest, reset>>

Bet(r) ==
    /\ req[r].op = "bet"
    /\ Debit
    /\ Ends(r)
    /\ UNCHANGED <<demo, user, bonuses, token, rest, reset>>

\* The admin's recharge reads banned_at of the target first.
RechargeGate(r) ==
    /\ req[r] = Idle /\ user.exists /\ ~user.banned
    /\ Enters(r, "recharge")
    /\ UNCHANGED <<demo, user, money, token, rest, reset>>

Recharge(r) ==
    /\ req[r].op = "recharge"
    /\ Credit
    /\ Ends(r)
    /\ UNCHANGED <<demo, user, bonuses, token, rest, reset>>

-----------------------------------------------------------------------------
\* The request raises or its process dies; what it committed stays.
Crash(r) ==
    /\ req[r] # Idle
    /\ Ends(r)
    /\ UNCHANGED <<demo, user, money, token, rest, reset>>

Step(r) ==
    \/ RegisterCheck(r) \/ RegisterCommit(r) \/ RegisterTaken(r)
    \/ VerifyCheck(r) \/ VerifyCommit(r) \/ Bonus(r) \/ Welcome(r)
    \/ Authenticate(r) \/ LoginSuspended(r) \/ admin_login_failed(r) \/ \E t \in Tokens : Issue(r, t)
    \/ ResetCheck(r) \/ ResetWrite(r) \/ ResetRefresh(r) \/ ResetRevoke(r)
    \/ BanCommit(r) \/ \E ban \in BOOLEAN : BanCheck(r, ban)
    \/ BetGate(r) \/ LiveGate(r) \/ Bet(r) \/ RechargeGate(r) \/ Recharge(r)
    \/ Crash(r)

Next ==
    \/ \E r \in Requests : Step(r)
    \/ \E t \in Tokens : Logout(t) \/ Reuse(t) \/ Expire(t)
    \/ create_admin \/ request_verify \/ forgot_password \/ ChangeEmail \/ ChangePassword

Spec == Init /\ [][Next]_vars

-----------------------------------------------------------------------------
Password == 1..MaxPassword
Version  == 0..MaxPassword
UserRow  == [exists: BOOLEAN, superuser: BOOLEAN, verified: BOOLEAN, banned: BOOLEAN,
             password: Password, token_version: Version]
Request  ==
    [op: {"idle", "register", "verify", "bonus", "reset", "bet", "recharge"}]
    \cup [op: {"welcome", "login"},
          saw: [banned: BOOLEAN, password: Password, token_version: Version]]
    \cup [op: {"refresh"}, mine: Password]
    \cup [op: {"revoke"}, mine: Password, observed: Version]
    \cup [op: {"ban"}, to: BOOLEAN]

TypeOK ==
    /\ demo \in BOOLEAN
    /\ user \in UserRow
    /\ balance \in (0..MaxBalance) \cup {None} /\ (balance = None <=> ~user.exists \/ user.superuser)
    /\ bonuses \in Nat
    /\ token \in [Tokens -> [state: {"unissued", "active", "expired", "revoked"},
                             token_version: Version, auth: 0..MaxPassword]]
    /\ req \in [Requests -> Request]
    /\ trail \in BOOLEAN
    /\ mail \subseteq {"verify", "reset"}
    /\ reset \in 0..MaxPassword

\* A completed password reset ends every session that was opened, or was being
\* opened, with an older password; two resets and slow logins may overlap.
NoSessionSurvivesReset == \A t \in Tokens : Usable(t) => token[t].auth >= reset

\* The bonus is paid once, though links are followed twice, e-mails change and
\* demo registrations race: the wallet is never credited again for it.
BonusOnce == bonuses <= 1

\* The last ban event of the audit log is what the users row says, in whatever
\* order admins who read the row before ban and unban.
AuditSaysWhoIsBanned == trail = user.banned
=============================================================================
