----------------------------- MODULE LoginSessions -----------------------------
(***************************************************************************)
(* Signing in: password, Lark and OIDC logins, the second factor, rotation *)
(* of refresh tokens, and what administrators do to the account meanwhile. *)
(* Every HTTP request is a process whose steps are its Meta DB statements, *)
(* so it decides on rows that other requests have changed since.  There is *)
(* one e-mail address, hence at most one account at a time: a deleted      *)
(* account may be made again by a login through a provider, with a new id. *)
(***************************************************************************)
EXTENDS Integers, Sequences, FiniteSets

CONSTANTS
    Requests,       \* bound: requests in progress at the same time
    FirstAccounts,  \* account rows the model starts from
    FirstTrust,     \* values of the trust setting it starts from
    Enforced,       \* MFA_ENFORCEMENT = required_for_admins
    MaxAttempts,    \* mfaMaxAttempts
    MaxRequests,    \* bound: requests of the login endpoints
    MaxSessions,    \* bound: rows of sessions
    MaxChallenges,  \* bound: rows of mfa_challenges
    MaxLogins,      \* bound: rows of lark_login_states and sso_login_states
    MaxChanges      \* bound: changes of the account and of the settings

ASSUME LoginAssumption ==
    /\ MaxAttempts \in Nat \ {0} /\ IsFiniteSet(Requests)
    /\ FirstAccounts \subseteq
         [id : Nat, active : BOOLEAN, protected : BOOLEAN, admin : BOOLEAN, passwordOff : BOOLEAN,
          source : {"none", "lark", "oidc"}, lark : BOOLEAN, secret : Nat, mfa : BOOLEAN]

VARIABLES
    account,     \* the row of users, or NoAccount
    trustMFA,    \* setting: the OIDC provider is trusted for the second factor
    sessions, challenges, logins,   \* rows, in order of creation
    req,         \* the requests in progress
    admin,       \* the administrator's request: the account whose sessions it still revokes
    ids, secrets,          \* counters: account ids and second factors handed out
    tested,      \* history: codes compared for each challenge, but for the failures it could not write
    requests, changes

vars == <<account, trustMFA, sessions, challenges, logins, req, admin, ids, secrets, tested, requests, changes>>

-----------------------------------------------------------------------------
NoAccount == [id |-> 0, active |-> FALSE, protected |-> FALSE, admin |-> FALSE,
              passwordOff |-> FALSE, source |-> "none", lark |-> FALSE, secret |-> 0, mfa |-> FALSE]
Idle == [kind |-> "none", at |-> "idle", arg |-> 0, code |-> 0, row |-> NoAccount,
         mfa |-> "none", setup |-> FALSE, late |-> FALSE]

Exists  == account.id # 0
At(r, kinds, at) == req[r].kind \in kinds /\ req[r].at = at
\* Later steps use only the id of a row that was read.
Id(row)          == [NoAccount EXCEPT !.id = row.id]
Goes(r, at)      == req' = [req EXCEPT ![r].at = at]
Ends(r, at)      == req' = [req EXCEPT ![r].at = at, ![r].row = Id(@), ![r].code = 0]
GoesWith(r, at, row) == req' = [req EXCEPT ![r].at = at, ![r].row = row]
Answers(r)       == req' = [req EXCEPT ![r] = Idle]
\* UPDATE users ... WHERE id = ?
UpdateUser(id, row) == account' = IF account.id = id THEN row ELSE account

requiresMFA(row) == Enforced /\ (row.protected \/ (account.id = row.id /\ account.admin))
HasMFA(row)      == row.mfa /\ row.secret # 0

(* A request arrives.  late records that the account was disabled at that  *)
(* moment; enabling it again or deleting it clears that.                   *)
Arrive(r, kind, arg, code) ==
    /\ req[r] = Idle /\ requests < MaxRequests /\ requests' = requests + 1
    /\ req' = [req EXCEPT ![r] = [Idle EXCEPT !.kind = kind, !.at = "start", !.arg = arg,
                                              !.code = code, !.late = Exists /\ ~account.active]]
    /\ UNCHANGED <<account, trustMFA, sessions, challenges, logins, admin, ids, secrets, tested, changes>>

Arrival(r) ==
    \/ \E password \in {0, 1} : Arrive(r, "login", 0, password)
    \/ \E s \in 1..Len(sessions) : Arrive(r, "refresh", s, 0)
    \/ \E c \in 1..Len(challenges), code \in 0..secrets : Arrive(r, "verify", c, code)
    \/ \E l \in 1..Len(logins), kind \in {"callback", "consume"} : Arrive(r, kind, l, 0)

-----------------------------------------------------------------------------
(* The end of a login: a session, a challenge, or a new second factor *)

CreateWithOptions(q) ==
    sessions' = Append(sessions, [id |-> q.row.id, revoked |-> "no", expired |-> FALSE, mfa |-> q.mfa,
                                  kind |-> q.kind, from |-> q.arg, late |-> q.late])

\* completeLoginWithPayloadAndSession: the row is written whatever became of the account.
CompleteLogin(r) ==
    /\ req[r].at = "session" /\ Len(sessions) < MaxSessions
    /\ CreateWithOptions(req[r])
    /\ Answers(r)
    /\ UNCHANGED <<account, trustMFA, challenges, logins, admin, ids, secrets, tested, requests, changes>>

StoreMFASecret(row) == [row EXCEPT !.secret = secrets + 1, !.mfa = FALSE]

StartMFASetup(r) ==
    /\ req[r].at = "store"
    /\ secrets' = secrets + 1
    /\ UpdateUser(req[r].row.id, StoreMFASecret(account))
    /\ req' = [req EXCEPT ![r].at = "challenge", ![r].setup = TRUE]
    /\ UNCHANGED <<trustMFA, sessions, challenges, logins, admin, ids, tested, requests, changes>>

MFAChallenge(id, setup) ==
    [id |-> id, setup |-> setup, attempts |-> 0, used |-> FALSE, revoked |-> FALSE, expired |-> FALSE]

NewMFAChallenge(r) ==
    /\ req[r].at = "challenge" /\ Len(challenges) < MaxChallenges
    /\ challenges' = Append(challenges, MFAChallenge(req[r].row.id, req[r].setup))
    /\ tested' = Append(tested, 0)
    /\ Answers(r)
    /\ UNCHANGED <<account, trustMFA, sessions, logins, admin, ids, secrets, requests, changes>>

\* A second factor is due: set it up, or ask for a code.
AskSecondFactor(r) == Ends(r, IF HasMFA(req[r].row) THEN "challenge" ELSE "store")

-----------------------------------------------------------------------------
(* POST /auth/login *)

Login(r) ==
    /\ At(r, {"login"}, "start")
    /\ IF Exists /\ account.active /\ ~account.passwordOff /\ req[r].code = 1
       THEN GoesWith(r, "policy", account) ELSE Answers(r)
    /\ UNCHANGED <<account, trustMFA, sessions, challenges, logins, admin, ids, secrets, tested, requests, changes>>

LoginPolicy(r) ==
    /\ At(r, {"login"}, "policy")
    /\ IF requiresMFA(req[r].row) THEN AskSecondFactor(r) ELSE Ends(r, "session")
    /\ UNCHANGED <<account, trustMFA, sessions, challenges, logins, admin, ids, secrets, tested, requests, changes>>

-----------------------------------------------------------------------------
(* Logins through Lark and through the OIDC provider *)

ExternalLogin(provider) ==
    /\ Len(logins) < MaxLogins
    /\ logins' = Append(logins, [provider |-> provider, used |-> FALSE, expired |-> FALSE,
                                 id |-> 0, ticket |-> "none"])
    /\ UNCHANGED <<account, trustMFA, sessions, challenges, req, admin, ids, secrets, tested, requests, changes>>

StartLarkLogin == ExternalLogin("lark")
StartSSOLogin  == ExternalLogin("oidc")

ClaimState(l) == ~l.used /\ ~l.expired

\* CompleteLarkLogin and CompleteSSOLogin, up to the exchange of the code.
CompleteExternalLogin(r) ==
    /\ At(r, {"callback"}, "start")
    /\ IF ClaimState(logins[req[r].arg])
       THEN logins' = [logins EXCEPT ![req[r].arg].used = TRUE] /\ Goes(r, "exchange")
       ELSE UNCHANGED logins /\ Answers(r)
    /\ UNCHANGED <<account, trustMFA, sessions, challenges, admin, ids, secrets, tested, requests, changes>>

Provider(r) == logins[req[r].arg].provider

\* The provider exchanges the code for an identity, or refuses; the row only notes the error.
ExchangeCode(r) ==
    /\ At(r, {"callback"}, "exchange")
    /\ Goes(r, "identity") \/ Answers(r)
    /\ UNCHANGED <<account, trustMFA, sessions, challenges, logins, admin, ids, secrets, tested, requests, changes>>

\* A bound Lark identity is bound again, which refreshes its columns.
FindOrCreateLarkUser(r) ==
    /\ At(r, {"callback"}, "identity") /\ Provider(r) = "lark"
    /\ IF Exists /\ account.lark THEN GoesWith(r, "bind", Id(account)) ELSE Goes(r, "email")
    /\ UNCHANGED <<account, trustMFA, sessions, challenges, logins, admin, ids, secrets, tested, requests, changes>>

FindOrCreateSSOUser(r) ==
    /\ At(r, {"callback"}, "identity") /\ Provider(r) = "oidc"
    /\ IF ~(Exists /\ account.source = "oidc") THEN Goes(r, "email")
       ELSE IF account.active THEN GoesWith(r, "ticket", Id(account)) ELSE Answers(r)
    /\ UNCHANGED <<account, trustMFA, sessions, challenges, logins, admin, ids, secrets, tested, requests, changes>>

\* A protected account is never bound by its e-mail address.  A Lark profile without one
\* is not looked up and gets an account of its own, beside the one modelled.
FindByEmail(r) ==
    /\ At(r, {"callback"}, "email")
    /\ \/ IF ~Exists THEN Goes(r, "create")
          ELSE IF account.protected THEN Answers(r) ELSE GoesWith(r, "bind", Id(account))
       \/ Provider(r) = "lark" /\ Exists /\ Answers(r)
    /\ UNCHANGED <<account, trustMFA, sessions, challenges, logins, admin, ids, secrets, tested, requests, changes>>

\* A Lark login takes the identity columns over from an OIDC one, and the other way round.
BindExternalIdentity(row) == [row EXCEPT !.source = "oidc", !.passwordOff = TRUE]
BindLarkIdentity(row)     == [row EXCEPT !.source = "lark", !.lark = TRUE]

BindIdentity(r) ==
    /\ At(r, {"callback"}, "bind")
    /\ UpdateUser(req[r].row.id, IF Provider(r) = "oidc" THEN BindExternalIdentity(account)
                                                         ELSE BindLarkIdentity(account))
    /\ Goes(r, "reload")
    /\ UNCHANGED <<trustMFA, sessions, challenges, logins, admin, ids, secrets, tested, requests, changes>>

Reload(r) ==
    /\ At(r, {"callback"}, "reload")
    /\ IF account.id = req[r].row.id /\ account.active
       THEN GoesWith(r, "ticket", Id(account)) ELSE Answers(r)
    /\ UNCHANGED <<account, trustMFA, sessions, challenges, logins, admin, ids, secrets, tested, requests, changes>>

NewDeveloper == [NoAccount EXCEPT !.id = ids + 1, !.active = TRUE, !.passwordOff = TRUE]
CreateLarkDeveloper == BindLarkIdentity(NewDeveloper)
CreateSSODeveloper  == BindExternalIdentity(NewDeveloper)

\* The unique key on the e-mail address refuses the second of two creations.
CreateDeveloper(r) ==
    /\ At(r, {"callback"}, "create")
    /\ IF Exists THEN Answers(r) /\ UNCHANGED <<account, ids>>
       ELSE /\ account' = IF Provider(r) = "lark" THEN CreateLarkDeveloper ELSE CreateSSODeveloper
            /\ ids' = ids + 1 /\ GoesWith(r, "ticket", Id(NewDeveloper))
    /\ UNCHANGED <<trustMFA, sessions, challenges, logins, admin, secrets, tested, requests, changes>>

StoreTicket(r) ==
    /\ At(r, {"callback"}, "ticket")
    /\ logins' = [logins EXCEPT ![req[r].arg].id = req[r].row.id, ![req[r].arg].ticket = "stored"]
    /\ Answers(r)
    /\ UNCHANGED <<account, trustMFA, sessions, challenges, admin, ids, secrets, tested, requests, changes>>

\* Mutant: the ticket is read and marked used without comparing.
ConsumeTicketTwice(r) ==
    LET l == logins[req[r].arg] IN
    /\ At(r, {"consume"}, "start")
    /\ IF l.ticket \in {"stored", "used"}
       THEN logins' = [logins EXCEPT ![req[r].arg].ticket = "used"] /\ Goes(r, "user")
       ELSE UNCHANGED logins /\ Answers(r)
    /\ UNCHANGED <<account, trustMFA, sessions, challenges, admin, ids, secrets, tested, requests, changes>>

ConsumeTicket(r) ==
    LET l == logins[req[r].arg] IN
    /\ At(r, {"consume"}, "start")
    /\ IF l.ticket = "stored"
       THEN logins' = [logins EXCEPT ![req[r].arg].ticket = "used"] /\ Goes(r, "user")
       ELSE UNCHANGED logins /\ Answers(r)
    /\ UNCHANGED <<account, trustMFA, sessions, challenges, admin, ids, secrets, tested, requests, changes>>

\* The user of the ticket.
ConsumeUser(r) ==
    /\ At(r, {"consume"}, "user")
    /\ IF account.id = logins[req[r].arg].id /\ account.active
       THEN GoesWith(r, IF Provider(r) = "oidc" THEN "config" ELSE "policy", account)
       ELSE Answers(r)
    /\ UNCHANGED <<account, trustMFA, sessions, challenges, logins, admin, ids, secrets, tested, requests, changes>>

ConsumeLarkLoginResult(r) ==
    /\ At(r, {"consume"}, "policy") /\ Provider(r) = "lark"
    /\ IF requiresMFA(req[r].row) THEN AskSecondFactor(r) ELSE Ends(r, "session")
    /\ UNCHANGED <<account, trustMFA, sessions, challenges, logins, admin, ids, secrets, tested, requests, changes>>

ResolveOIDCSSOConfig(r) ==
    /\ At(r, {"consume"}, "config")
    /\ req' = [req EXCEPT ![r].at = "policy", ![r].mfa = IF trustMFA THEN "trusted" ELSE "none"]
    /\ UNCHANGED <<account, trustMFA, sessions, challenges, logins, admin, ids, secrets, tested, requests, changes>>

ConsumeSSOLoginResult(r) ==
    LET required == requiresMFA(req[r].row)
        trusted  == req[r].mfa = "trusted" IN
    /\ At(r, {"consume"}, "policy") /\ Provider(r) = "oidc"
    /\ IF required /\ ~trusted THEN AskSecondFactor(r)
       ELSE req' = [req EXCEPT ![r].at = "session", ![r].mfa = IF required THEN "trusted" ELSE "none",
                            ![r].row = Id(@)]
    /\ UNCHANGED <<account, trustMFA, sessions, challenges, logins, admin, ids, secrets, tested, requests, changes>>

-----------------------------------------------------------------------------
(* POST /auth/mfa/verify *)

\* validMFAChallenge, on the row as it is when the request reads it.
ValidMFAChallenge(c) == ~c.used /\ ~c.revoked /\ ~c.expired

GetChallenge(r) ==
    /\ At(r, {"verify"}, "start")
    /\ IF ValidMFAChallenge(challenges[req[r].arg]) THEN Goes(r, "user") ELSE Answers(r)
    /\ UNCHANGED <<account, trustMFA, sessions, challenges, logins, admin, ids, secrets, tested, requests, changes>>

VerifyUser(r) ==
    /\ At(r, {"verify"}, "user")
    /\ IF account.id = challenges[req[r].arg].id /\ account.active
       THEN GoesWith(r, "policy", account) ELSE Answers(r)
    /\ UNCHANGED <<account, trustMFA, sessions, challenges, logins, admin, ids, secrets, tested, requests, changes>>

\* The code is compared with the secret of the row read before.
VerifyCode(r) ==
    LET row == req[r].row IN
    /\ At(r, {"verify"}, "policy")
    /\ IF ~requiresMFA(row) \/ row.secret = 0 THEN Answers(r) /\ UNCHANGED tested
       ELSE /\ Goes(r, IF req[r].code = row.secret THEN "use" ELSE "wrong")
            /\ tested' = [tested EXCEPT ![req[r].arg] = @ + 1]
    /\ UNCHANGED <<account, trustMFA, sessions, challenges, logins, admin, ids, secrets, requests, changes>>

\* Mutant: the challenge is locked one wrong code too late.
RecordFailedAttemptLate(r) ==
    LET c == challenges[req[r].arg] IN
    /\ At(r, {"verify"}, "wrong")
    /\ challenges' = IF c.used \/ c.revoked THEN challenges
                     ELSE [challenges EXCEPT ![req[r].arg].attempts = @ + 1,
                                             ![req[r].arg].revoked = c.attempts >= MaxAttempts]
    /\ Answers(r)
    /\ UNCHANGED <<account, trustMFA, sessions, logins, admin, ids, secrets, tested, requests, changes>>

RecordFailedAttempt(r) ==
    LET c == challenges[req[r].arg] IN
    /\ At(r, {"verify"}, "wrong")
    /\ challenges' = IF c.used \/ c.revoked THEN challenges
                     ELSE [challenges EXCEPT ![req[r].arg].attempts = @ + 1,
                                             ![req[r].arg].revoked = c.attempts + 1 >= MaxAttempts]
    /\ Answers(r)
    /\ UNCHANGED <<account, trustMFA, sessions, logins, admin, ids, secrets, tested, requests, changes>>

\* The Meta DB does not take the failure: the challenge is as before.
LoseFailedAttempt(r) ==
    /\ At(r, {"verify"}, "wrong")
    /\ tested' = [tested EXCEPT ![req[r].arg] = @ - 1]
    /\ Answers(r)
    /\ UNCHANGED <<account, trustMFA, sessions, challenges, logins, admin, ids, secrets, requests, changes>>

\* The update is conditional: of several right answers one wins, and none once it is locked.
MarkUsed(r) ==
    LET c == challenges[req[r].arg] IN
    /\ At(r, {"verify"}, "use")
    /\ IF ValidMFAChallenge(c)
       THEN /\ challenges' = [challenges EXCEPT ![req[r].arg].used = TRUE]
            /\ req' = [req EXCEPT ![r].at = IF c.setup \/ ~req[r].row.mfa THEN "enable" ELSE "session",
                                  ![r].mfa = "totp", ![r].row = Id(@), ![r].code = 0]
       ELSE UNCHANGED challenges /\ Answers(r)
    /\ UNCHANGED <<account, trustMFA, sessions, logins, admin, ids, secrets, tested, requests, changes>>

EnableMFA(row) == [row EXCEPT !.mfa = row.secret # 0]

EnableAfterVerify(r) ==
    /\ At(r, {"verify"}, "enable")
    /\ UpdateUser(req[r].row.id, EnableMFA(account))
    /\ Goes(r, "session")
    /\ UNCHANGED <<trustMFA, sessions, challenges, logins, admin, ids, secrets, tested, requests, changes>>

-----------------------------------------------------------------------------
(* POST /auth/refresh *)

\* revoked: "no", "recent" within refreshReuseGraceWindow, "old" after it.
RevokeRow(s) == IF s.revoked = "no" THEN [s EXCEPT !.revoked = "recent"] ELSE s
RevokeAllForUser(id) ==
    sessions' = [i \in DOMAIN sessions |-> IF sessions[i].id = id THEN RevokeRow(sessions[i])
                                                                  ELSE sessions[i]]

Refresh(r) ==
    LET s == sessions[req[r].arg] IN
    /\ At(r, {"refresh"}, "start")
    /\ IF s.revoked = "old" THEN GoesWith(r, "revokeall", Id(s))
       ELSE IF s.revoked = "recent" \/ s.expired THEN Answers(r)
       ELSE req' = [req EXCEPT ![r].at = "rotate", ![r].mfa = s.mfa]
    /\ UNCHANGED <<account, trustMFA, sessions, challenges, logins, admin, ids, secrets, tested, requests, changes>>

\* Neither the number of rows nor an error is looked at: two requests may both go on from
\* here, and the old token may stay.
RevokeSessionRow(r) ==
    /\ At(r, {"refresh"}, "rotate")
    /\ \/ sessions' = [sessions EXCEPT ![req[r].arg] = RevokeRow(@)]
       \/ UNCHANGED sessions
    /\ Goes(r, "user")
    /\ UNCHANGED <<account, trustMFA, challenges, logins, admin, ids, secrets, tested, requests, changes>>

\* Mutant: the account is not asked for.
RefreshAnyUser(r) ==
    /\ At(r, {"refresh"}, "user")
    /\ IF account.id # sessions[req[r].arg].id THEN Answers(r) ELSE GoesWith(r, "policy", account)
    /\ UNCHANGED <<account, trustMFA, sessions, challenges, logins, admin, ids, secrets, tested, requests, changes>>

RefreshUser(r) ==
    /\ At(r, {"refresh"}, "user")
    /\ IF account.id # sessions[req[r].arg].id THEN Answers(r)
       ELSE GoesWith(r, IF account.active THEN "policy" ELSE "revokeall", account)
    /\ UNCHANGED <<account, trustMFA, sessions, challenges, logins, admin, ids, secrets, tested, requests, changes>>

RefreshPolicy(r) ==
    LET row == req[r].row IN
    /\ At(r, {"refresh"}, "policy")
    /\ Ends(r, IF requiresMFA(row) /\ ~HasMFA(row) /\ req[r].mfa # "trusted"
               THEN "revokeall" ELSE "session")
    /\ UNCHANGED <<account, trustMFA, sessions, challenges, logins, admin, ids, secrets, tested, requests, changes>>

RevokeAllStep(r) ==
    /\ req[r].at = "revokeall"
    /\ RevokeAllForUser(req[r].row.id)
    /\ Answers(r)
    /\ UNCHANGED <<account, trustMFA, challenges, logins, admin, ids, secrets, tested, requests, changes>>

-----------------------------------------------------------------------------
(* Requests on the sessions, by their owner or by an administrator, and    *)
(* changes of the account.  An access token is checked by its signature,   *)
(* so the owner's request needs an active account and no session row.      *)

\* RequireAuth and RequireActiveUser, in front of the owner's requests.
OwnerActs == Exists /\ account.active

RevokeOne ==
    /\ \E i \in DOMAIN sessions : /\ sessions[i].id = account.id /\ sessions[i].revoked = "no"
                                  /\ sessions' = [sessions EXCEPT ![i] = RevokeRow(@)]
    /\ UNCHANGED <<account, trustMFA, challenges, logins, req, admin, ids, secrets, tested, requests, changes>>

RevokeEvery ==
    /\ \E i \in DOMAIN sessions : sessions[i].id = account.id /\ sessions[i].revoked = "no"
    /\ RevokeAllForUser(account.id)
    /\ UNCHANGED <<account, trustMFA, challenges, logins, req, admin, ids, secrets, tested, requests, changes>>

Logout             == OwnerActs /\ RevokeOne
RevokeSession      == OwnerActs /\ RevokeOne
RevokeSessions     == OwnerActs /\ RevokeEvery
RevokeUserSession  == Exists /\ RevokeOne
RevokeUserSessions == Exists /\ RevokeEvery

Change == changes < MaxChanges /\ changes' = changes + 1

\* An administrator makes the account, with a password.
CreateUser ==
    /\ Change /\ ~Exists
    /\ account' = [NoAccount EXCEPT !.id = ids + 1, !.active = TRUE] /\ ids' = ids + 1
    /\ UNCHANGED <<trustMFA, sessions, challenges, logins, req, admin, secrets, tested, requests>>

\* Patch: the status first, then the sessions.
SetActive(active) ==
    /\ Change /\ Exists /\ admin = 0 /\ account.active # active
    /\ account' = [account EXCEPT !.active = active]
    /\ admin' = IF active THEN 0 ELSE account.id
    /\ req' = [r \in Requests |-> IF active THEN [req[r] EXCEPT !.late = FALSE] ELSE req[r]]
    /\ UNCHANGED <<trustMFA, sessions, challenges, logins, ids, secrets, tested, requests>>

ClearMFA ==
    /\ Change /\ Exists /\ admin = 0
    /\ account' = [account EXCEPT !.secret = 0, !.mfa = FALSE]
    /\ admin' = account.id
    /\ UNCHANGED <<trustMFA, sessions, challenges, logins, req, ids, secrets, tested, requests>>

ResetMFA           == ClearMFA    \* by an administrator
ResetMFABreakGlass == ClearMFA    \* by the command line of the server

RevokeAfterChange ==
    /\ admin # 0
    /\ RevokeAllForUser(admin) /\ admin' = 0
    /\ UNCHANGED <<account, trustMFA, challenges, logins, req, ids, secrets, tested, requests, changes>>

\* One transaction: the sessions go with the account.
DeleteUser ==
    /\ Change /\ Exists /\ ~account.protected
    /\ account' = NoAccount
    /\ sessions' = [i \in DOMAIN sessions |-> IF sessions[i].id = account.id
                        THEN [sessions[i] EXCEPT !.id = 0, !.revoked = "old"] ELSE sessions[i]]
    /\ req' = [r \in Requests |-> [req[r] EXCEPT !.late = FALSE]]
    /\ UNCHANGED <<trustMFA, challenges, logins, admin, ids, secrets, tested, requests>>

\* The account joins or leaves the admin group, or its membership ends.
SetAdminGroup ==
    /\ Change /\ Exists
    /\ account' = [account EXCEPT !.admin = ~@]
    /\ UNCHANGED <<trustMFA, sessions, challenges, logins, req, admin, ids, secrets, tested, requests>>

SetTrustMFA ==
    /\ Change /\ trustMFA' = ~trustMFA
    /\ UNCHANGED <<account, sessions, challenges, logins, req, admin, ids, secrets, tested, requests>>

\* The clock: grace window, and the life of sessions, challenges, states and tickets.
Later ==
    /\ \/ \E i \in DOMAIN sessions :
              /\ sessions[i].revoked = "recent" /\ UNCHANGED <<challenges, logins>>
              /\ sessions' = [sessions EXCEPT ![i].revoked = "old"]
       \/ \E i \in DOMAIN sessions :
              /\ ~sessions[i].expired /\ sessions[i].revoked = "no" /\ UNCHANGED <<challenges, logins>>
              /\ sessions' = [sessions EXCEPT ![i].expired = TRUE]
       \/ \E i \in DOMAIN challenges :
              /\ ~challenges[i].expired /\ UNCHANGED <<sessions, logins>>
              /\ challenges' = [challenges EXCEPT ![i].expired = TRUE]
       \/ \E i \in DOMAIN logins :
              /\ UNCHANGED <<sessions, challenges>>
              /\ \/ ~logins[i].used /\ ~logins[i].expired
                    /\ logins' = [logins EXCEPT ![i].expired = TRUE]
                 \/ logins[i].ticket = "stored" /\ logins' = [logins EXCEPT ![i].ticket = "expired"]
    /\ UNCHANGED <<account, trustMFA, req, admin, ids, secrets, tested, requests, changes>>

-----------------------------------------------------------------------------
Init ==
    /\ account \in FirstAccounts /\ trustMFA \in FirstTrust
    /\ sessions = <<>> /\ challenges = <<>> /\ logins = <<>> /\ tested = <<>>
    /\ req = [r \in Requests |-> Idle]
    /\ admin = 0 /\ ids = 1 /\ secrets = account.secret /\ requests = 0 /\ changes = 0

Step(r) ==
    \/ Arrival(r)
    \/ CompleteLogin(r) \/ StartMFASetup(r) \/ NewMFAChallenge(r)
    \/ Login(r) \/ LoginPolicy(r)
    \/ CompleteExternalLogin(r) \/ ExchangeCode(r) \/ FindOrCreateLarkUser(r) \/ FindOrCreateSSOUser(r)
    \/ FindByEmail(r)
    \/ BindIdentity(r) \/ Reload(r) \/ CreateDeveloper(r) \/ StoreTicket(r)
    \/ ConsumeTicket(r) \/ ConsumeUser(r) \/ ResolveOIDCSSOConfig(r)
    \/ ConsumeLarkLoginResult(r) \/ ConsumeSSOLoginResult(r)
    \/ GetChallenge(r) \/ VerifyUser(r) \/ VerifyCode(r) \/ RecordFailedAttempt(r)
    \/ LoseFailedAttempt(r) \/ MarkUsed(r) \/ EnableAfterVerify(r)
    \/ Refresh(r) \/ RevokeSessionRow(r) \/ RefreshUser(r) \/ RefreshPolicy(r) \/ RevokeAllStep(r)

Next ==
    \/ \E r \in Requests : Step(r)
    \/ StartLarkLogin \/ StartSSOLogin
    \/ Logout \/ RevokeSession \/ RevokeSessions \/ RevokeUserSession \/ RevokeUserSessions
    \/ CreateUser \/ SetActive(TRUE) \/ SetActive(FALSE) \/ ResetMFA \/ ResetMFABreakGlass \/ RevokeAfterChange
    \/ DeleteUser \/ SetAdminGroup \/ SetTrustMFA
    \/ Later

Spec == Init /\ [][Next]_vars

-----------------------------------------------------------------------------
(* An MFA challenge and a login ticket open at most one session, however   *)
(* many requests present them at the same time (MarkUsed, ConsumeTicket).  *)
OneSessionPerProof ==
    \A i, j \in DOMAIN sessions :
        (/\ sessions[i].kind = sessions[j].kind /\ sessions[i].kind \in {"verify", "consume"}
         /\ sessions[i].from = sessions[j].from) => i = j

(* Wrong codes lock a challenge: no more than MaxAttempts are counted and, *)
(* of requests that read the challenge before it was locked, each may      *)
(* compare one more (VerifyMFA, RecordFailedAttempt).  A wrong code that   *)
(* the Meta DB fails to record is answered with an error and not counted.  *)
CodesAreBounded ==
    \A i \in DOMAIN challenges :
        /\ challenges[i].attempts <= MaxAttempts
        /\ tested[i] < MaxAttempts + Cardinality(Requests)

(* A request that arrives after the account was disabled opens no session, *)
(* whatever it presents: a password, a challenge, a ticket or a refresh    *)
(* token (the account is read again by every handler).                     *)
DisabledOpensNothing == \A i \in DOMAIN sessions : ~sessions[i].late
=============================================================================
