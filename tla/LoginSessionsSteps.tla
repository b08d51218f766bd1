------------------------- MODULE LoginSessionsSteps -------------------------
(***************************************************************************)
(* What each step of LoginSessions does to the account, the sessions, the  *)
(* challenges, the logins and the requests in flight.  The handlers of the *)
(* login endpoints and the repository calls under them are some forty      *)
(* actions; for the properties they fall into the few forms defined here,  *)
(* such as a request that moves on without writing (Quiet), one that       *)
(* compares a code (Compares) or one that closes its challenge (Spends).   *)
(* Forms shows that every step has one of them and TypesStep that every    *)
(* step keeps the types, so that the proofs of the invariants, in          *)
(* LoginSessionsProofs, speak of the forms alone.                          *)
(***************************************************************************)
EXTENDS LoginSessions, FiniteSetTheorems, SequenceTheorems, TLAPS

\* What a request may be: a password login, a refresh, a code for a challenge, the callback of
\* a provider or the redemption of a login ticket.
Kinds == {"none", "login", "refresh", "verify", "callback", "consume"}
\* The points between two database calls at which a request may be interrupted.
Ats   == {"idle", "start", "policy", "session", "store", "challenge", "exchange", "identity",
          "email", "bind", "reload", "create", "ticket", "user", "config", "use", "wrong",
          "enable", "rotate", "revokeall"}
\* How a session was strengthened by a second factor.
Marks == {"none", "trusted", "totp"}
\* What has become of a login ticket.
Tickets == {"none", "stored", "used", "expired"}

\* The rows of the tables, and a request with the copy of the account it has read.
Account   == [id : Nat, active : BOOLEAN, protected : BOOLEAN, admin : BOOLEAN,
              passwordOff : BOOLEAN, source : {"none", "lark", "oidc"}, lark : BOOLEAN,
              secret : Nat, mfa : BOOLEAN]
Req       == [kind : Kinds, at : Ats, arg : Nat, code : Nat, row : Account, mfa : Marks,
              setup : BOOLEAN, late : BOOLEAN]
Session   == [id : Nat, revoked : {"no", "recent", "old"}, expired : BOOLEAN, mfa : Marks,
              kind : Kinds, from : Nat, late : BOOLEAN]
Challenge == [id : Nat, setup : BOOLEAN, attempts : Nat, used : BOOLEAN, revoked : BOOLEAN,
              expired : BOOLEAN]
LoginRow  == [provider : {"lark", "oidc"}, used : BOOLEAN, expired : BOOLEAN, id : Nat,
              ticket : Tickets]

\* A request presents a row that exists.
Presents(q) ==
    /\ q.kind = "verify" => q.arg \in 1..Len(challenges)
    /\ q.kind \in {"callback", "consume"} => q.arg \in 1..Len(logins)
    /\ q.kind = "refresh" => q.arg \in 1..Len(sessions)

\* The type invariant.
Types ==
    /\ account \in Account /\ req \in [Requests -> Req]
    /\ sessions \in Seq(Session) /\ challenges \in Seq(Challenge) /\ logins \in Seq(LoginRow)
    /\ tested \in Seq(Int) /\ Len(tested) = Len(challenges)
    /\ ids \in Nat /\ secrets \in Nat /\ admin \in Nat
    /\ \A r \in Requests : Presents(req[r])

-----------------------------------------------------------------------------
\* The truth values are truth values, which the provers need to be told in records.
LEMMA Truths == TRUE \in BOOLEAN /\ FALSE \in BOOLEAN
BY Zenon

\* The absent account and the idle request are of their types.
LEMMA Nobody ==
  /\ NoAccount \in Account /\ NoAccount.id = 0 /\ NoAccount.active = FALSE
  /\ Idle \in Req /\ Idle.kind = "none" /\ Idle.at = "idle" /\ Idle.late = FALSE
<1>1. NoAccount \in Account /\ NoAccount.id = 0 /\ NoAccount.active = FALSE
  BY Truths DEF NoAccount, Account
<1> QED
  BY <1>1, Truths DEF Idle, Req, Kinds, Ats, Marks

\* A copy cut down to the id of the account is an account's copy.
LEMMA OnlyId == ASSUME NEW row \in Account PROVE Id(row) \in Account /\ Id(row).id = row.id
BY Nobody DEF Id, Account

\* One row of a table changes.
LEMMA Put ==
  ASSUME NEW S, NEW s \in Seq(S), NEW i \in 1..Len(s), NEW e \in S, NEW t,
         t = [s EXCEPT ![i] = e]
  PROVE  /\ t \in Seq(S) /\ Len(t) = Len(s) /\ t[i] = e
         /\ \A j \in 1..Len(s) : j # i => t[j] = s[j]
BY ExceptSeq

\* A row is inserted.
LEMMA Inserted ==
  ASSUME NEW S, NEW s \in Seq(S), NEW e \in S, NEW t, t = Append(s, e)
  PROVE  /\ t \in Seq(S) /\ Len(t) = Len(s) + 1 /\ t[Len(t)] = e
         /\ \A j \in 1..Len(s) : t[j] = s[j]
BY AppendProperties

\* Rows change in place.
LEMMA Mapped ==
  ASSUME NEW S, NEW s \in Seq(S), NEW t, DOMAIN t = DOMAIN s, t = [i \in DOMAIN t |-> t[i]],
         \A i \in 1..Len(s) : t[i] \in S
  PROVE  t \in Seq(S) /\ Len(t) = Len(s)
<1>1. DOMAIN s = 1..Len(s) /\ Len(s) \in Nat
  BY LenProperties
<1>2. t \in [1..Len(s) -> S]
  BY <1>1
<1> QED
  BY <1>1, <1>2, IsASeq, LenProperties

-----------------------------------------------------------------------------
\* Only the request of r changes.
Others(r) == req' \in [Requests -> Req] /\ \A q \in Requests \ {r} : req'[q] = req[q]
\* The request goes on to a point and keeps what it presented.
Moves(r, at) ==
    /\ Others(r) /\ req'[r].at = at /\ req'[r].kind = req[r].kind
    /\ req'[r].arg = req[r].arg /\ req'[r].late = req[r].late
\* The request is answered.
Stops(r) == Others(r) /\ req'[r] = Idle

\* Every way in which the handlers move a request on keeps what it presented.
LEMMA Moving ==
  ASSUME Types, NEW r \in Requests, NEW at \in Ats
  PROVE  /\ Goes(r, at) => Moves(r, at)
         /\ Ends(r, at) => Moves(r, at)
         /\ \A row \in Account : GoesWith(r, at, row) => Moves(r, at)
         /\ \A m \in Marks : req' = [req EXCEPT ![r].at = at, ![r].mfa = m] => Moves(r, at)
         /\ \A m \in Marks : req' = [req EXCEPT ![r].at = at, ![r].mfa = m, ![r].row = Id(@)]
                => Moves(r, at)
         /\ \A m \in Marks : req' = [req EXCEPT ![r].at = at, ![r].mfa = m, ![r].row = Id(@),
                                               ![r].code = 0] => Moves(r, at)
         /\ req' = [req EXCEPT ![r].at = at, ![r].setup = TRUE] => Moves(r, at)
         /\ Answers(r) => Stops(r)
<1> DEFINE q == req[r]
           Fit(m) == /\ m \in Req /\ m.at = at /\ m.kind = q.kind /\ m.arg = q.arg
                     /\ m.late = q.late
<1>1. q \in Req /\ req \in [Requests -> Req] /\ q.row \in Account /\ Id(q.row) \in Account
  <2>1. q \in Req /\ q.row \in Account
    BY DEF Types, Req
  <2> QED
    BY <2>1, OnlyId DEF Types
<1>2. ASSUME NEW m, Fit(m), req' = [req EXCEPT ![r] = m] PROVE Moves(r, at)
  BY <1>1, <1>2 DEF Moves, Others
<1>3. Goes(r, at) => Moves(r, at)
  <2>1. Fit([q EXCEPT !.at = at])
    BY <1>1 DEF Req
  <2> QED
    BY <2>1, <1>2, Zenon DEF Goes
<1>4. Ends(r, at) => Moves(r, at)
  <2>1. Fit([q EXCEPT !.at = at, !.row = Id(@), !.code = 0])
    BY <1>1, Zenon DEF Req
  <2> QED
    BY <2>1, <1>1, <1>2, Zenon DEF Ends
<1>5. ASSUME NEW row \in Account, GoesWith(r, at, row) PROVE Moves(r, at)
  <2>1. Fit([q EXCEPT !.at = at, !.row = row])
    BY <1>1, Zenon DEF Req
  <2> QED
    BY <2>1, <1>1, <1>2, <1>5, Zenon DEF GoesWith
<1>6. ASSUME NEW m \in Marks, req' = [req EXCEPT ![r].at = at, ![r].mfa = m] PROVE Moves(r, at)
  <2>1. Fit([q EXCEPT !.at = at, !.mfa = m])
    BY <1>1, Zenon DEF Req
  <2> QED
    BY <2>1, <1>1, <1>2, <1>6, Zenon
<1>7. ASSUME NEW m \in Marks, req' = [req EXCEPT ![r].at = at, ![r].mfa = m, ![r].row = Id(@)]
      PROVE  Moves(r, at)
  <2>1. Fit([q EXCEPT !.at = at, !.mfa = m, !.row = Id(@)])
    BY <1>1, Zenon DEF Req
  <2> QED
    BY <2>1, <1>1, <1>2, <1>7, Zenon
<1>8. ASSUME NEW m \in Marks, req' = [req EXCEPT ![r].at = at, ![r].mfa = m, ![r].row = Id(@),
                                               ![r].code = 0]
      PROVE  Moves(r, at)
  <2>1. Fit([q EXCEPT !.at = at, !.mfa = m, !.row = Id(@), !.code = 0])
    BY <1>1, Zenon DEF Req
  <2> QED
    BY <2>1, <1>1, <1>2, <1>8, Zenon
<1>9. ASSUME req' = [req EXCEPT ![r].at = at, ![r].setup = TRUE] PROVE Moves(r, at)
  <2>1. Fit([q EXCEPT !.at = at, !.setup = TRUE])
    BY <1>1, Truths, Zenon DEF Req
  <2> QED
    BY <2>1, <1>1, <1>2, <1>9, Zenon
<1>10. Answers(r) => Stops(r)
  BY <1>1, Nobody DEF Answers, Stops, Others
<1> QED
  BY <1>3, <1>4, <1>5, <1>6, <1>7, <1>8, <1>9, <1>10, Zenon

-----------------------------------------------------------------------------
\* The account keeps its id and whether it is active, whatever else of it changes.
SameAccount ==
    account' \in Account /\ account'.id = account.id /\ account'.active = account.active
\* No session is added, and none changes where it came from.
SameSessions ==
    /\ sessions' \in Seq(Session) /\ Len(sessions') = Len(sessions)
    /\ \A i \in 1..Len(sessions) :
          /\ sessions'[i].kind = sessions[i].kind /\ sessions'[i].from = sessions[i].from
          /\ sessions'[i].late = sessions[i].late
\* The challenges, and the codes compared against them, stay.
SameChallenges == UNCHANGED <<challenges, tested>>
\* The counters stay numbers.
Counters == ids' \in Nat /\ secrets' \in Nat /\ admin' \in Nat

\* The points before a handler has read whether the account is active.
Early == {"start", "exchange", "identity", "email", "bind", "reload", "user", "rotate",
          "revokeall"}

\* How a request may move without writing: a code reaches the comparison only past a
\* challenge that is still open, no request returns to its start, and no request passes the
\* read of an account that is disabled.
Path(r, at) ==
    /\ req[r].kind = "verify" =>
          \/ req[r].at = "start" /\ at = "user" /\ ValidMFAChallenge(challenges[req[r].arg])
          \/ req[r].at = "user" /\ at = "policy"
          \/ req[r].at = "enable" /\ at = "session"
          \/ req[r].at = "store" /\ at = "challenge"
    /\ req[r].kind \in {"callback", "consume"} => req[r].at # "start"
    /\ at # "start"
    /\ Exists /\ ~account.active /\ req[r].at \in Early => at \in Early

\* A request that compared a code answers at once only when the challenge is closed.
Free(r) ==
    req[r].kind = "verify" =>
        req[r].at # "wrong" /\ (req[r].at = "use" => ~ValidMFAChallenge(challenges[req[r].arg]))

\* The request moves on or is answered and writes nothing the properties speak of.
Quiet(r) ==
    /\ SameAccount /\ SameSessions /\ SameChallenges /\ logins' = logins /\ Counters
    /\ \/ Stops(r) /\ Free(r)
       \/ \E at \in Ats : Moves(r, at) /\ Path(r, at)

\* A request arrives; it is late when the account is disabled by then.
Arrives(r) ==
    /\ SameAccount /\ SameSessions /\ SameChallenges /\ logins' = logins /\ Counters
    /\ req[r] = Idle /\ Others(r) /\ req'[r].at = "start" /\ Presents(req'[r])
    /\ req'[r].late => Exists /\ ~account.active

\* CreateWithOptions writes a session that records what it was opened with.
Completes(r) ==
    /\ SameAccount /\ SameChallenges /\ logins' = logins /\ Counters
    /\ req[r].at = "session" /\ Stops(r)
    /\ \E s \in Session : /\ s.kind = req[r].kind /\ s.from = req[r].arg /\ s.late = req[r].late
                          /\ sessions' = Append(sessions, s)

\* NewMFAChallenge writes a fresh challenge.
Challenged(r) ==
    /\ SameAccount /\ SameSessions /\ logins' = logins /\ Counters
    /\ req[r].at = "challenge" /\ Stops(r)
    /\ tested' = Append(tested, 0)
    /\ \E c \in Challenge : /\ c.attempts = 0 /\ ~c.used /\ ~c.revoked
                            /\ challenges' = Append(challenges, c)

\* The row of logins that the request presents changes, to used and ticket.
Marks1(r, used, ticket) ==
    /\ logins' \in Seq(LoginRow) /\ Len(logins') = Len(logins)
    /\ \A l \in 1..Len(logins) : l # req[r].arg => logins'[l] = logins[l]
    /\ logins'[req[r].arg].used = used /\ logins'[req[r].arg].ticket = ticket

\* ClaimState takes a login that nobody has taken.
Claims1(r) ==
    /\ SameAccount /\ SameSessions /\ SameChallenges /\ Counters
    /\ req[r].kind = "callback" /\ req[r].at = "start" /\ Moves(r, "exchange")
    /\ ~logins[req[r].arg].used /\ Marks1(r, TRUE, logins[req[r].arg].ticket)

\* The callback creates an account where there was none.
Registers(r) ==
    /\ SameSessions /\ SameChallenges /\ logins' = logins /\ Counters
    /\ ~Exists /\ account' \in Account
    /\ req[r].kind = "callback" /\ req[r].at = "create" /\ Moves(r, "ticket")

\* StoreTicket leaves the ticket of a login it has taken.
Stores(r) ==
    /\ SameAccount /\ SameSessions /\ SameChallenges /\ Counters
    /\ req[r].kind = "callback" /\ req[r].at = "ticket" /\ Stops(r)
    /\ Marks1(r, logins[req[r].arg].used, "stored")

\* ConsumeTicket takes a stored ticket.
Consumes(r) ==
    /\ SameAccount /\ SameSessions /\ SameChallenges /\ Counters
    /\ req[r].kind = "consume" /\ req[r].at = "start" /\ Moves(r, "user")
    /\ logins[req[r].arg].ticket = "stored" /\ Marks1(r, logins[req[r].arg].used, "used")

\* VerifyCode compares a code with the secret.
Compares(r) ==
    /\ SameAccount /\ SameSessions /\ challenges' = challenges /\ logins' = logins /\ Counters
    /\ req[r].kind = "verify" /\ req[r].at = "policy"
    /\ Moves(r, "use") \/ Moves(r, "wrong")
    /\ tested' \in Seq(Int) /\ Len(tested') = Len(tested)
    /\ \A c \in 1..Len(tested) : tested'[c] = IF c = req[r].arg THEN tested[c] + 1 ELSE tested[c]

\* LoseFailedAttempt: the failure is not written, and its comparison is left out again.
Loses(r) ==
    /\ SameAccount /\ SameSessions /\ challenges' = challenges /\ logins' = logins /\ Counters
    /\ req[r].kind = "verify" /\ req[r].at = "wrong" /\ Stops(r)
    /\ tested' \in Seq(Int) /\ Len(tested') = Len(tested)
    /\ \A c \in 1..Len(tested) : tested'[c] = IF c = req[r].arg THEN tested[c] - 1 ELSE tested[c]

\* The challenge that the request presents changes; none of them is less used than before.
Touches(r) ==
    /\ challenges' \in Seq(Challenge) /\ Len(challenges') = Len(challenges)
    /\ \A c \in 1..Len(challenges) : c # req[r].arg => challenges'[c] = challenges[c]

\* RecordFailedAttempt counts a wrong code, unless the challenge is closed by then.
Fails(r) ==
    LET c == challenges[req[r].arg]
        d == challenges'[req[r].arg]
    IN  /\ SameAccount /\ SameSessions /\ tested' = tested /\ logins' = logins /\ Counters
        /\ req[r].kind = "verify" /\ req[r].at = "wrong" /\ Stops(r) /\ Touches(r)
        /\ \/ (c.used \/ c.revoked) /\ d = c
           \/ /\ ~c.used /\ ~c.revoked /\ d.attempts = c.attempts + 1 /\ ~d.used
              /\ d.expired = c.expired /\ (d.revoked <=> c.attempts + 1 >= MaxAttempts)

\* MarkUsed closes a challenge that is still open.
Spends(r) ==
    LET c == challenges[req[r].arg]
        d == challenges'[req[r].arg]
    IN  /\ SameAccount /\ SameSessions /\ tested' = tested /\ logins' = logins /\ Counters
        /\ req[r].kind = "verify" /\ req[r].at = "use" /\ Touches(r)
        /\ Moves(r, "enable") \/ Moves(r, "session")
        /\ ValidMFAChallenge(c) /\ d.used /\ d.attempts = c.attempts /\ ~d.revoked

\* What one step of a request may do.
Served(r) ==
    \/ Quiet(r) \/ Arrives(r) \/ Completes(r) \/ Challenged(r) \/ Claims1(r) \/ Registers(r)
    \/ Stores(r) \/ Consumes(r) \/ Compares(r) \/ Loses(r) \/ Fails(r) \/ Spends(r)

-----------------------------------------------------------------------------
\* What happens beside the requests: nothing that matters here.
Calm == SameAccount /\ SameSessions /\ SameChallenges /\ UNCHANGED <<logins, req>> /\ Counters

\* A login at a provider begins.
Begins ==
    /\ SameAccount /\ SameSessions /\ SameChallenges /\ req' = req /\ Counters
    /\ \E l \in LoginRow : ~l.used /\ l.ticket = "none" /\ logins' = Append(logins, l)

\* The account is created, enabled, disabled or deleted, which decides anew which requests
\* are late.
Switches ==
    /\ account' \in Account /\ SameSessions /\ SameChallenges /\ logins' = logins /\ Counters
    /\ req' \in [Requests -> Req]
    /\ \A r \in Requests : /\ req'[r].kind = req[r].kind /\ req'[r].at = req[r].at
                           /\ req'[r].arg = req[r].arg
    /\ \/ \A r \in Requests : ~req'[r].late
       \/ req' = req /\ (account.active \/ ~Exists)

\* Time passes: challenges and tickets expire.
Ages ==
    /\ SameAccount /\ SameSessions /\ tested' = tested /\ req' = req /\ Counters
    /\ challenges' \in Seq(Challenge) /\ Len(challenges') = Len(challenges)
    /\ \A c \in 1..Len(challenges) :
          /\ challenges'[c].used = challenges[c].used
          /\ challenges'[c].revoked = challenges[c].revoked
          /\ challenges'[c].attempts = challenges[c].attempts
          /\ challenges[c].expired => challenges'[c].expired
    /\ logins' \in Seq(LoginRow) /\ Len(logins') = Len(logins)
    /\ \A l \in 1..Len(logins) :
          /\ logins'[l].used = logins[l].used
          /\ \/ logins'[l].ticket = logins[l].ticket
             \/ logins[l].ticket = "stored" /\ logins'[l].ticket = "expired"

\* What happens beside the requests.
Aside == Calm \/ Begins \/ Switches \/ Ages

-----------------------------------------------------------------------------
\* What the requests that change no row but their own do.
LEMMA Still ==
  ASSUME Types, UNCHANGED <<account, sessions, challenges, logins, admin, ids, secrets, tested>>
  PROVE  SameAccount /\ SameSessions /\ SameChallenges /\ logins' = logins /\ Counters
BY DEF Types, SameAccount, SameSessions, SameChallenges, Counters

\* The steps that only read are quiet.
LEMMA Passing ==
  ASSUME Types, NEW r \in Requests,
         \/ Login(r) \/ LoginPolicy(r) \/ ExchangeCode(r) \/ FindOrCreateLarkUser(r)
         \/ FindOrCreateSSOUser(r) \/ FindByEmail(r) \/ Reload(r) \/ ConsumeUser(r)
         \/ ConsumeLarkLoginResult(r)
         \/ ResolveOIDCSSOConfig(r) \/ ConsumeSSOLoginResult(r) \/ GetChallenge(r)
         \/ VerifyUser(r) \/ RefreshPolicy(r)
  PROVE  Quiet(r)
<1>0. UNCHANGED <<account, sessions, challenges, logins, admin, ids, secrets, tested>>
  BY DEF Login, LoginPolicy, ExchangeCode, FindOrCreateLarkUser, FindOrCreateSSOUser,
     FindByEmail, Reload, ConsumeUser, ConsumeLarkLoginResult, ResolveOIDCSSOConfig,
        ConsumeSSOLoginResult, GetChallenge, VerifyUser, RefreshPolicy
<1>1. account \in Account /\ Id(account) \in Account 
  BY OnlyId DEF Types
<1> DEFINE Goal == (Stops(r) /\ Free(r)) \/ \E at \in Ats : Moves(r, at) /\ Path(r, at)
<1> SUFFICES Goal
  BY <1>0, Still DEF Quiet
<1>2. CASE Login(r)
  BY <1>1, <1>2, Moving, Zenon DEF Login, At, Free, Path, Early, Ats, Marks, Exists
<1>3. CASE LoginPolicy(r)
  BY <1>1, <1>3, Moving, Zenon DEF LoginPolicy, At, Free, Path, Early, Ats, Marks, Exists,
     AskSecondFactor
<1>4. CASE ExchangeCode(r)
  BY <1>1, <1>4, Moving, Zenon DEF ExchangeCode, At, Free, Path, Early, Ats, Marks, Exists
<1>5. CASE FindOrCreateLarkUser(r)
  BY <1>1, <1>5, Moving, Zenon DEF FindOrCreateLarkUser, At, Free, Path, Early, Ats, Marks,
     Exists
<1>6. CASE FindOrCreateSSOUser(r)
  BY <1>1, <1>6, Moving, Zenon DEF FindOrCreateSSOUser, At, Free, Path, Early, Ats, Marks,
     Exists
<1>7. CASE FindByEmail(r)
  BY <1>1, <1>7, Moving, Zenon DEF FindByEmail, At, Free, Path, Early, Ats, Marks, Exists
<1>8. CASE Reload(r)
  BY <1>1, <1>8, Moving, Zenon DEF Reload, At, Free, Path, Early, Ats, Marks, Exists
<1>9. CASE ConsumeUser(r)
  BY <1>1, <1>9, Moving, Zenon DEF ConsumeUser, At, Free, Path, Early, Ats, Marks, Exists
<1>10. CASE ConsumeLarkLoginResult(r)
  BY <1>1, <1>10, Moving, Zenon DEF ConsumeLarkLoginResult, At, Free, Path, Early, Ats, Marks,
     Exists, AskSecondFactor
<1>11. CASE ResolveOIDCSSOConfig(r)
  BY <1>1, <1>11, Moving, Zenon DEF ResolveOIDCSSOConfig, At, Free, Path, Early, Ats, Marks,
     Exists
<1>12. CASE ConsumeSSOLoginResult(r)
  BY <1>1, <1>12, Moving, Zenon DEF ConsumeSSOLoginResult, At, Free, Path, Early, Ats, Marks,
     Exists, AskSecondFactor
<1>13. CASE GetChallenge(r)
  BY <1>1, <1>13, Moving, Zenon DEF GetChallenge, At, Free, Path, Early, Ats, Marks, Exists
<1>14. CASE VerifyUser(r)
  BY <1>1, <1>14, Moving, Zenon DEF VerifyUser, At, Free, Path, Early, Ats, Marks, Exists
<1>15. CASE RefreshPolicy(r)
  BY <1>1, <1>15, Moving, Zenon DEF RefreshPolicy, At, Free, Path, Early, Ats, Marks, Exists
<1> QED
  BY <1>2, <1>3, <1>4, <1>5, <1>6, <1>7, <1>8, <1>9, <1>10, <1>11, <1>12, <1>13, <1>14, <1>15, Zenon

\* A request arrives with a row that exists, and late only for a disabled account.
LEMMA Arriving ==
  ASSUME Types, NEW r \in Requests, Arrival(r)
  PROVE  Arrives(r)
<1>0. UNCHANGED <<account, sessions, challenges, logins, admin, ids, secrets, tested>>
  BY Zenon DEF Arrival, Arrive
<1>1. SameAccount /\ SameSessions /\ SameChallenges /\ logins' = logins /\ Counters
  BY <1>0, Still
<1>2. PICK kind \in Kinds, arg \in Nat, code \in Nat :
         /\ Arrive(r, kind, arg, code)
         /\ kind = "verify" => arg \in 1..Len(challenges)
         /\ kind \in {"callback", "consume"} => arg \in 1..Len(logins)
         /\ kind = "refresh" => arg \in 1..Len(sessions)
  <2>1. /\ \A n \in Nat : 0..n \subseteq Nat /\ 1..n \subseteq Nat
        /\ {"login", "refresh", "verify", "callback", "consume"} \subseteq Kinds
        /\ Len(sessions) \in Nat /\ Len(challenges) \in Nat /\ Len(logins) \in Nat
        /\ secrets \in Nat /\ {0, 1} \subseteq Nat
    BY LenProperties DEF Types, Kinds
  <2>2. CASE \E password \in {0, 1} : Arrive(r, "login", 0, password)
    BY <2>1, <2>2
  <2>3. CASE \E s \in 1..Len(sessions) : Arrive(r, "refresh", s, 0)
    BY <2>1, <2>3
  <2>4. CASE \E c \in 1..Len(challenges), code \in 0..secrets : Arrive(r, "verify", c, code)
    BY <2>1, <2>4
  <2>5. CASE \E l \in 1..Len(logins), kind \in {"callback", "consume"} : Arrive(r, kind, l, 0)
    BY <2>1, <2>5
  <2> QED
    BY <2>2, <2>3, <2>4, <2>5 DEF Arrival
<1> DEFINE late == Exists /\ ~account.active
           new  == [Idle EXCEPT !.kind = kind, !.at = "start", !.arg = arg, !.code = code,
                                !.late = late]
<1>3. late \in BOOLEAN
  OBVIOUS
<1> HIDE DEF late
<1>4. /\ new \in Req /\ new.kind = kind /\ new.arg = arg /\ new.at = "start" /\ new.late = late
  BY <1>3, Nobody, Zenon DEF Req, Kinds, Ats
<1>5. req' = [req EXCEPT ![r] = new] /\ req[r] = Idle
  BY <1>2 DEF Arrive, late
<1> HIDE DEF new
<1>6. req'[r] = new /\ Others(r)
  BY <1>4, <1>5 DEF Others, Types
<1>7. req'[r].late => Exists /\ ~account.active
  BY <1>4, <1>6, Zenon DEF late
<1> QED
  BY <1>1, <1>2, <1>4, <1>5, <1>6, <1>7 DEF Arrives, Presents


\* The steps that write a secret or an identity leave the account's id and state alone.
LEMMA Writing ==
  ASSUME Types, NEW r \in Requests, StartMFASetup(r) \/ BindIdentity(r) \/ EnableAfterVerify(r)
  PROVE  Quiet(r)
<1>0. UNCHANGED <<sessions, challenges, logins, admin, ids, tested>> /\ secrets' \in Nat
  BY DEF StartMFASetup, BindIdentity, EnableAfterVerify, Types
<1>1. SameSessions /\ SameChallenges /\ logins' = logins /\ Counters
  BY <1>0 DEF SameSessions, SameChallenges, Counters, Types
<1> DEFINE Fit(row) == row \in Account /\ row.id = account.id /\ row.active = account.active
<1>2. account \in Account /\ secrets + 1 \in Nat
  BY DEF Types
<1>3. Fit(account) /\ Fit(StoreMFASecret(account))
  BY <1>2, Truths, Zenon DEF StoreMFASecret, Account
<1>4. Fit(BindExternalIdentity(account)) /\ Fit(BindLarkIdentity(account))
  BY <1>2, Truths, Zenon DEF BindExternalIdentity, BindLarkIdentity, Account
<1>5. Fit(EnableMFA(account))
  <2>1. (account.secret # 0) \in BOOLEAN
    OBVIOUS
  <2> QED
    BY <1>2, <2>1, Zenon DEF EnableMFA, Account
<1>6. SameAccount
  <2>1. account' = account \/ account' = StoreMFASecret(account)
        \/ account' = BindExternalIdentity(account) \/ account' = BindLarkIdentity(account)
        \/ account' = EnableMFA(account)
    BY DEF StartMFASetup, BindIdentity, EnableAfterVerify, UpdateUser
  <2> QED
    BY <2>1, <1>3, <1>4, <1>5 DEF SameAccount
<1>7. \E at \in Ats : Moves(r, at) /\ Path(r, at)
  <2>1. CASE StartMFASetup(r)
    BY <2>1, Moving, Zenon DEF StartMFASetup, Path, Early, Ats
  <2>2. CASE BindIdentity(r)
    BY <2>2, Moving, Zenon DEF BindIdentity, At, Path, Early, Ats
  <2>3. CASE EnableAfterVerify(r)
    BY <2>3, Moving, Zenon DEF EnableAfterVerify, At, Path, Early, Ats
  <2> QED
    BY <2>1, <2>2, <2>3
<1> QED
  BY <1>1, <1>6, <1>7 DEF Quiet

\* The rows of the tables are of their types.
LEMMA Rows ==
  ASSUME Types
  PROVE  /\ \A i \in DOMAIN sessions : i \in 1..Len(sessions) /\ sessions[i] \in Session
         /\ \A i \in DOMAIN challenges : i \in 1..Len(challenges) /\ challenges[i] \in Challenge
         /\ \A i \in DOMAIN logins : i \in 1..Len(logins) /\ logins[i] \in LoginRow
         /\ DOMAIN sessions = 1..Len(sessions) /\ DOMAIN challenges = 1..Len(challenges)
         /\ DOMAIN logins = 1..Len(logins)
BY ElementOfSeq, LenProperties DEF Types

\* A session row that is revoked, or ages, keeps what it was made from.
Alike(s, t) == t \in Session /\ t.kind = s.kind /\ t.from = s.from /\ t.late = s.late

\* Revoking and ageing a session row keep where it came from.
LEMMA Revoking ==
  ASSUME NEW s \in Session
  PROVE  /\ Alike(s, s) /\ Alike(s, RevokeRow(s)) /\ Alike(s, [s EXCEPT !.revoked = "old"])
         /\ Alike(s, [s EXCEPT !.expired = TRUE])
         /\ Alike(s, [s EXCEPT !.id = 0, !.revoked = "old"])
BY Truths, Zenon DEF Alike, RevokeRow, Session

\* Changing one session row that way keeps all of them.
LEMMA OneSession ==
  ASSUME Types, NEW i \in DOMAIN sessions, NEW s, Alike(sessions[i], s),
         sessions' = [sessions EXCEPT ![i] = s]
  PROVE  SameSessions
<1>1. i \in 1..Len(sessions) /\ sessions \in Seq(Session) /\ s \in Session
  BY Rows DEF Types, Alike
<1>2. /\ sessions' \in Seq(Session) /\ Len(sessions') = Len(sessions) /\ sessions'[i] = s
      /\ \A j \in 1..Len(sessions) : j # i => sessions'[j] = sessions[j]
  BY <1>1, Put
<1> QED
  BY <1>1, <1>2 DEF SameSessions, Alike

\* RevokeAllForUser keeps where the sessions came from.
LEMMA RevokingAll ==
  ASSUME Types, NEW id, RevokeAllForUser(id)
  PROVE  SameSessions
<1> DEFINE f(i) == IF sessions[i].id = id THEN RevokeRow(sessions[i]) ELSE sessions[i]
<1>1. \A i \in DOMAIN sessions : Alike(sessions[i], f(i))
  BY Rows, Revoking, Zenon
<1>2. sessions' = [i \in DOMAIN sessions |-> f(i)]
  BY DEF RevokeAllForUser
<1> HIDE DEF f
<1>3. /\ DOMAIN sessions' = DOMAIN sessions
      /\ \A i \in 1..Len(sessions) : sessions'[i] = f(i) /\ Alike(sessions[i], sessions'[i])
      /\ sessions' = [i \in DOMAIN sessions' |-> sessions'[i]]
  BY Rows, <1>1, <1>2
<1>4. sessions' \in Seq(Session) /\ Len(sessions') = Len(sessions)
  BY <1>3, Mapped, Zenon DEF Types, Alike
<1> QED
  BY <1>3, <1>4 DEF SameSessions, Alike

\* A refresh revokes old sessions and moves on to a new one.
LEMMA Refreshing ==
  ASSUME Types, NEW r \in Requests,
         Refresh(r) \/ RevokeSessionRow(r) \/ RefreshUser(r) \/ RevokeAllStep(r)
  PROVE  Quiet(r)
<1>0. UNCHANGED <<account, challenges, logins, admin, ids, secrets, tested>>
  BY DEF Refresh, RevokeSessionRow, RefreshUser, RevokeAllStep
<1>1. SameAccount /\ SameChallenges /\ logins' = logins /\ Counters
  BY <1>0 DEF SameAccount, SameChallenges, Counters, Types
<1>2. req[r].kind = "refresh" => /\ req[r].arg \in DOMAIN sessions
                                 /\ sessions[req[r].arg] \in Session
  BY Rows DEF Types, Presents
<1> DEFINE Goal == (Stops(r) /\ Free(r)) \/ \E at \in Ats : Moves(r, at) /\ Path(r, at)
           s == sessions[req[r].arg]
<1>3. UNCHANGED sessions => SameSessions
  BY Zenon DEF SameSessions, Types
<1>4. CASE Refresh(r)
  <2>1. Id(s) \in Account /\ s.mfa \in Marks
    <3>1. s.id \in Nat /\ s.mfa \in Marks
      BY <1>2, <1>4, Zenon DEF Refresh, At, Session
    <3>2. Id(s) \in Account
      BY <3>1, Nobody DEF Id, Account
    <3> QED
      BY <3>1, <3>2, Zenon
  <2>2. Goal
    BY <2>1, <1>4, Moving, Zenon DEF Refresh, At, Free, Path, Early, Ats
  <2> QED
    BY <2>2, <1>1, <1>3, <1>4, Zenon DEF Quiet, Refresh
<1>5. CASE RevokeSessionRow(r)
  <2>1. SameSessions
    <3>1. Alike(s, RevokeRow(s)) /\ req[r].arg \in DOMAIN sessions
      BY <1>2, <1>5, Revoking, Zenon DEF RevokeSessionRow, At
    <3>2. sessions' = [sessions EXCEPT ![req[r].arg] = RevokeRow(s)] \/ UNCHANGED sessions
      BY <1>5 DEF RevokeSessionRow
    <3> QED
      BY <1>3, <3>1, <3>2, OneSession, Zenon
  <2>2. Goal
    BY <1>5, Moving, Zenon DEF RevokeSessionRow, At, Free, Path, Early, Ats
  <2> QED
    BY <2>1, <2>2, <1>1 DEF Quiet
<1>6. CASE RefreshUser(r)
  <2>1. account \in Account
    BY DEF Types
  <2>2. Goal
    BY <2>1, <1>6, Moving, Zenon DEF RefreshUser, At, Free, Path, Early, Ats
  <2> QED
    BY <2>2, <1>1, <1>3, <1>6 DEF Quiet, RefreshUser
<1>7. CASE RevokeAllStep(r)
  <2>1. SameSessions /\ Stops(r) /\ Free(r)
    <3>1. RevokeAllForUser(req[r].row.id) /\ Answers(r)
      BY <1>7 DEF RevokeAllStep
    <3>2. SameSessions
      BY <3>1, RevokingAll, Zenon
    <3>3. "idle" \in Ats /\ Free(r)
      BY <1>7 DEF Ats, Free, RevokeAllStep
    <3> QED
      BY <3>1, <3>2, <3>3, Moving, Zenon
  <2> QED
    BY <2>1, <1>1 DEF Quiet
<1> QED
  BY <1>4, <1>5, <1>6, <1>7, Zenon

\* An answer ends the request.
LEMMA Answering ==
  ASSUME Types, NEW r \in Requests, Answers(r)
  PROVE  Stops(r)
<1>1. "idle" \in Ats
  BY DEF Ats
<1> QED
  BY <1>1, Moving, Zenon

\* A login ends in a session or in a challenge for the second factor.
LEMMA Ending ==
  ASSUME Types, NEW r \in Requests, CompleteLogin(r) \/ NewMFAChallenge(r)
  PROVE  Completes(r) \/ Challenged(r)
<1>0. UNCHANGED <<account, logins, admin, ids, secrets>> /\ Stops(r)
  BY Answering DEF CompleteLogin, NewMFAChallenge
<1>1. SameAccount /\ logins' = logins /\ Counters
  BY <1>0 DEF SameAccount, Counters, Types
<1>2. req[r] \in Req /\ req[r].row \in Account /\ req[r].row.id \in Nat
  BY Zenon DEF Types, Req, Account
<1>3. CASE CompleteLogin(r)
  <2> DEFINE s == [id |-> req[r].row.id, revoked |-> "no", expired |-> FALSE, mfa |-> req[r].mfa,
                   kind |-> req[r].kind, from |-> req[r].arg, late |-> req[r].late]
  <2>1. /\ s \in Session /\ s.kind = req[r].kind /\ s.from = req[r].arg /\ s.late = req[r].late
    BY <1>2, Truths, Zenon DEF Session, Req
  <2>2. sessions' = Append(sessions, s) /\ SameChallenges /\ req[r].at = "session"
    BY <1>3 DEF CompleteLogin, CreateWithOptions, SameChallenges
  <2> HIDE DEF s
  <2> QED
    BY <1>0, <1>1, <2>1, <2>2, Zenon DEF Completes
<1>4. CASE NewMFAChallenge(r)
  <2> DEFINE c == MFAChallenge(req[r].row.id, req[r].setup)
  <2>1. c \in Challenge /\ c.attempts = 0 /\ ~c.used /\ ~c.revoked
    BY <1>2, Truths, Zenon DEF Challenge, Req, MFAChallenge
  <2>2. /\ challenges' = Append(challenges, c) /\ tested' = Append(tested, 0) /\ SameSessions
        /\ req[r].at = "challenge"
    BY <1>4, Zenon DEF NewMFAChallenge, SameSessions, Types
  <2> HIDE DEF c
  <2> QED
    BY <1>0, <1>1, <2>1, <2>2, Zenon DEF Challenged
<1> QED
  BY <1>3, <1>4, Zenon

\* The row of logins that a request presents.
LEMMA Marking ==
  ASSUME Types, NEW r \in Requests, req[r].kind \in {"callback", "consume"},
         NEW l, l \in LoginRow, logins' = [logins EXCEPT ![req[r].arg] = l]
  PROVE  Marks1(r, l.used, l.ticket)
<1>1. logins \in Seq(LoginRow) /\ req[r].arg \in 1..Len(logins)
  BY Zenon DEF Types, Presents
<1> QED
  BY <1>1, Put DEF Marks1

\* A callback takes its login once, stores its ticket once; a ticket is redeemed once.
LEMMA Claiming ==
  ASSUME Types, NEW r \in Requests,
         CompleteExternalLogin(r) \/ StoreTicket(r) \/ ConsumeTicket(r)
  PROVE  Claims1(r) \/ Stores(r) \/ Consumes(r) \/ Quiet(r)
<1>0. UNCHANGED <<account, sessions, challenges, admin, ids, secrets, tested>>
  BY DEF CompleteExternalLogin, StoreTicket, ConsumeTicket
<1>1. SameAccount /\ SameSessions /\ SameChallenges /\ Counters
  BY <1>0, Zenon DEF SameAccount, SameSessions, SameChallenges, Counters, Types
<1>2. req[r].kind \in {"callback", "consume"}
  BY Zenon DEF CompleteExternalLogin, StoreTicket, ConsumeTicket, At
<1> DEFINE l == logins[req[r].arg]
           id == req[r].row.id
<1>3. l \in LoginRow /\ id \in Nat /\ req[r].arg \in DOMAIN logins
  BY <1>2, Rows, Zenon DEF Types, Presents, Req, Account
<1>4. CASE Answers(r) /\ UNCHANGED logins
  BY <1>1, <1>2, <1>4, Answering DEF Quiet, Free
<1>5. CASE CompleteExternalLogin(r) /\ ClaimState(l)
  <2> DEFINE m == [l EXCEPT !.used = TRUE]
  <2>1. m \in LoginRow /\ m.used = TRUE /\ m.ticket = l.ticket
    BY <1>3, Truths, Zenon DEF LoginRow
  <2>2. logins' = [logins EXCEPT ![req[r].arg] = m]
    BY <1>5, <1>3 DEF CompleteExternalLogin
  <2> HIDE DEF m
  <2>3. Marks1(r, TRUE, l.ticket)
    BY <2>1, <2>2, <1>2, Marking, Zenon
  <2> QED
    BY <1>1, <1>5, <2>3, Moving, Zenon DEF CompleteExternalLogin, Claims1, ClaimState, At, Ats
<1>6. CASE StoreTicket(r)
  <2> DEFINE m == [l EXCEPT !.id = id, !.ticket = "stored"]
  <2>1. m \in LoginRow /\ m.used = l.used /\ m.ticket = "stored"
    BY <1>3, Zenon DEF LoginRow, Tickets
  <2>2. logins' = [logins EXCEPT ![req[r].arg] = m]
    BY <1>6, <1>3, Zenon DEF StoreTicket
  <2> HIDE DEF m
  <2>3. Marks1(r, l.used, "stored")
    BY <2>1, <2>2, <1>2, Marking, Zenon
  <2> QED
    BY <1>1, <1>6, <2>3, Answering DEF StoreTicket, Stores, At
<1>7. CASE ConsumeTicket(r) /\ l.ticket = "stored"
  <2> DEFINE m == [l EXCEPT !.ticket = "used"]
  <2>1. m \in LoginRow /\ m.used = l.used /\ m.ticket = "used"
    BY <1>3 DEF LoginRow, Tickets
  <2>2. logins' = [logins EXCEPT ![req[r].arg] = m]
    BY <1>7, <1>3 DEF ConsumeTicket
  <2> HIDE DEF m
  <2>3. Marks1(r, l.used, "used")
    BY <2>1, <2>2, <1>2, Marking, Zenon
  <2> QED
    BY <1>1, <1>7, <2>3, Moving, Zenon DEF ConsumeTicket, Consumes, At, Ats
<1> QED
  BY <1>4, <1>5, <1>6, <1>7, Zenon DEF CompleteExternalLogin, ConsumeTicket

\* A callback creates an account only where there is none.
LEMMA Creating ==
  ASSUME Types, NEW r \in Requests, CreateDeveloper(r)
  PROVE  Registers(r) \/ Quiet(r)
<1>0. UNCHANGED <<sessions, challenges, logins, admin, secrets, tested>> /\ ids' \in Nat
  BY DEF CreateDeveloper, Types
<1>1. SameSessions /\ SameChallenges /\ logins' = logins /\ Counters
  BY <1>0, Zenon DEF SameSessions, SameChallenges, Counters, Types
<1>2. CASE Exists
  BY <1>1, <1>2, Answering, Zenon DEF CreateDeveloper, At, Free, Quiet, SameAccount, Types
<1>3. CASE ~Exists
  <2>1. NewDeveloper \in Account
    <3>1. ids + 1 \in Nat
      BY DEF Types
    <3> QED
      BY <3>1, Nobody, Truths, Zenon DEF NewDeveloper, Account
  <2>2. CreateLarkDeveloper \in Account /\ CreateSSODeveloper \in Account
    BY <2>1, Truths, Zenon DEF CreateLarkDeveloper, CreateSSODeveloper, BindLarkIdentity,
                        BindExternalIdentity, Account
  <2>3. Moves(r, "ticket")
    BY <1>3, <2>1, OnlyId, Moving, Zenon DEF CreateDeveloper, Ats
  <2> QED
    BY <1>1, <1>3, <2>2, <2>3 DEF CreateDeveloper, Registers, At
<1> QED
  BY <1>2, <1>3

\* The challenge that a request presents.
LEMMA Touching ==
  ASSUME Types, NEW r \in Requests, req[r].kind = "verify",
         NEW c, c \in Challenge, challenges' = [challenges EXCEPT ![req[r].arg] = c]
  PROVE  Touches(r) /\ challenges'[req[r].arg] = c
<1>1. challenges \in Seq(Challenge) /\ req[r].arg \in 1..Len(challenges)
  BY Zenon DEF Types, Presents
<1> QED
  BY <1>1, Put DEF Touches

\* A code is compared, and then the challenge is closed or the failure counted.
LEMMA Verifying ==
  ASSUME Types, NEW r \in Requests,
         VerifyCode(r) \/ RecordFailedAttempt(r) \/ LoseFailedAttempt(r) \/ MarkUsed(r)
  PROVE  Compares(r) \/ Loses(r) \/ Fails(r) \/ Spends(r) \/ Quiet(r)
<1>0. UNCHANGED <<account, sessions, logins, admin, ids, secrets>>
  BY Zenon DEF VerifyCode, RecordFailedAttempt, LoseFailedAttempt, MarkUsed
<1>1. SameAccount /\ SameSessions /\ logins' = logins /\ Counters
  BY <1>0 DEF SameAccount, SameSessions, Counters, Types
<1>2. req[r].kind = "verify"
  BY Zenon DEF VerifyCode, RecordFailedAttempt, LoseFailedAttempt, MarkUsed, At
<1> DEFINE n == req[r].arg
           c == challenges[n]
<1>3. /\ c \in Challenge /\ n \in DOMAIN challenges
      /\ n \in 1..Len(tested) /\ n \in 1..Len(challenges)
  BY <1>2, Rows, Zenon DEF Types, Presents
<1>4. CASE Answers(r) /\ UNCHANGED <<challenges, tested>>
         /\ ~RecordFailedAttempt(r) /\ ~LoseFailedAttempt(r) /\ ~(MarkUsed(r) /\ ValidMFAChallenge(c))
  <2>1. Free(r)
    BY <1>4, Zenon DEF Free, VerifyCode, MarkUsed, At
  <2> QED
    BY <1>1, <1>4, <2>1, Answering DEF Quiet, SameChallenges
<1>5. CASE VerifyCode(r) /\ ~(Answers(r) /\ UNCHANGED tested)
  <2>1. tested' = [tested EXCEPT ![n] = tested[n] + 1] /\ challenges' = challenges
    BY <1>5 DEF VerifyCode
  <2>2. tested \in Seq(Int) /\ tested[n] + 1 \in Int
    BY <1>3, ElementOfSeq DEF Types
  <2>3. /\ tested' \in Seq(Int) /\ Len(tested') = Len(tested) /\ tested'[n] = tested[n] + 1
        /\ \A j \in 1..Len(tested) : j # n => tested'[j] = tested[j]
    BY <2>1, <2>2, <1>3, Put
  <2>4. Moves(r, "use") \/ Moves(r, "wrong")
    BY <1>5, Moving, Zenon DEF VerifyCode, Ats
  <2>5. \A j \in 1..Len(tested) : tested'[j] = IF j = n THEN tested[j] + 1 ELSE tested[j]
    BY <2>3, Zenon
  <2> QED
    BY <1>1, <1>5, <2>1, <2>3, <2>4, <2>5, Zenon DEF VerifyCode, Compares, At
<1>6. CASE RecordFailedAttempt(r)
  <2>1. /\ At(r, {"verify"}, "wrong") /\ Stops(r) /\ tested' = tested
    BY <1>6, Answering, Zenon DEF RecordFailedAttempt
  <2>2. CASE c.used \/ c.revoked
    <3>1. challenges' = challenges
      BY <1>6, <2>2 DEF RecordFailedAttempt
    <3>2. Touches(r) /\ challenges'[n] = c
      BY <3>1, Zenon DEF Touches, Types
    <3> QED
      BY <1>1, <2>1, <2>2, <3>2, Zenon DEF Fails, At
  <2>3. CASE ~(c.used \/ c.revoked)
    <3> DEFINE full == c.attempts + 1 >= MaxAttempts
               d == [c EXCEPT !.attempts = @ + 1, !.revoked = full]
    <3>1. full \in BOOLEAN /\ c.attempts + 1 \in Nat
      BY <1>3, SMTT(60) DEF Challenge
    <3>2. challenges' = [challenges EXCEPT ![n] = d]
      BY <1>6, <2>3, <1>3, Zenon DEF RecordFailedAttempt
    <3> HIDE DEF full
    <3>3. /\ d \in Challenge /\ d.attempts = c.attempts + 1 /\ d.used = c.used
          /\ d.expired = c.expired /\ d.revoked = full
      BY <1>3, <3>1, Zenon DEF Challenge
    <3> HIDE DEF d
    <3>4. Touches(r) /\ challenges'[n] = d
      BY <3>2, <3>3, <1>2, Touching, Zenon
    <3>5. d.revoked <=> c.attempts + 1 >= MaxAttempts
      BY <3>3, Zenon DEF full
    <3> QED
      BY <1>1, <2>1, <2>3, <3>3, <3>4, <3>5, Zenon DEF Fails, At
  <2> QED
    BY <2>2, <2>3, Zenon
<1>10. CASE LoseFailedAttempt(r)
  <2>1. /\ tested' = [tested EXCEPT ![n] = tested[n] - 1] /\ challenges' = challenges
        /\ At(r, {"verify"}, "wrong") /\ Stops(r)
    BY <1>10, Answering, Zenon DEF LoseFailedAttempt
  <2>2. tested \in Seq(Int) /\ tested[n] - 1 \in Int
    BY <1>3, ElementOfSeq DEF Types
  <2>3. /\ tested' \in Seq(Int) /\ Len(tested') = Len(tested) /\ tested'[n] = tested[n] - 1
        /\ \A j \in 1..Len(tested) : j # n => tested'[j] = tested[j]
    BY <2>1, <2>2, <1>3, Put
  <2>4. \A j \in 1..Len(tested) : tested'[j] = IF j = n THEN tested[j] - 1 ELSE tested[j]
    BY <2>3, Zenon
  <2> QED
    BY <1>1, <2>1, <2>3, <2>4, Zenon DEF Loses, At
<1>7. CASE MarkUsed(r) /\ ValidMFAChallenge(c)
  <2> DEFINE d == [c EXCEPT !.used = TRUE]
  <2>1. d \in Challenge /\ d.used = TRUE /\ d.attempts = c.attempts /\ d.revoked = c.revoked
    BY <1>3, Truths, Zenon DEF Challenge
  <2>2. challenges' = [challenges EXCEPT ![n] = d]
    BY <1>7, <1>3, Zenon DEF MarkUsed
  <2> HIDE DEF d
  <2>3. Touches(r) /\ challenges'[n] = d
    BY <2>1, <2>2, <1>2, Touching, Zenon
  <2>4. "totp" \in Marks /\ "enable" \in Ats /\ "session" \in Ats
    BY DEF Marks, Ats
  <2>5. Moves(r, "enable") \/ Moves(r, "session")
    <3> DEFINE at == IF c.setup \/ ~req[r].row.mfa THEN "enable" ELSE "session"
    <3>1. at = "enable" \/ at = "session"
      OBVIOUS
    <3>2. req' = [req EXCEPT ![r].at = at, ![r].mfa = "totp", ![r].row = Id(@), ![r].code = 0]
      BY <1>7, Zenon DEF MarkUsed
    <3> HIDE DEF at
    <3>3. at \in Ats
      BY <3>1, <2>4
    <3>4. Moves(r, at)
      BY <3>2, <3>3, <2>4, Moving, Zenon
    <3> QED
      BY <3>1, <3>4
  <2>6. ~d.revoked /\ tested' = tested /\ At(r, {"verify"}, "use")
    BY <1>7, <2>1, Zenon DEF ValidMFAChallenge, MarkUsed
  <2> QED
    BY <1>1, <1>7, <2>1, <2>3, <2>5, <2>6 DEF Spends, At
<1>8. VerifyCode(r) => challenges' = challenges
  BY DEF VerifyCode
<1>9. MarkUsed(r) => /\ tested' = tested /\ At(r, {"verify"}, "use")
                     /\ ~ValidMFAChallenge(c) => Answers(r) /\ challenges' = challenges
  BY Zenon DEF MarkUsed
<1> QED
  BY <1>4, <1>5, <1>6, <1>7, <1>8, <1>9, <1>10

\* Every step of a request has one of the forms above.
LEMMA StepForms ==
  ASSUME Types, NEW r \in Requests, Step(r)
  PROVE  Served(r)
BY Passing, Arriving, Writing, Refreshing, Ending, Claiming, Creating, Verifying
   DEF Step, Served

-----------------------------------------------------------------------------
\* StartLarkLogin and StartSSOLogin begin a login.
LEMMA Beginning ==
  ASSUME Types, StartLarkLogin \/ StartSSOLogin
  PROVE  Begins
<1>1. PICK provider \in {"lark", "oidc"} : ExternalLogin(provider)
  BY Zenon DEF StartLarkLogin, StartSSOLogin
<1> DEFINE l == [provider |-> provider, used |-> FALSE, expired |-> FALSE, id |-> 0,
                 ticket |-> "none"]
<1>2. l \in LoginRow /\ ~l.used /\ l.ticket = "none"
  BY Truths, Zenon DEF LoginRow, Tickets
<1>3. /\ UNCHANGED <<account, sessions, challenges, req, admin, ids, secrets, tested>>
      /\ logins' = Append(logins, l)
  BY <1>1 DEF ExternalLogin
<1> HIDE DEF l
<1>4. SameAccount /\ SameSessions /\ SameChallenges /\ Counters
  BY <1>3 DEF SameAccount, SameSessions, SameChallenges, Counters, Types
<1> QED
  BY <1>2, <1>3, <1>4 DEF Begins

\* Logging out and revoking sessions by hand open none.
LEMMA RevokingByHand ==
  ASSUME Types, RevokeOne \/ RevokeEvery \/ RevokeAfterChange
  PROVE  Calm
<1>1. UNCHANGED <<account, challenges, logins, req, ids, secrets, tested>> /\ admin' \in Nat
  BY DEF RevokeOne, RevokeEvery, RevokeAfterChange, Types
<1>2. SameSessions
  <2>1. CASE RevokeOne
    <3>1. PICK i \in DOMAIN sessions : sessions' = [sessions EXCEPT ![i] = RevokeRow(sessions[i])]
      BY <2>1, Zenon DEF RevokeOne
    <3>2. Alike(sessions[i], RevokeRow(sessions[i]))
      BY Rows, Revoking, Zenon
    <3> QED
      BY <3>1, <3>2, OneSession, Zenon
  <2>2. CASE RevokeEvery \/ RevokeAfterChange
    BY <2>2, RevokingAll, Zenon DEF RevokeEvery, RevokeAfterChange
  <2> QED
    BY <2>1, <2>2
<1> QED
  BY <1>1, <1>2, Zenon DEF Calm, SameAccount, SameChallenges, Counters, Types

\* Changing the second factor, the group or the trust in a provider is calm.
LEMMA Settings ==
  ASSUME Types, ClearMFA \/ SetAdminGroup \/ SetTrustMFA
  PROVE  Calm
<1>1. UNCHANGED <<sessions, challenges, logins, req, ids, secrets, tested>> /\ admin' \in Nat
  BY DEF ClearMFA, SetAdminGroup, SetTrustMFA, Types, Account
<1> DEFINE Fit(row) == row \in Account /\ row.id = account.id /\ row.active = account.active
<1>2. account \in Account /\ (~account.admin) \in BOOLEAN
  BY DEF Types
<1>3. Fit(account) /\ Fit([account EXCEPT !.secret = 0, !.mfa = FALSE])
  BY <1>2, Truths, Zenon DEF Account
<1>4. Fit([account EXCEPT !.admin = ~@])
  BY <1>2, Zenon DEF Account
<1>5. SameAccount
  BY <1>3, <1>4, Zenon DEF SameAccount, ClearMFA, SetAdminGroup, SetTrustMFA
<1> QED
  BY <1>1, <1>5 DEF Calm, SameSessions, SameChallenges, Counters, Types

\* Creating, enabling, disabling and deleting the account.
LEMMA Switching ==
  ASSUME Types, CreateUser \/ SetActive(TRUE) \/ SetActive(FALSE) \/ DeleteUser
  PROVE  Switches
<1>0. account.id \in Nat /\ ids \in Nat /\ ids + 1 \in Nat /\ admin \in Nat /\ 0 \in Nat
  BY DEF Types, Account
<1>1. /\ UNCHANGED <<challenges, logins, secrets, tested>>
      /\ ids' \in Nat /\ admin' \in Nat
  <2>1. CASE CreateUser
    BY <1>0, <2>1 DEF CreateUser
  <2>2. CASE SetActive(TRUE)
    BY <1>0, <2>2 DEF SetActive
  <2>3. CASE SetActive(FALSE)
    BY <1>0, <2>3 DEF SetActive
  <2>4. CASE DeleteUser
    BY <1>0, <2>4, Zenon DEF DeleteUser
  <2> QED
    BY <2>1, <2>2, <2>3, <2>4, Zenon
<1> DEFINE Same(q) == [q EXCEPT !.late = FALSE]
<1>2. ASSUME NEW q \in Req
      PROVE  /\ Same(q) \in Req /\ Same(q).kind = q.kind /\ Same(q).at = q.at
             /\ Same(q).arg = q.arg /\ Same(q).late = FALSE
  BY <1>2, Truths, Zenon DEF Req
<1>3. req \in [Requests -> Req] /\ account \in Account
  BY DEF Types
<1> DEFINE Cleared == req' = [r \in Requests |-> Same(req[r])]
<1>4. Cleared => /\ req' \in [Requests -> Req]
                 /\ \A r \in Requests : /\ req'[r].kind = req[r].kind /\ req'[r].at = req[r].at
                                        /\ req'[r].arg = req[r].arg /\ ~req'[r].late
  <2> SUFFICES ASSUME Cleared
               PROVE  /\ req' \in [Requests -> Req]
                      /\ \A r \in Requests : /\ req'[r].kind = req[r].kind
                                             /\ req'[r].at = req[r].at
                                             /\ req'[r].arg = req[r].arg /\ ~req'[r].late
    OBVIOUS
  <2>1. \A r \in Requests : req[r] \in Req /\ req'[r] = Same(req[r])
    BY <1>3
  <2> HIDE DEF Same
  <2> QED
    BY <1>2, <2>1, Zenon
<1>5. SameSessions
  <2>1. CASE ~DeleteUser
    BY <2>1, Zenon DEF CreateUser, SetActive, SameSessions, Types
  <2>2. CASE DeleteUser
    <3> DEFINE f(i) == IF sessions[i].id = account.id
                       THEN [sessions[i] EXCEPT !.id = 0, !.revoked = "old"] ELSE sessions[i]
    <3>1. \A i \in DOMAIN sessions : Alike(sessions[i], f(i))
      BY Rows, Revoking, Zenon
    <3>2. sessions' = [i \in DOMAIN sessions |-> f(i)]
      BY <2>2, Zenon DEF DeleteUser
    <3> HIDE DEF f
    <3>3. /\ DOMAIN sessions' = DOMAIN sessions
          /\ \A i \in 1..Len(sessions) : sessions'[i] = f(i) /\ Alike(sessions[i], sessions'[i])
          /\ sessions' = [i \in DOMAIN sessions' |-> sessions'[i]]
      BY Rows, <3>1, <3>2
    <3>4. sessions' \in Seq(Session) /\ Len(sessions') = Len(sessions)
      BY <3>3, Mapped, Zenon DEF Types, Alike
    <3> QED
      BY <3>3, <3>4 DEF SameSessions, Alike
  <2> QED
    BY <2>1, <2>2
<1>6. account' \in Account
  <2>1. ids + 1 \in Nat
    BY DEF Types
  <2>2. [NoAccount EXCEPT !.id = ids + 1, !.active = TRUE] \in Account
    BY <2>1, Nobody, Truths, Zenon DEF Account
  <2>3. \A b \in BOOLEAN : [account EXCEPT !.active = b] \in Account
    BY <1>3 DEF Account
  <2> QED
    BY <2>2, <2>3, Nobody, Truths, Zenon DEF CreateUser, SetActive, DeleteUser
<1>7. Cleared \/ (req' = req /\ (account.active \/ ~Exists))
  <2>1. CASE CreateUser
    BY <2>1 DEF CreateUser
  <2>2. CASE SetActive(TRUE)
    BY <2>2 DEF SetActive
  <2>3. CASE SetActive(FALSE)
    <3>1. req' = req
      BY <2>3, <1>3 DEF SetActive
    <3>2. account.active
      BY <2>3, <1>3, Zenon DEF SetActive, Account
    <3> QED
      BY <3>1, <3>2
  <2>4. CASE DeleteUser
    BY <2>4, Zenon DEF DeleteUser
  <2> QED
    BY <2>1, <2>2, <2>3, <2>4, Zenon
<1> HIDE DEF Cleared
<1> QED
  BY <1>1, <1>3, <1>4, <1>5, <1>6, <1>7, SMTT(60) DEF Switches, SameChallenges, Counters, Types

\* Time closes challenges and tickets and opens none.
LEMMA Aging ==
  ASSUME Types, Later
  PROVE  Calm \/ Ages
<1>1. UNCHANGED <<account, req, admin, ids, secrets, tested>> /\ SameAccount /\ Counters
  BY DEF Later, SameAccount, Counters, Types
<1>2. CASE UNCHANGED <<challenges, logins>>
  <2>1. SameSessions
    <3>1. CASE UNCHANGED sessions
      BY <3>1 DEF SameSessions, Types
    <3>2. ASSUME NEW i \in DOMAIN sessions,
                 \/ sessions' = [sessions EXCEPT ![i].revoked = "old"]
                 \/ sessions' = [sessions EXCEPT ![i].expired = TRUE]
          PROVE  SameSessions
      <4> DEFINE s == sessions[i]
      <4>1. s \in Session
        BY Rows
      <4>2. /\ Alike(s, [s EXCEPT !.revoked = "old"]) /\ Alike(s, [s EXCEPT !.expired = TRUE])
            /\ \/ sessions' = [sessions EXCEPT ![i] = [s EXCEPT !.revoked = "old"]]
               \/ sessions' = [sessions EXCEPT ![i] = [s EXCEPT !.expired = TRUE]]
        BY <3>2, <4>1, Revoking, Zenon
      <4> QED
        BY <4>2, OneSession, Zenon
    <3> QED
      BY <3>1, <3>2, Zenon DEF Later
  <2> QED
    BY <1>1, <1>2, <2>1 DEF Calm, SameChallenges
<1> DEFINE OldC(i) == challenges' = [challenges EXCEPT ![i].expired = TRUE]
           OldL(i) == \/ logins' = [logins EXCEPT ![i].expired = TRUE]
                      \/ /\ logins[i].ticket = "stored"
                         /\ logins' = [logins EXCEPT ![i].ticket = "expired"]
<1>3. SameSessions \/ UNCHANGED <<challenges, logins>>
  BY DEF Later, SameSessions, Types
<1>4. ASSUME NEW i \in DOMAIN challenges, OldC(i), UNCHANGED <<sessions, logins>>
      PROVE  Ages
  <2> DEFINE c == challenges[i]
             d == [c EXCEPT !.expired = TRUE]
  <2>1. /\ i \in 1..Len(challenges) /\ challenges \in Seq(Challenge) /\ c \in Challenge
        /\ challenges' = [challenges EXCEPT ![i] = d]
    BY <1>4, Rows DEF Types
  <2>2. /\ d \in Challenge /\ d.used = c.used /\ d.revoked = c.revoked
        /\ d.attempts = c.attempts /\ d.expired
    BY <2>1, Truths, Zenon DEF Challenge
  <2> HIDE DEF d
  <2>3. /\ challenges' \in Seq(Challenge) /\ Len(challenges') = Len(challenges)
        /\ challenges'[i] = d
        /\ \A j \in 1..Len(challenges) : j # i => challenges'[j] = challenges[j]
    BY <2>1, <2>2, Put
  <2>4. \A j \in 1..Len(challenges) :
          /\ challenges'[j].used = challenges[j].used
          /\ challenges'[j].revoked = challenges[j].revoked
          /\ challenges'[j].attempts = challenges[j].attempts
          /\ challenges[j].expired => challenges'[j].expired
    BY <2>2, <2>3
  <2>5. SameSessions
    BY <1>4, Zenon DEF SameSessions, Types
  <2> QED
    BY <1>1, <1>4, <2>3, <2>4, <2>5, Zenon DEF Ages, Types
<1>5. ASSUME NEW i \in DOMAIN logins, OldL(i), UNCHANGED <<sessions, challenges>>
      PROVE  Ages
  <2> DEFINE l == logins[i]
             m == IF l.ticket = "stored" /\ logins' = [logins EXCEPT ![i].ticket = "expired"]
                  THEN [l EXCEPT !.ticket = "expired"] ELSE [l EXCEPT !.expired = TRUE]
  <2>1. /\ i \in 1..Len(logins) /\ logins \in Seq(LoginRow) /\ l \in LoginRow
        /\ logins' = [logins EXCEPT ![i] = m]
    BY <1>5, Rows DEF Types
  <2>2. /\ m \in LoginRow /\ m.used = l.used
        /\ m.ticket = l.ticket \/ (l.ticket = "stored" /\ m.ticket = "expired")
    BY <2>1, Truths, Zenon DEF LoginRow, Tickets
  <2> HIDE DEF m
  <2>3. /\ logins' \in Seq(LoginRow) /\ Len(logins') = Len(logins) /\ logins'[i] = m
        /\ \A j \in 1..Len(logins) : j # i => logins'[j] = logins[j]
    BY <2>1, <2>2, Put
  <2>4. \A j \in 1..Len(logins) :
          /\ logins'[j].used = logins[j].used
          /\ \/ logins'[j].ticket = logins[j].ticket
             \/ logins[j].ticket = "stored" /\ logins'[j].ticket = "expired"
    BY <2>2, <2>3
  <2>5. SameSessions
    BY <1>5 DEF SameSessions, Types
  <2> QED
    BY <1>1, <1>5, <2>3, <2>4, <2>5 DEF Ages, Types
<1> QED
  BY <1>2, <1>4, <1>5 DEF Later

\* Every step of the system has one of the forms above.
LEMMA Forms ==
  ASSUME Types, [Next]_vars
  PROVE  (\E r \in Requests : Served(r)) \/ Aside
<1>1. CASE UNCHANGED vars
  BY <1>1 DEF vars, Aside, Calm, SameAccount, SameSessions, SameChallenges, Counters, Types
<1>2. CASE \E r \in Requests : Step(r)
  BY <1>2, StepForms
<1>3. CASE Next /\ ~\E r \in Requests : Step(r)
  BY <1>3, Beginning, RevokingByHand, Settings, Switching, Aging, Zenon
     DEF Next, Logout, RevokeSession, RevokeSessions, RevokeUserSession, RevokeUserSessions,
         ResetMFA, ResetMFABreakGlass, Aside
<1> QED
  BY <1>1, <1>2, <1>3, Zenon

-----------------------------------------------------------------------------
\* The first state has the types.
LEMMA TypesInit ==
  ASSUME Init
  PROVE  Types
<1>1. account \in Account /\ account.secret \in Nat
  BY LoginAssumption, Zenon DEF Init, Account
<1>2. req \in [Requests -> Req] /\ \A r \in Requests : req[r] = Idle
  BY Nobody, Zenon DEF Init
<1>3. /\ sessions \in Seq(Session) /\ challenges \in Seq(Challenge) /\ logins \in Seq(LoginRow)
      /\ tested \in Seq(Int) /\ Len(tested) = Len(challenges)
  BY EmptySeq DEF Init
<1>4. ids \in Nat /\ secrets \in Nat /\ admin \in Nat
  BY <1>1, Zenon DEF Init
<1>5. \A r \in Requests : Presents(req[r])
  BY <1>2, Nobody DEF Presents
<1> QED
  BY <1>1, <1>2, <1>3, <1>4, <1>5, Zenon DEF Types

\* The tables never shrink.
LEMMA Growing ==
  ASSUME Types, (\E r \in Requests : Served(r)) \/ Aside
  PROVE  /\ sessions' \in Seq(Session) /\ challenges' \in Seq(Challenge)
         /\ logins' \in Seq(LoginRow) /\ tested' \in Seq(Int) /\ Len(tested') = Len(challenges')
         /\ Len(sessions) <= Len(sessions') /\ Len(challenges) <= Len(challenges')
         /\ Len(logins) <= Len(logins')
         /\ Len(sessions) \in Nat /\ Len(challenges) \in Nat /\ Len(logins) \in Nat
         /\ Len(sessions') \in Nat /\ Len(challenges') \in Nat /\ Len(logins') \in Nat
<1>0. Len(sessions) \in Nat /\ Len(challenges) \in Nat /\ Len(logins) \in Nat
  BY LenProperties, Zenon DEF Types
<1>1. sessions' \in Seq(Session) /\ Len(sessions) <= Len(sessions')
  <2>1. SameSessions \/ \E s \in Session : sessions' = Append(sessions, s)
    BY Zenon DEF Served, Quiet, Arrives, Completes, Challenged, Claims1, Registers, Stores,
           Consumes, Compares, Loses, Fails, Spends, Aside, Calm, Begins, Switches, Ages
  <2>2. \A s \in Session : sessions' = Append(sessions, s) =>
            sessions' \in Seq(Session) /\ Len(sessions') = Len(sessions) + 1
    BY Inserted DEF Types
  <2> QED
    BY <1>0, <2>1, <2>2 DEF SameSessions
<1>2. /\ challenges' \in Seq(Challenge) /\ tested' \in Seq(Int)
      /\ Len(tested') = Len(challenges') /\ Len(challenges) <= Len(challenges')
  <2> DEFINE More  == /\ \E c \in Challenge : challenges' = Append(challenges, c)
                      /\ tested' = Append(tested, 0)
             Tests == /\ challenges' = challenges /\ tested' \in Seq(Int)
                      /\ Len(tested') = Len(tested)
             Older == /\ challenges' \in Seq(Challenge) /\ Len(challenges') = Len(challenges)
                      /\ tested' = tested
  <2>1. SameChallenges \/ More \/ Tests \/ Older
    <3>1. ASSUME NEW r \in Requests, Served(r) PROVE SameChallenges \/ More \/ Tests \/ Older
      <4>1. CASE Compares(r) \/ Loses(r)
        BY <4>1, Zenon DEF Compares, Loses
      <4>2. CASE Fails(r) \/ Spends(r)
        BY <4>2, Zenon DEF Fails, Spends, Touches
      <4>3. CASE Challenged(r)
        BY <4>3, Zenon DEF Challenged
      <4> QED
        BY <3>1, <4>1, <4>2, <4>3, Zenon DEF Served, Quiet, Arrives, Completes, Claims1,
           Registers, Stores, Consumes
    <3>2. Aside => SameChallenges \/ Older
      BY SMTT(60) DEF Aside, Calm, Begins, Switches, Ages
    <3> QED
      BY <3>1, <3>2
  <2>2. CASE More
    <3>1. 0 \in Int /\ Len(tested) = Len(challenges) /\ tested \in Seq(Int)
      BY DEF Types
    <3>2. tested' \in Seq(Int) /\ Len(tested') = Len(tested) + 1
      BY <2>2, <3>1, Inserted
    <3>3. challenges' \in Seq(Challenge) /\ Len(challenges') = Len(challenges) + 1
      BY <2>2, Inserted DEF Types
    <3> QED
      BY <1>0, <3>1, <3>2, <3>3
  <2> QED
    BY <1>0, <2>1, <2>2 DEF SameChallenges, Types
<1>3. logins' \in Seq(LoginRow) /\ Len(logins) <= Len(logins')
  <2>1. \/ logins' = logins
        \/ logins' \in Seq(LoginRow) /\ Len(logins') = Len(logins)
        \/ \E l \in LoginRow : logins' = Append(logins, l)
    BY Zenon DEF Served, Quiet, Arrives, Completes, Challenged, Claims1, Registers, Stores,
           Consumes, Compares, Loses, Fails, Spends, Aside, Calm, Begins, Switches, Ages, Marks1
  <2>2. \A l \in LoginRow : logins' = Append(logins, l) =>
            logins' \in Seq(LoginRow) /\ Len(logins') = Len(logins) + 1
    BY Inserted, SMTT(60) DEF Types
  <2> QED
    BY <1>0, <2>1, <2>2 DEF Types
<1> QED
  BY <1>0, <1>1, <1>2, <1>3, LenProperties

\* Every step keeps the types: this is the type invariant of LoginSessions.
LEMMA TypesStep ==
  ASSUME Types, (\E r \in Requests : Served(r)) \/ Aside
  PROVE  Types'
<1>1. account' \in Account /\ ids' \in Nat /\ secrets' \in Nat /\ admin' \in Nat
  BY Zenon DEF Served, Quiet, Arrives, Completes, Challenged, Claims1, Registers, Stores,
         Consumes, Compares, Loses, Fails, Spends, Aside, Calm, Begins, Switches, Ages,
         SameAccount, Counters
<1>2. req' \in [Requests -> Req]
  BY Zenon DEF Served, Quiet, Arrives, Completes, Challenged, Claims1, Registers, Stores,
         Consumes, Compares, Loses, Fails, Spends, Aside, Calm, Begins, Switches, Ages,
         Moves, Stops, Others, Types
<1>3. ASSUME NEW q \in Requests PROVE Presents(req[q])'
  <2> DEFINE Same == req'[q].kind = req[q].kind /\ req'[q].arg = req[q].arg
  <2>1. Same \/ Presents(req'[q]) \/ req'[q] = Idle
    <3>1. ASSUME NEW r \in Requests, Served(r) PROVE Same \/ Presents(req'[q]) \/ req'[q] = Idle
      <4>1. /\ Others(r)
            /\ \/ req'[r] = Idle \/ Presents(req'[r])
               \/ req'[r].kind = req[r].kind /\ req'[r].arg = req[r].arg
        BY <3>1, Zenon DEF Served, Quiet, Arrives, Completes, Challenged, Claims1, Registers,
           Stores, Consumes, Compares, Loses, Fails, Spends, Moves, Stops
      <4>2. CASE q = r
        BY <4>1, <4>2, Zenon
      <4>3. CASE q # r
        BY <4>1, <4>3, Zenon DEF Others
      <4> QED
        BY <4>2, <4>3, Zenon
    <3>2. CASE Aside
      BY <3>2, Zenon DEF Aside, Calm, Begins, Switches, Ages
    <3> QED
      BY <3>1, <3>2, Zenon
  <2>2. Presents(req[q]) /\ req[q].arg \in Nat
    BY DEF Types, Req
  <2>3. req'[q].arg \in Nat
    BY <1>2 DEF Req
  <2>4. CASE Same
    BY <2>2, <2>4, Growing DEF Presents
  <2>5. CASE Presents(req'[q])
    BY <2>3, <2>5, Growing DEF Presents
  <2>6. CASE req'[q] = Idle
    BY <2>6, Nobody DEF Presents
  <2> QED
    BY <2>1, <2>4, <2>5, <2>6, Zenon
<1> QED
  BY <1>1, <1>2, <1>3, Growing DEF Types
=============================================================================
