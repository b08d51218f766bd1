------------------------- MODULE LoginSessionsProofs -------------------------
(***************************************************************************)
(* The theorems about LoginSessions: one session for each proof of         *)
(* identity, a bound on the codes compared against a challenge, and no     *)
(* session for who arrives after the account was disabled.  They hold for  *)
(* any finite set of requests in flight and any first accounts.            *)
(*                                                                         *)
(* No row is locked between two statements of a handler, so that each of   *)
(* the properties rests on what a request may still do with a row it has   *)
(* read.  Late says how far a request may come for a disabled account.     *)
(* Claims and Proofs say who holds a login, a challenge or a ticket: the   *)
(* UPDATE that takes it names the state it expects, so that one request    *)
(* gets it.  Counts balances, for each challenge, the codes compared with  *)
(* the failures written and the requests in between.                       *)
(***************************************************************************)
EXTENDS LoginSessionsSteps

-----------------------------------------------------------------------------
\* A request that arrived after the account was disabled has not passed the point where its
\* handler reads the account, and the account is still disabled.
Late == \A r \in Requests : req[r].late => Exists /\ ~account.active /\ req[r].at \in Early

\* No request is late at first.
LEMMA LateInit ==
  ASSUME Init
  PROVE  Late /\ DisabledOpensNothing
<1>1. \A r \in Requests : req[r] = Idle
  BY DEF Init
<1>2. DOMAIN sessions = {}
  BY DEF Init
<1> QED
  BY <1>1, <1>2, Nobody DEF Late, DisabledOpensNothing

\* Every step keeps that a late request stays before that point.
LEMMA LateStep ==
  ASSUME Types, Late, (\E r \in Requests : Served(r)) \/ Aside
  PROVE  Late'
<1> SUFFICES ASSUME NEW q \in Requests, req'[q].late
             PROVE  account'.id # 0 /\ ~account'.active /\ req'[q].at \in Early
  BY DEF Late, Exists
<1>1. ASSUME NEW r \in Requests, Served(r), q # r PROVE req'[q] = req[q] /\ SameAccount
  <2>1. req'[q] = req[q] /\ (SameAccount \/ Registers(r))
    BY <1>1, Zenon DEF Served, Quiet, Arrives, Completes, Challenged, Claims1, Registers,
       Stores,
           Consumes, Compares, Loses, Fails, Spends, Moves, Stops, Others
  <2> QED
    BY <2>1 DEF Registers, Late
<1>2. ASSUME Served(q) PROVE account'.id # 0 /\ ~account'.active /\ req'[q].at \in Early
  <2>1. ~(req'[q] = Idle)
    BY Nobody
  <2>2. CASE Quiet(q)
    <3>1. PICK at \in Ats : Moves(q, at) /\ Path(q, at)
      BY <2>1, <2>2 DEF Quiet, Stops
    <3> QED
      BY <2>2, <3>1, Zenon DEF Quiet, Moves, Path, Late, SameAccount, Exists
  <2>3. CASE Arrives(q)
    BY <2>3, SMTT(60) DEF Arrives, SameAccount, Exists, Early
  <2>4. CASE Claims1(q) \/ Consumes(q)
    BY <2>4, Zenon DEF Claims1, Consumes, Moves, Late, SameAccount, Exists, Early
  <2>5. CASE Registers(q) \/ Compares(q) \/ Spends(q)
    BY <2>5, Zenon DEF Registers, Compares, Spends, Moves, Late, Early
  <2> QED
    BY <1>2, <2>1, <2>2, <2>3, <2>4, <2>5, Zenon
       DEF Served, Completes, Challenged, Stores, Loses, Fails, Stops
<1>3. CASE Aside
  BY <1>3 DEF Aside, Calm, Begins, Switches, Ages, SameAccount, Late, Exists
<1> QED
  BY <1>1, <1>2, <1>3 DEF Late, SameAccount, Exists

\* A session is written past that point, so that no late request writes one.
LEMMA DisabledStep ==
  ASSUME Types, Late, DisabledOpensNothing, (\E r \in Requests : Served(r)) \/ Aside
  PROVE  DisabledOpensNothing'
<1>1. \A i \in 1..Len(sessions) : ~sessions[i].late
  BY Rows DEF DisabledOpensNothing
<1>2. DOMAIN sessions' = 1..Len(sessions') /\ Len(sessions) \in Nat
  BY Growing, LenProperties
<1>3. CASE SameSessions
  BY <1>1, <1>2, <1>3 DEF SameSessions, DisabledOpensNothing
<1>4. ASSUME NEW r \in Requests, Completes(r) PROVE DisabledOpensNothing'
  <2>1. PICK s \in Session : s.late = req[r].late /\ sessions' = Append(sessions, s)
    BY <1>4 DEF Completes
  <2>2. ~s.late
    BY <1>4, <2>1 DEF Completes, Late, Early
  <2>3. /\ Len(sessions') = Len(sessions) + 1 /\ sessions'[Len(sessions')] = s
        /\ \A j \in 1..Len(sessions) : sessions'[j] = sessions[j]
    BY <2>1, Inserted DEF Types
  <2>4. \A i \in 1..Len(sessions') : ~sessions'[i].late
    BY <1>1, <1>2, <2>2, <2>3
  <2> QED
    BY <1>2, <2>4 DEF DisabledOpensNothing
<1>5. SameSessions \/ \E r \in Requests : Completes(r)
  BY Zenon DEF Served, Quiet, Arrives, Challenged, Claims1, Registers, Stores, Consumes,
         Compares, Loses, Fails, Spends, Aside, Calm, Begins, Switches, Ages
<1> QED
  BY <1>3, <1>4, <1>5

-----------------------------------------------------------------------------
\* A callback that has taken its login.
Claimed(r) == req[r].kind = "callback" /\ req[r].at # "start"

\* A login is taken before it has a ticket, and by one callback.
Claims ==
    /\ \A l \in 1..Len(logins) : ~logins[l].used => logins[l].ticket = "none"
    /\ \A r \in Requests : Claimed(r) =>
          logins[req[r].arg].used /\ logins[req[r].arg].ticket = "none"
    /\ \A r, q \in Requests : Claimed(r) /\ Claimed(q) /\ req[r].arg = req[q].arg => r = q

\* The claimed rows of a request that was there before.
OldClaims == \A q \in Requests : Claimed(q)' => Claimed(q) /\ req'[q].arg = req[q].arg

\* Every step keeps that, because ClaimState writes only over a login nobody has taken.
LEMMA ClaimsStep ==
  ASSUME Types, Claims, (\E r \in Requests : Served(r)) \/ Aside
  PROVE  Claims'
<1>0. \A q \in Requests : req[q].kind \in {"callback", "consume"} => req[q].arg \in 1..Len(logins)
  BY SMTT(60) DEF Types, Presents
<1>1. ASSUME OldClaims, logins' = logins PROVE Claims'
  BY <1>1, SMTT(60) DEF Claims, OldClaims
<1>2. ASSUME NEW r \in Requests, Others(r), Claimed(r)' => Claimed(r) /\ req'[r].arg = req[r].arg
      PROVE  OldClaims
  BY <1>2 DEF OldClaims, Others, Claimed
<1>3. ASSUME NEW r \in Requests, Stops(r) PROVE OldClaims
  BY <1>2, <1>3, Nobody DEF Stops, Claimed
<1>4. ASSUME NEW r \in Requests, NEW at, Moves(r, at),
             req[r].kind = "callback" => req[r].at # "start"
      PROVE  OldClaims
  BY <1>2, <1>4 DEF Moves, Claimed
<1>5. ASSUME NEW r \in Requests, Served(r) PROVE Claims'
  <2> DEFINE n == req[r].arg
  <2>1. CASE Quiet(r)
    BY <1>1, <1>3, <1>4, <2>1, SMTT(60) DEF Quiet, Path
  <2>2. CASE Arrives(r)
    BY <1>1, <1>2, <2>2, Zenon DEF Arrives, Claimed
  <2>3. CASE Completes(r) \/ Challenged(r) \/ Loses(r) \/ Fails(r)
    BY <1>1, <1>3, <2>3, Zenon DEF Completes, Challenged, Loses, Fails
  <2>4. CASE Registers(r) \/ Compares(r) \/ Spends(r)
    BY <1>1, <1>4, <2>4, SMTT(60) DEF Registers, Compares, Spends
  <2>5. CASE Claims1(r)
    <3>1. /\ \A l \in 1..Len(logins) : l # n => logins'[l] = logins[l]
          /\ logins'[n].used /\ logins'[n].ticket = logins[n].ticket
          /\ Len(logins') = Len(logins) /\ ~logins[n].used /\ n \in 1..Len(logins)
      BY <1>0, <2>5, Zenon DEF Claims1, Marks1
    <3>2. /\ \A q \in Requests : q # r => req'[q] = req[q]
          /\ req'[r].arg = n /\ req'[r].kind = "callback" /\ req'[r].at = "exchange"
      BY <2>5, Zenon DEF Claims1, Moves, Others
    <3>3. \A q \in Requests : Claimed(q) => req[q].arg # n
      BY <3>1, Zenon DEF Claims
    <3>4. \A l \in 1..Len(logins') : ~logins'[l].used => logins'[l].ticket = "none"
      BY <3>1, SMTT(60) DEF Claims
    <3>5. logins'[n].ticket = "none"
      BY <3>1, Zenon DEF Claims
    <3>6. ASSUME NEW q \in Requests, Claimed(q)'
          PROVE  logins'[req'[q].arg].used /\ logins'[req'[q].arg].ticket = "none"
      BY <1>0, <3>1, <3>2, <3>3, <3>5, <3>6, SMTT(60) DEF Claims, Claimed
    <3>7. ASSUME NEW p \in Requests, NEW q \in Requests, Claimed(p)', Claimed(q)',
                 req'[p].arg = req'[q].arg
          PROVE  p = q
      BY <3>2, <3>3, <3>7, SMTT(60) DEF Claims, Claimed
    <3> QED
      BY <3>4, <3>6, <3>7, Zenon DEF Claims
  <2>6. CASE Stores(r)
    <3>1. /\ \A l \in 1..Len(logins) : l # n => logins'[l] = logins[l]
          /\ logins'[n].used = logins[n].used /\ logins[n].used
          /\ Len(logins') = Len(logins) /\ n \in 1..Len(logins)
      BY <1>0, <2>6, Zenon DEF Stores, Marks1, Claims, Claimed
    <3>2. OldClaims /\ ~Claimed(r)' /\ Claimed(r)
      BY <1>3, <2>6, Nobody, Zenon DEF Stores, Claimed, Stops
    <3>3. \A q \in Requests : Claimed(q)' =>
             Claimed(q) /\ req'[q].arg = req[q].arg /\ req[q].arg # n
      BY <3>2, SMTT(60) DEF OldClaims, Claims
    <3>4. \A l \in 1..Len(logins') : ~logins'[l].used => logins'[l].ticket = "none"
      BY <3>1, Zenon DEF Claims
    <3> QED
      BY <1>0, <3>1, <3>3, <3>4, SMTT(60) DEF Claims, Claimed
  <2>7. CASE Consumes(r)
    <3>1. /\ \A l \in 1..Len(logins) : l # n => logins'[l] = logins[l]
          /\ logins'[n].used = logins[n].used /\ logins[n].ticket = "stored"
          /\ Len(logins') = Len(logins) /\ n \in 1..Len(logins)
      BY <1>0, <2>7, SMTT(60) DEF Consumes, Marks1
    <3>2. OldClaims
      BY <1>4, <2>7, Zenon DEF Consumes
    <3>3. \A q \in Requests : Claimed(q)' =>
             Claimed(q) /\ req'[q].arg = req[q].arg /\ req[q].arg # n
      BY <3>1, <3>2, Zenon DEF OldClaims, Claims
    <3>4. \A l \in 1..Len(logins') : ~logins'[l].used => logins'[l].ticket = "none"
      BY <3>1 DEF Claims
    <3> QED
      BY <1>0, <3>1, <3>3, <3>4 DEF Claims, Claimed
  <2> QED
    BY <1>5, <2>1, <2>2, <2>3, <2>4, <2>5, <2>6, <2>7, SMTT(60) DEF Served
<1>6. CASE Calm \/ Switches
  <2>1. OldClaims
    BY <1>6, Zenon DEF Calm, Switches, OldClaims, Claimed
  <2> QED
    BY <1>1, <1>6, <2>1 DEF Calm, Switches
<1>7. CASE Begins
  <2>1. PICK l \in LoginRow : ~l.used /\ l.ticket = "none" /\ logins' = Append(logins, l)
    BY <1>7 DEF Begins
  <2>2. /\ Len(logins') = Len(logins) + 1 /\ logins'[Len(logins')] = l
        /\ \A j \in 1..Len(logins) : logins'[j] = logins[j]
    BY <2>1, Inserted DEF Types
  <2>3. Len(logins) \in Nat /\ req' = req
    BY <1>7, LenProperties, Zenon DEF Types, Begins
  <2>4. \A j \in 1..Len(logins') : ~logins'[j].used => logins'[j].ticket = "none"
    BY <2>1, <2>2, <2>3, SMTT(60) DEF Claims
  <2> QED
    BY <1>0, <2>2, <2>3, <2>4 DEF Claims, Claimed
<1>8. CASE Ages
  BY <1>0, <1>8, SMTT(60) DEF Ages, Claims, Claimed
<1> QED
  BY <1>5, <1>6, <1>7, <1>8 DEF Aside

-----------------------------------------------------------------------------
\* A request that has closed its challenge, or taken its ticket, and has not been answered.
Won(r) == \/ req[r].kind = "verify" /\ req[r].at \in {"enable", "session"}
          \/ req[r].kind = "consume" /\ req[r].at # "start"

\* The challenge is closed, or the ticket taken.
Spent(kind, n) ==
    \/ kind = "verify" /\ n \in 1..Len(challenges) /\ challenges[n].used
    \/ kind = "consume" /\ n \in 1..Len(logins) /\ logins[n].ticket = "used"

\* The same after the step.
SpentNext(kind, n) ==
    \/ kind = "verify" /\ n \in 1..Len(challenges') /\ challenges'[n].used
    \/ kind = "consume" /\ n \in 1..Len(logins') /\ logins'[n].ticket = "used"

\* A session that was opened with a challenge or a ticket.
Opened(i) == i \in 1..Len(sessions) /\ sessions[i].kind \in {"verify", "consume"}

\* What a request has won is spent and no other request has won it; a session came from
\* something spent that no request holds any more.
Proofs ==
    /\ \A r \in Requests : Won(r) => Spent(req[r].kind, req[r].arg)
    /\ \A r, q \in Requests :
          Won(r) /\ Won(q) /\ req[r].kind = req[q].kind /\ req[r].arg = req[q].arg => r = q
    /\ \A i \in 1..Len(sessions) : Opened(i) =>
          /\ Spent(sessions[i].kind, sessions[i].from)
          /\ \A r \in Requests : Won(r) /\ req[r].kind = sessions[i].kind
                                    => req[r].arg # sessions[i].from

\* The step wins nothing.
OldWins == \A q \in Requests : Won(q)' => /\ Won(q) /\ req'[q].kind = req[q].kind
                                          /\ req'[q].arg = req[q].arg
\* The step gives nothing back.
StaySpent == \A kind \in Kinds, n \in Nat : Spent(kind, n) => SpentNext(kind, n)

\* No step gives back what is spent: not the failures counted late, not a ticket stored late,
\* not the passing of time.
LEMMA SpentStep ==
  ASSUME Types, Claims, (\E r \in Requests : Served(r)) \/ Aside
  PROVE  StaySpent
<1>0. Len(challenges) \in Nat /\ Len(logins) \in Nat
  BY LenProperties DEF Types
<1> DEFINE C == \A n \in 1..Len(challenges) : challenges[n].used => challenges'[n].used
           L == \A n \in 1..Len(logins) : logins[n].ticket = "used" => logins'[n].ticket = "used"
<1>1. C
  <2>1. ASSUME NEW r \in Requests, Served(r) PROVE C
    <3>1. CASE Fails(r) \/ Spends(r)
      BY <3>1, Zenon DEF Fails, Spends, Touches
    <3>2. CASE Challenged(r)
      <4>1. PICK c \in Challenge : challenges' = Append(challenges, c)
        BY <3>2, Zenon DEF Challenged
      <4> QED
        BY <4>1, Inserted DEF Types
    <3> QED
      BY <2>1, <3>1, <3>2, Zenon DEF Served, Quiet, Arrives, Completes, Claims1, Registers,
         Stores,
             Consumes, Compares, Loses, SameChallenges
  <2>2. Aside => C
    BY Zenon DEF Aside, Calm, Begins, Switches, Ages, SameChallenges
  <2> QED
    BY <2>1, <2>2
<1>2. L
  <2>1. ASSUME NEW r \in Requests, Served(r) PROVE L
    <3>1. CASE Claims1(r) \/ Consumes(r)
      BY <3>1, Zenon DEF Claims1, Consumes, Marks1
    <3>2. CASE Stores(r)
      <4>1. logins[req[r].arg].ticket = "none"
        BY <3>2 DEF Stores, Claims, Claimed
      <4> QED
        BY <3>2, <4>1, Zenon DEF Stores, Marks1
    <3> QED
      BY <2>1, <3>1, <3>2, Zenon DEF Served, Quiet, Arrives, Completes, Challenged, Registers,
             Compares, Loses, Fails, Spends
  <2>2. CASE Begins
    <3>1. PICK l \in LoginRow : logins' = Append(logins, l)
      BY <2>2, Zenon DEF Begins
    <3> QED
      BY <3>1, Inserted DEF Types
  <2>3. Aside /\ ~Begins => L
    BY DEF Aside, Calm, Switches, Ages
  <2> QED
    BY <2>1, <2>2, <2>3
<1>3. Len(challenges) <= Len(challenges') /\ Len(challenges') \in Nat
      /\ Len(logins) <= Len(logins') /\ Len(logins') \in Nat
  BY Growing, Zenon
<1>4. 1..Len(challenges) \subseteq 1..Len(challenges') /\ 1..Len(logins) \subseteq 1..Len(logins')
  BY <1>0, <1>3
<1> HIDE DEF C, L
<1>5. ASSUME NEW n \in Nat, Spent("verify", n) PROVE SpentNext("verify", n)
  BY <1>1, <1>4, <1>5 DEF C, Spent, SpentNext
<1>6. ASSUME NEW n \in Nat, Spent("consume", n) PROVE SpentNext("consume", n)
  BY <1>2, <1>4, <1>6 DEF L, Spent, SpentNext
<1> QED
  BY <1>5, <1>6 DEF StaySpent, Spent, SpentNext

\* Every step keeps Proofs: a request wins only what nobody had spent, and the session it
\* writes takes its place.
LEMMA ProofsStep ==
  ASSUME Types, Types', Claims, Proofs, (\E r \in Requests : Served(r)) \/ Aside
  PROVE  Proofs'
<1>0. /\ \A q \in Requests : req[q].kind \in Kinds /\ req[q].arg \in Nat
      /\ \A q \in Requests : req'[q].kind \in Kinds /\ req'[q].arg \in Nat
      /\ \A i \in 1..Len(sessions) : sessions[i].kind \in Kinds /\ sessions[i].from \in Nat
      /\ \A q \in Requests : Presents(req[q])
      /\ Len(sessions) \in Nat
  <2>1. \A q \in Requests : req[q] \in Req /\ req'[q] \in Req
    BY DEF Types
  <2>2. \A i \in 1..Len(sessions) : sessions[i] \in Session
    BY Rows
  <2> QED
    BY <2>1, <2>2, LenProperties, Zenon DEF Req, Session, Types
<1>1. StaySpent
  BY SpentStep, Zenon
<1>2. ASSUME OldWins, SameSessions PROVE Proofs'
  <2>1. \A q \in Requests : Won(q)' => SpentNext(req'[q].kind, req'[q].arg)
    BY <1>0, <1>1, <1>2, Zenon DEF Proofs, OldWins, StaySpent
  <2>2. \A r, q \in Requests : Won(r)' /\ Won(q)' /\ req'[r].kind = req'[q].kind
                                 /\ req'[r].arg = req'[q].arg => r = q
    BY <1>2, Zenon DEF Proofs, OldWins
  <2>3. ASSUME NEW i \in 1..Len(sessions'), Opened(i)'
        PROVE  /\ SpentNext(sessions'[i].kind, sessions'[i].from)
               /\ \A r \in Requests : Won(r)' /\ req'[r].kind = sessions'[i].kind
                                    => req'[r].arg # sessions'[i].from
    <3>1. /\ i \in 1..Len(sessions) /\ sessions'[i].kind = sessions[i].kind
          /\ sessions'[i].from = sessions[i].from /\ Opened(i)
      BY <1>2, <2>3, Zenon DEF SameSessions, Opened
    <3> QED
      BY <1>0, <1>1, <1>2, <3>1, SMTT(60) DEF Proofs, OldWins, StaySpent
  <2> QED
    BY <2>1, <2>2, <2>3 DEF Proofs, Spent, SpentNext
<1>3. ASSUME NEW r \in Requests, Others(r),
             Won(r)' => Won(r) /\ req'[r].arg = req[r].arg /\ req'[r].kind = req[r].kind
      PROVE  OldWins
  BY <1>3, Zenon DEF OldWins, Others, Won
<1>4. ASSUME NEW r \in Requests, Stops(r) PROVE OldWins
  BY <1>3, <1>4, Nobody DEF Stops, Won
\* A request wins its proof, which nobody had spent.
<1>5. ASSUME NEW r \in Requests, Others(r), SameSessions, ~Won(r),
             req'[r].kind = req[r].kind /\ req'[r].arg = req[r].arg,
             ~Spent(req[r].kind, req[r].arg), SpentNext(req[r].kind, req[r].arg)
      PROVE  Proofs'
  <2> DEFINE kind == req[r].kind
             n == req[r].arg
  <2>0. \A q \in Requests : q # r => /\ req'[q] = req[q] /\ (Won(q)' <=> Won(q))
    BY <1>5 DEF Others, Won
  <2>1. \A q \in Requests : q # r /\ Won(q) => ~(req[q].kind = kind /\ req[q].arg = n)
    BY <1>5, Zenon DEF Proofs
  <2>2. \A q \in Requests : Won(q)' => SpentNext(req'[q].kind, req'[q].arg)
    BY <1>0, <1>1, <1>5, <2>0 DEF Proofs, StaySpent
  <2>3. \A p, q \in Requests : Won(p)' /\ Won(q)' /\ req'[p].kind = req'[q].kind
                                 /\ req'[p].arg = req'[q].arg => p = q
    BY <1>5, <2>0, <2>1, Zenon DEF Proofs
  <2>4. ASSUME NEW i \in 1..Len(sessions'), Opened(i)'
        PROVE  /\ SpentNext(sessions'[i].kind, sessions'[i].from)
               /\ \A q \in Requests : Won(q)' /\ req'[q].kind = sessions'[i].kind
                                    => req'[q].arg # sessions'[i].from
    <3>1. /\ i \in 1..Len(sessions) /\ sessions'[i].kind = sessions[i].kind
          /\ sessions'[i].from = sessions[i].from /\ Opened(i)
      BY <1>5, <2>4, Zenon DEF SameSessions, Opened
    <3>2. Spent(sessions[i].kind, sessions[i].from)
      BY <3>1, Zenon DEF Proofs
    <3>3. ~(sessions[i].kind = kind /\ sessions[i].from = n)
      BY <3>2, <1>5
    <3> QED
      BY <1>0, <1>1, <1>5, <2>0, <3>1, <3>2, <3>3, Zenon DEF Proofs, StaySpent
  <2> QED
    BY <2>2, <2>3, <2>4, Zenon DEF Proofs, Spent, SpentNext
<1>6. ASSUME NEW r \in Requests, Served(r) PROVE Proofs'
  <2>1. CASE Quiet(r)
    <3>1. ASSUME NEW at \in Ats, Moves(r, at), Path(r, at) PROVE OldWins
      <4>1. Won(r)' => Won(r)
        BY <3>1, Zenon DEF Moves, Path, Won
      <4> QED
        BY <1>3, <3>1, <4>1, Zenon DEF Moves
    <3> QED
      BY <1>2, <1>4, <2>1, <3>1, Zenon DEF Quiet
  <2>2. CASE Arrives(r)
    <3>1. ~Won(r)'
      BY <2>2 DEF Arrives, Won
    <3> QED
      BY <1>2, <1>3, <2>2, <3>1, Zenon DEF Arrives
  <2>3. CASE Challenged(r) \/ Stores(r) \/ Loses(r) \/ Fails(r)
    BY <1>2, <1>4, <2>3, Zenon DEF Challenged, Stores, Loses, Fails
  <2>4. CASE Claims1(r) \/ Registers(r) \/ Compares(r)
    <3>1. ~Won(r)' /\ Others(r) /\ SameSessions
      BY <2>4, Zenon DEF Claims1, Registers, Compares, Moves, Won
    <3> QED
      BY <1>2, <1>3, <3>1
  <2>5. CASE Consumes(r)
    BY <1>0, <1>5, <2>5, Growing, Zenon DEF Consumes, Marks1, Moves, Won, Spent, SpentNext,
       Presents
  <2>6. CASE Spends(r)
    BY <1>0, <1>5, <2>6, Growing, Zenon DEF Spends, Touches, Moves, Won, Spent, SpentNext,
       Presents, ValidMFAChallenge
  <2>7. CASE Completes(r)
    <3>1. PICK s \in Session : /\ s.kind = req[r].kind /\ s.from = req[r].arg
                               /\ sessions' = Append(sessions, s)
      BY <2>7, Zenon DEF Completes
    <3>2. /\ Len(sessions') = Len(sessions) + 1 /\ sessions'[Len(sessions')] = s
          /\ \A j \in 1..Len(sessions) : sessions'[j] = sessions[j]
      BY <3>1, Inserted, SMTT(60) DEF Types
    <3>3. OldWins /\ ~Won(r)' /\ req[r].at = "session"
      BY <1>4, <2>7, Nobody DEF Completes, Stops, Won
    <3>4. \A q \in Requests : Won(q)' => SpentNext(req'[q].kind, req'[q].arg)
      BY <1>0, <1>1, <3>3, Zenon DEF Proofs, OldWins, StaySpent
    <3>5. \A p, q \in Requests : Won(p)' /\ Won(q)' /\ req'[p].kind = req'[q].kind
                                   /\ req'[p].arg = req'[q].arg => p = q
      BY <3>3, Zenon DEF Proofs, OldWins
    <3>6. ASSUME NEW i \in 1..Len(sessions'), Opened(i)'
          PROVE  /\ SpentNext(sessions'[i].kind, sessions'[i].from)
                 /\ \A q \in Requests : Won(q)' /\ req'[q].kind = sessions'[i].kind
                                      => req'[q].arg # sessions'[i].from
      <4>1. CASE i \in 1..Len(sessions)
        <5>1. Opened(i) /\ sessions'[i] = sessions[i]
          BY <3>2, <3>6, <4>1 DEF Opened
        <5> QED
          BY <1>0, <1>1, <3>3, <4>1, <5>1 DEF Proofs, OldWins, StaySpent
      <4>2. CASE i = Len(sessions')
        <5>1. sessions'[i].kind = req[r].kind /\ sessions'[i].from = req[r].arg /\ Won(r)
          BY <3>1, <3>2, <3>3, <3>6, <4>2 DEF Opened, Won
        <5>2. SpentNext(req[r].kind, req[r].arg)
          BY <1>0, <1>1, <5>1, Zenon DEF Proofs, StaySpent
        <5>3. \A q \in Requests : Won(q)' => q # r /\ Won(q) /\ req'[q].kind = req[q].kind
                                             /\ req'[q].arg = req[q].arg
          BY <3>3 DEF OldWins
        <5> QED
          BY <5>1, <5>2, <5>3, Zenon DEF Proofs
      <4> QED
        BY <1>0, <3>2, <4>1, <4>2, SMTT(60)
    <3> QED
      BY <3>4, <3>5, <3>6, Zenon DEF Proofs, Spent, SpentNext
  <2> QED
    BY <1>6, <2>1, <2>2, <2>3, <2>4, <2>5, <2>6, <2>7 DEF Served
<1>7. CASE Aside
  <2>1. OldWins /\ SameSessions
    BY <1>7, Zenon DEF Aside, Calm, Begins, Switches, Ages, OldWins, Won
  <2> QED
    BY <1>2, <2>1
<1> QED
  BY <1>6, <1>7

\* The session that a proof opens is the only one of it: the request that writes it had won.
LEMMA OnceStep ==
  ASSUME Types, Proofs, OneSessionPerProof, (\E r \in Requests : Served(r)) \/ Aside
  PROVE  OneSessionPerProof'
<1>0. DOMAIN sessions = 1..Len(sessions) /\ DOMAIN sessions' = 1..Len(sessions')
      /\ Len(sessions) \in Nat
  BY Rows, Growing, LenProperties, SMTT(60)
<1>1. CASE SameSessions
  BY <1>0, <1>1, SMTT(60) DEF SameSessions, OneSessionPerProof
<1>2. ASSUME NEW r \in Requests, Completes(r) PROVE OneSessionPerProof'
  <2>1. PICK s \in Session : /\ s.kind = req[r].kind /\ s.from = req[r].arg
                             /\ sessions' = Append(sessions, s)
    BY <1>2, SMTT(60) DEF Completes
  <2>2. /\ Len(sessions') = Len(sessions) + 1 /\ sessions'[Len(sessions')] = s
        /\ \A j \in 1..Len(sessions) : sessions'[j] = sessions[j]
    BY <2>1, Inserted, SMTT(60) DEF Types
  <2>3. ASSUME NEW i \in 1..Len(sessions), s.kind \in {"verify", "consume"},
               sessions[i].kind = s.kind
        PROVE  sessions[i].from # s.from
    <3>1. Won(r)
      BY <1>2, <2>1, <2>3, Zenon DEF Completes, Won
    <3> QED
      BY <2>1, <2>3, <3>1, Zenon DEF Proofs, Opened
  <2>4. ASSUME NEW i \in 1..Len(sessions'), NEW j \in 1..Len(sessions'),
               sessions'[i].kind = sessions'[j].kind, sessions'[i].kind \in {"verify", "consume"},
               sessions'[i].from = sessions'[j].from
        PROVE  i = j
    <3>1. /\ i \in 1..Len(sessions) \/ i = Len(sessions')
          /\ j \in 1..Len(sessions) \/ j = Len(sessions')
      BY <1>0, <2>2
    <3> QED
      BY <1>0, <2>2, <2>3, <2>4, <3>1 DEF OneSessionPerProof
  <2> QED
    BY <1>0, <2>4, SMTT(60) DEF OneSessionPerProof
<1>3. SameSessions \/ \E r \in Requests : Completes(r)
  BY Zenon DEF Served, Quiet, Arrives, Challenged, Claims1, Registers, Stores, Consumes,
         Compares, Loses, Fails, Spends, Aside, Calm, Begins, Switches, Ages
<1> QED
  BY <1>1, <1>2, <1>3

-----------------------------------------------------------------------------
\* The requests that have found the challenge open and have not compared their code.
Comparing(c) == {r \in Requests : /\ req[r].kind = "verify" /\ req[r].arg = c
                                  /\ req[r].at \in {"user", "policy"}}
\* The requests that have compared their code and not written what came of it.
Compared(c)  == {r \in Requests : /\ req[r].kind = "verify" /\ req[r].arg = c
                                  /\ req[r].at \in {"use", "wrong"}}

\* The balance of a challenge.  While it is open every comparison is either counted or on
\* its way to be; and the comparisons made and still to come stay below the bound, because a
\* request only joins them while the challenge is open.
Counted(c) ==
    /\ challenges[c].attempts <= MaxAttempts
    /\ ~challenges[c].revoked => challenges[c].attempts < MaxAttempts
    /\ ValidMFAChallenge(challenges[c]) =>
          tested[c] = challenges[c].attempts + Cardinality(Compared(c))
    /\ tested[c] + Cardinality(Comparing(c)) < MaxAttempts + Cardinality(Requests)

\* The balance of every challenge.
Counts == \A c \in 1..Len(challenges) : Counted(c)

\* What the proofs need of the sizes of sets of requests.
LEMMA Sizes ==
  /\ Cardinality(Requests) \in Nat /\ MaxAttempts \in Nat \ {0}
  /\ \A S \in SUBSET Requests : IsFiniteSet(S) /\ Cardinality(S) \in Nat
  /\ \A S, T \in SUBSET Requests : S \subseteq T => Cardinality(S) <= Cardinality(T)
  /\ \A S, T \in SUBSET Requests : S \cap T = {} =>
        Cardinality(S) + Cardinality(T) <= Cardinality(Requests)
  /\ \A S \in SUBSET Requests, r \in Requests :
        /\ r \notin S => Cardinality(S \cup {r}) = Cardinality(S) + 1
        /\ r \in S => Cardinality(S \ {r}) = Cardinality(S) - 1
<1>0. IsFiniteSet(Requests) /\ MaxAttempts \in Nat \ {0}
  BY LoginAssumption
<1>1. \A S \in SUBSET Requests : IsFiniteSet(S) /\ Cardinality(S) \in Nat
  BY <1>0, FS_Subset, FS_CardinalityType
<1>2. \A S, T \in SUBSET Requests : S \subseteq T => Cardinality(S) <= Cardinality(T)
  BY <1>1, FS_Subset
<1>3. ASSUME NEW S \in SUBSET Requests, NEW T \in SUBSET Requests, S \cap T = {}
      PROVE  Cardinality(S) + Cardinality(T) <= Cardinality(Requests)
  <2>1. Cardinality(S \cup T) = Cardinality(S) + Cardinality(T) - Cardinality(S \cap T)
    BY <1>1, FS_Union
  <2>2. Cardinality(S \cap T) = 0
    BY <1>3, FS_EmptySet
  <2>3. Cardinality(S \cup T) <= Cardinality(Requests)
    BY <1>2, Zenon
  <2> QED
    BY <1>1, <2>1, <2>2, <2>3
<1>4. ASSUME NEW S \in SUBSET Requests, NEW r \in Requests
      PROVE  /\ r \notin S => Cardinality(S \cup {r}) = Cardinality(S) + 1
             /\ r \in S => Cardinality(S \ {r}) = Cardinality(S) - 1
  BY <1>1, FS_AddElement, FS_RemoveElement, Zenon
<1> QED
  BY <1>0, <1>1, <1>2, <1>3, <1>4

\* A step of one request adds it to these sets, or takes it out of them.
LEMMA Changed ==
  ASSUME NEW r \in Requests, Others(r), NEW c
  PROVE  /\ Comparing(c) \in SUBSET Requests /\ Compared(c) \in SUBSET Requests
         /\ Comparing(c)' \in SUBSET Requests /\ Compared(c)' \in SUBSET Requests
         /\ r \notin Comparing(c)' => Comparing(c)' = Comparing(c) \ {r}
         /\ r \in Comparing(c)' => Comparing(c)' = Comparing(c) \cup {r}
         /\ r \notin Compared(c)' => Compared(c)' = Compared(c) \ {r}
         /\ r \in Compared(c)' => Compared(c)' = Compared(c) \cup {r}
BY DEF Others, Comparing, Compared

\* A step that compares no code and counts no failure keeps the balance.
LEMMA Steady ==
  ASSUME Types, NEW c \in 1..Len(challenges), Counted(c),
         tested'[c] = tested[c], challenges'[c].attempts = challenges[c].attempts,
         ~challenges'[c].revoked => ~challenges[c].revoked,
         Comparing(c) \in SUBSET Requests, Comparing(c)' \subseteq Comparing(c),
         ValidMFAChallenge(challenges'[c]) =>
            ValidMFAChallenge(challenges[c]) /\ Compared(c)' = Compared(c)
  PROVE  Counted(c)'
<1>1. tested[c] \in Int /\ challenges[c] \in Challenge /\ challenges[c].attempts \in Nat
  <2>1. tested \in Seq(Int) /\ c \in 1..Len(tested)
    BY Zenon DEF Types
  <2>2. tested[c] \in Int
    BY <2>1, ElementOfSeq, Zenon
  <2>3. challenges[c] \in Challenge
    BY Rows, Zenon
  <2> QED
    BY <2>2, <2>3 DEF Challenge
<1>2. Cardinality(Comparing(c)') <= Cardinality(Comparing(c)) /\ Cardinality(Comparing(c)) \in Nat
      /\ Cardinality(Comparing(c)') \in Nat
  <2>1. Comparing(c)' \in SUBSET Requests
    BY Zenon
  <2> QED
    BY <2>1, Sizes, SMTT(60)
<1>3. tested[c] + Cardinality(Comparing(c)') < MaxAttempts + Cardinality(Requests)
  <2>1. tested[c] + Cardinality(Comparing(c)) < MaxAttempts + Cardinality(Requests)
    BY Zenon DEF Counted
  <2>2. MaxAttempts \in Nat /\ Cardinality(Requests) \in Nat
    BY Sizes, Zenon
  <2> QED
    BY <1>1, <1>2, <2>1, <2>2, SMTT(60)
<1>4. /\ challenges'[c].attempts <= MaxAttempts
      /\ ~challenges'[c].revoked => challenges'[c].attempts < MaxAttempts
  BY Zenon DEF Counted
<1>5. ValidMFAChallenge(challenges'[c]) =>
         tested'[c] = challenges'[c].attempts + Cardinality(Compared(c)')
  BY SMTT(60) DEF Counted
<1> QED
  BY <1>3, <1>4, <1>5, Zenon DEF Counted, ValidMFAChallenge

\* Every step of a request keeps the balance of a challenge that was there before.
LEMMA CountsServed ==
  ASSUME Types, Counts, NEW r \in Requests, Served(r), NEW c \in 1..Len(challenges),
     ~Challenged(r)
  PROVE  Counted(c)'
<1>1. Counted(c) /\ Others(r)
  BY Zenon DEF Counts, Served, Quiet, Arrives, Completes, Claims1, Registers, Stores,
         Consumes, Compares, Loses, Fails, Spends, Moves, Stops
<1>2. tested[c] \in Int /\ challenges[c] \in Challenge /\ challenges[c].attempts \in Nat
      /\ Len(tested) = Len(challenges)
  BY Rows, ElementOfSeq, Zenon DEF Types, Challenge
<1> DEFINE A == Comparing(c)
           B == Compared(c)
<1>3. /\ A \in SUBSET Requests /\ B \in SUBSET Requests /\ A \cap B = {}
      /\ A' \in SUBSET Requests /\ B' \in SUBSET Requests
      /\ r \notin A' => A' = A \ {r}
      /\ r \in A' => A' = A \cup {r}
      /\ r \notin B' => B' = B \ {r}
      /\ r \in B' => B' = B \cup {r}
  <2>1. A \cap B = {}
    BY Zenon DEF Comparing, Compared
  <2> QED
    BY <1>1, <2>1, Changed
<1>4. /\ r \in A <=> req[r].kind = "verify" /\ req[r].arg = c /\ req[r].at \in {"user", "policy"}
      /\ r \in B <=> req[r].kind = "verify" /\ req[r].arg = c /\ req[r].at \in {"use", "wrong"}
      /\ r \in A' <=> req'[r].kind = "verify" /\ req'[r].arg = c /\ req'[r].at \in {"user", "policy"}
      /\ r \in B' <=> req'[r].kind = "verify" /\ req'[r].arg = c /\ req'[r].at \in {"use", "wrong"}
  BY DEF Comparing, Compared
<1> HIDE DEF A, B
<1>5. ASSUME r \in A' => r \in A,
             tested'[c] = tested[c], challenges'[c].attempts = challenges[c].attempts,
             ~challenges'[c].revoked => ~challenges[c].revoked,
             ValidMFAChallenge(challenges'[c]) =>
                ValidMFAChallenge(challenges[c]) /\ (r \in B' <=> r \in B)
      PROVE  Counted(c)'
  <2>1. A' \subseteq A /\ ((r \in B' <=> r \in B) => B' = B)
    BY <1>3, <1>5, Zenon
  <2> QED
    BY <1>1, <1>3, <1>5, <2>1, Steady, Zenon DEF A, B
<1>6. CASE SameChallenges /\ Stops(r) /\ Free(r)
  <2>1. r \notin A' /\ r \notin B'
    BY <1>4, <1>6, Nobody, Zenon DEF Stops
  <2>2. r \in B => ~ValidMFAChallenge(challenges[c])
    BY <1>4, <1>6, Zenon DEF Free
  <2> QED
    BY <1>5, <1>6, <2>1, <2>2, SMTT(60) DEF SameChallenges
<1>7. ASSUME SameChallenges, NEW at \in Ats, Moves(r, at), req[r].kind # "verify"
      PROVE  Counted(c)'
  BY <1>4, <1>5, <1>7 DEF Moves, SameChallenges
<1>8. ASSUME Quiet(r) PROVE Counted(c)'
  <2>1. CASE Stops(r) /\ Free(r)
    BY <1>6, <1>8, <2>1, Zenon DEF Quiet
  <2>2. ASSUME NEW at \in Ats, Moves(r, at), Path(r, at), req[r].kind = "verify" PROVE Counted(c)'
    <3>1. CASE req[r].at = "start" /\ req[r].arg = c
      <4>1. /\ ValidMFAChallenge(challenges[c])
            /\ r \in A' /\ r \notin A /\ r \notin B /\ r \notin B'
        BY <1>4, <2>2, <3>1, SMTT(60) DEF Path, Moves
      <4>2. A' = A \cup {r} /\ B' = B /\ Cardinality(A') = Cardinality(A) + 1 /\ A' \cap B = {}
        BY <1>3, <4>1, Sizes, Zenon
      <4>3. Cardinality(A') + Cardinality(B) <= Cardinality(Requests)
        BY <1>3, <4>2, Sizes
      <4>4. /\ tested[c] = challenges[c].attempts + Cardinality(B)
            /\ challenges[c].attempts < MaxAttempts
        BY <1>1, <4>1, Zenon DEF Counted, B, ValidMFAChallenge
      <4>5. /\ Cardinality(A') \in Nat /\ Cardinality(B) \in Nat /\ MaxAttempts \in Nat
            /\ Cardinality(Requests) \in Nat
        BY <1>3, Sizes, Zenon
      <4>6. tested[c] + Cardinality(A') < MaxAttempts + Cardinality(Requests)
        BY <1>2, <4>3, <4>4, <4>5
      <4>7. UNCHANGED <<challenges, tested>>
        BY <1>8, Zenon DEF Quiet, SameChallenges
      <4> QED
        BY <1>1, <4>2, <4>6, <4>7, Zenon DEF Counted, A, B, ValidMFAChallenge
    <3>2. CASE ~(req[r].at = "start" /\ req[r].arg = c)
      <4>1. (r \in A' => r \in A) /\ (r \in B' <=> r \in B)
        BY <1>4, <2>2, <3>2 DEF Path, Moves
      <4> QED
        BY <1>5, <1>8, <4>1, Zenon DEF Quiet, SameChallenges
    <3> QED
      BY <3>1, <3>2
  <2> QED
    BY <1>7, <1>8, <2>1, <2>2, Zenon DEF Quiet
<1>9. CASE Arrives(r)
  <2>1. r \notin A' /\ r \notin B' /\ r \notin B
    BY <1>4, <1>9, Nobody DEF Arrives
  <2> QED
    BY <1>5, <1>9, <2>1, Zenon DEF Arrives, SameChallenges
<1>10. CASE Completes(r) \/ Stores(r)
  BY <1>6, <1>10, Zenon DEF Completes, Stores, Free
<1>11. CASE Claims1(r) \/ Registers(r) \/ Consumes(r)
  <2>1. SameChallenges /\ req[r].kind # "verify" /\ \E at \in Ats : Moves(r, at)
    BY <1>11, Zenon DEF Claims1, Registers, Consumes, Ats
  <2> QED
    BY <1>7, <2>1, Zenon
<1>12. CASE Compares(r) /\ req[r].arg = c
  <2>1. r \in A /\ r \notin B /\ r \notin A' /\ r \in B'
    BY <1>4, <1>12, Zenon DEF Compares, Moves
  <2>2. Cardinality(A') = Cardinality(A) - 1 /\ Cardinality(B') = Cardinality(B) + 1
    BY <1>3, <2>1, Sizes
  <2>3. tested'[c] = tested[c] + 1 /\ challenges' = challenges
    BY <1>2, <1>12, Zenon DEF Compares
  <2>4. /\ Cardinality(A) \in Nat /\ Cardinality(B) \in Nat /\ MaxAttempts \in Nat
        /\ Cardinality(Requests) \in Nat
    BY <1>3, Sizes, Zenon
  <2>5. tested'[c] + Cardinality(A') < MaxAttempts + Cardinality(Requests)
    <3>1. tested[c] + Cardinality(A) < MaxAttempts + Cardinality(Requests)
      BY <1>1, Zenon DEF Counted, A
    <3> QED
      BY <1>2, <2>2, <2>3, <2>4, <3>1, SMTT(60)
  <2>6. ValidMFAChallenge(challenges[c]) => tested'[c] = challenges[c].attempts + Cardinality(B')
    <3>1. ValidMFAChallenge(challenges[c]) => tested[c] = challenges[c].attempts + Cardinality(B)
      BY <1>1, Zenon DEF Counted, B
    <3>2. tested'[c] = tested[c] + 1 /\ Cardinality(B') = Cardinality(B) + 1
      BY <2>2, <2>3, Zenon
    <3> QED
      BY <1>2, <2>4, <3>1, <3>2, SMTT(60)
  <2> QED
    BY <1>1, <2>3, <2>5, <2>6 DEF Counted, A, B, ValidMFAChallenge
<1>13. CASE Compares(r) /\ req[r].arg # c
  <2>1. r \notin A' /\ r \notin B /\ r \notin B'
    BY <1>4, <1>13, Zenon DEF Compares, Moves
  <2>2. tested'[c] = tested[c] /\ challenges' = challenges
    BY <1>2, <1>13, Zenon DEF Compares
  <2> QED
    BY <1>5, <2>1, <2>2
<1>14. CASE Fails(r) /\ req[r].arg = c /\ ~challenges[c].used /\ ~challenges[c].revoked
  <2>1. r \notin A /\ r \in B /\ r \notin A' /\ r \notin B'
    BY <1>4, <1>14, Nobody, Zenon DEF Fails, Stops
  <2>2. A' = A /\ Cardinality(B') = Cardinality(B) - 1
    BY <1>3, <2>1, Sizes, Zenon
  <2>3. /\ tested' = tested /\ challenges'[c].attempts = challenges[c].attempts + 1
        /\ challenges'[c].expired = challenges[c].expired
        /\ challenges'[c].revoked <=> challenges[c].attempts + 1 >= MaxAttempts
    BY <1>14 DEF Fails
  <2>4. Cardinality(B) \in Nat /\ MaxAttempts \in Nat /\ challenges[c].attempts < MaxAttempts
    BY <1>1, <1>3, <1>14, Sizes, Zenon DEF Counted
  <2>5. /\ challenges'[c].attempts <= MaxAttempts
        /\ ~challenges'[c].revoked => challenges'[c].attempts < MaxAttempts
    <3>1. challenges'[c].attempts = challenges[c].attempts + 1
          /\ (challenges'[c].revoked <=> challenges'[c].attempts >= MaxAttempts)
      BY <2>3, Zenon
    <3> QED
      BY <1>2, <2>4, <3>1, SMTT(60)
  <2>6. ValidMFAChallenge(challenges'[c]) =>
           tested'[c] = challenges'[c].attempts + Cardinality(B')
    <3>1. ASSUME ValidMFAChallenge(challenges'[c]) PROVE ValidMFAChallenge(challenges[c])
      <4>1. ~challenges'[c].expired
        BY <3>1, Zenon DEF ValidMFAChallenge
      <4> QED
        BY <1>14, <2>3, <2>4, <4>1, Zenon DEF ValidMFAChallenge
    <3>2. ValidMFAChallenge(challenges[c]) => tested[c] = challenges[c].attempts + Cardinality(B)
      BY <1>1, Zenon DEF Counted, B
    <3>3. /\ tested'[c] = tested[c] /\ challenges'[c].attempts = challenges[c].attempts + 1
          /\ Cardinality(B') = Cardinality(B) - 1 /\ Cardinality(B) \in Nat
      BY <2>2, <2>3, <2>4, Zenon
    <3> QED
      BY <1>2, <3>1, <3>2, <3>3, SMTT(60)
  <2> QED
    BY <1>1, <2>2, <2>3, <2>5, <2>6 DEF Counted, A, B, ValidMFAChallenge
<1>15. CASE Fails(r) /\ ~(req[r].arg = c /\ ~challenges[c].used /\ ~challenges[c].revoked)
  <2>1. r \notin A' /\ r \notin B' /\ (r \in B => req[r].arg = c)
    BY <1>4, <1>15, Nobody, Zenon DEF Fails, Stops
  <2>2. tested' = tested /\ challenges'[c] = challenges[c]
    BY <1>15, Zenon DEF Fails, Touches
  <2>3. r \in B => ~ValidMFAChallenge(challenges[c])
    BY <1>15, <2>1, Zenon DEF ValidMFAChallenge
  <2> QED
    BY <1>5, <2>1, <2>2, <2>3
<1>16. CASE Spends(r)
  <2>1. r \notin A' /\ r \notin B' /\ tested' = tested
    BY <1>4, <1>16, Zenon DEF Spends, Moves
  <2>2. CASE req[r].arg = c
    BY <1>5, <1>16, <2>1, <2>2, Zenon DEF Spends, ValidMFAChallenge
  <2>3. CASE req[r].arg # c
    <3>1. challenges'[c] = challenges[c] /\ r \notin B
      BY <1>4, <1>16, <2>3 DEF Spends, Touches
    <3> QED
      BY <1>5, <2>1, <3>1, Zenon
  <2> QED
    BY <2>2, <2>3
<1>17. CASE Loses(r) /\ req[r].arg = c
  <2>1. r \notin A /\ r \in B /\ r \notin A' /\ r \notin B'
    BY <1>4, <1>17, Nobody, Zenon DEF Loses, Stops
  <2>2. A' = A /\ Cardinality(B') = Cardinality(B) - 1
    BY <1>3, <2>1, Sizes, Zenon
  <2>3. tested'[c] = tested[c] - 1 /\ challenges' = challenges
    BY <1>2, <1>17, Zenon DEF Loses
  <2>4. /\ Cardinality(A) \in Nat /\ Cardinality(B) \in Nat /\ MaxAttempts \in Nat
        /\ Cardinality(Requests) \in Nat
    BY <1>3, Sizes, Zenon
  <2>5. tested'[c] + Cardinality(A') < MaxAttempts + Cardinality(Requests)
    <3>1. tested[c] + Cardinality(A) < MaxAttempts + Cardinality(Requests)
      BY <1>1, Zenon DEF Counted, A
    <3> QED
      BY <1>2, <2>2, <2>3, <2>4, <3>1, SMTT(60)
  <2>6. ValidMFAChallenge(challenges[c]) => tested'[c] = challenges[c].attempts + Cardinality(B')
    <3>1. ValidMFAChallenge(challenges[c]) => tested[c] = challenges[c].attempts + Cardinality(B)
      BY <1>1, Zenon DEF Counted, B
    <3>2. tested'[c] = tested[c] - 1 /\ Cardinality(B') = Cardinality(B) - 1
      BY <2>2, <2>3, Zenon
    <3> QED
      BY <1>2, <2>4, <3>1, <3>2, SMTT(60)
  <2> QED
    BY <1>1, <2>3, <2>5, <2>6 DEF Counted, A, B, ValidMFAChallenge
<1>18. CASE Loses(r) /\ req[r].arg # c
  <2>1. r \notin A' /\ r \notin B /\ r \notin B'
    BY <1>4, <1>18, Nobody, Zenon DEF Loses, Stops
  <2>2. tested'[c] = tested[c] /\ challenges' = challenges
    BY <1>2, <1>18, Zenon DEF Loses
  <2> QED
    BY <1>5, <2>1, <2>2
<1> QED
  BY <1>8, <1>9, <1>10, <1>11, <1>12, <1>13, <1>14, <1>15, <1>16, <1>17, <1>18, Zenon DEF Served

\* Every step keeps the balance of all challenges.
LEMMA CountsStep ==
  ASSUME Types, Counts, (\E r \in Requests : Served(r)) \/ Aside
  PROVE  Counts'
<1>0. \A q \in Requests : req[q].kind = "verify" => req[q].arg \in 1..Len(challenges)
  BY SMTT(60) DEF Types, Presents
<1>1. ASSUME NEW r \in Requests, Challenged(r) PROVE Counts'
  <2>1. PICK e \in Challenge : /\ e.attempts = 0 /\ ~e.used /\ ~e.revoked
                               /\ challenges' = Append(challenges, e)
    BY <1>1, Zenon DEF Challenged
  <2>2. /\ Len(challenges') = Len(challenges) + 1 /\ challenges'[Len(challenges')] = e
        /\ \A j \in 1..Len(challenges) : challenges'[j] = challenges[j]
    BY <2>1, Inserted, SMTT(60) DEF Types
  <2>3. /\ tested'[Len(challenges')] = 0 /\ Len(challenges) \in Nat
        /\ \A j \in 1..Len(challenges) : tested'[j] = tested[j]
    <3>1. tested' = Append(tested,
       0) /\ 0 \in Int /\ tested \in Seq(Int) /\ Len(tested) = Len(challenges)
      BY <1>1 DEF Challenged, Types
    <3>2. /\ Len(tested') = Len(tested) + 1 /\ tested'[Len(tested')] = 0
          /\ \A j \in 1..Len(tested) : tested'[j] = tested[j]
      BY <3>1, Inserted, SMTT(60)
    <3> QED
      BY <2>2, <3>1, <3>2, LenProperties, SMTT(60)
  <2>4. req[r].at = "challenge" /\ Stops(r) /\ Others(r)
    BY <1>1, Zenon DEF Challenged, Stops
  <2>5. ASSUME NEW c \in 1..Len(challenges) PROVE Counted(c)'
    <3>1. Comparing(c)' = Comparing(c) /\ Compared(c)' = Compared(c)
      BY <2>4, Nobody, Zenon DEF Stops, Others, Comparing, Compared
    <3>2. Comparing(c) \in SUBSET Requests
      BY DEF Comparing
    <3> QED
      BY <2>2, <2>3, <3>1, <3>2, Steady, Zenon DEF Counts
  <2>6. ASSUME NEW c, c = Len(challenges') PROVE Counted(c)'
    <3>1. c \notin 1..Len(challenges)
      BY <2>2, <2>3, <2>6, SMTT(60)
    <3>2. Comparing(c)' = {} /\ Compared(c)' = {}
      BY <1>0, <2>4, <3>1, Nobody, Zenon DEF Stops, Others, Comparing, Compared
    <3>3. Cardinality({}) = 0
      BY FS_EmptySet, Zenon
    <3>4. Cardinality(Comparing(c)') = 0 /\ Cardinality(Compared(c)') = 0
      BY <3>2, <3>3
    <3>5. challenges'[c].attempts = 0 /\ tested'[c] = 0 /\ ~challenges'[c].revoked
      BY <2>1, <2>2, <2>3, <2>6, Zenon
    <3>6. MaxAttempts \in Nat \ {0} /\ Cardinality(Requests) \in Nat
      BY Sizes, Zenon
    <3>7. 0 <= MaxAttempts /\ 0 < MaxAttempts /\ 0 = 0 + 0
          /\ 0 + 0 < MaxAttempts + Cardinality(Requests)
      BY <3>6, SMTT(60)
    <3> QED
      BY <3>4, <3>5, <3>7, Zenon DEF Counted
  <2> QED
    BY <2>2, <2>3, <2>5, <2>6, SMTT(60) DEF Counts
<1>2. ASSUME NEW r \in Requests, Served(r), ~Challenged(r) PROVE Counts'
  <2>1. Len(challenges') = Len(challenges)
    BY <1>2, Zenon DEF Served, Quiet, Arrives, Completes, Claims1, Registers, Stores,
           Consumes, Compares, Loses, Fails, Spends, SameChallenges, Touches
  <2> QED
    BY <1>2, <2>1, CountsServed DEF Counts
<1>3. CASE Aside
  <2>1. /\ Len(challenges') = Len(challenges) /\ tested' = tested
        /\ \A c \in 1..Len(challenges) :
              /\ challenges'[c].used = challenges[c].used
              /\ challenges'[c].revoked = challenges[c].revoked
              /\ challenges'[c].attempts = challenges[c].attempts
              /\ challenges[c].expired => challenges'[c].expired
    BY <1>3, Zenon DEF Aside, Calm, Begins, Switches, Ages, SameChallenges
  <2>2. \A q \in Requests : /\ req'[q].kind = req[q].kind /\ req'[q].at = req[q].at
                            /\ req'[q].arg = req[q].arg
    BY <1>3, Zenon DEF Aside, Calm, Begins, Switches, Ages
  <2>3. ASSUME NEW c \in 1..Len(challenges) PROVE Counted(c)'
    <3>1. Comparing(c)' = Comparing(c) /\ Compared(c)' = Compared(c)
      BY <2>2, Zenon DEF Comparing, Compared
    <3>2. Comparing(c) \in SUBSET Requests
      BY Zenon DEF Comparing
    <3>3. ValidMFAChallenge(challenges'[c]) => ValidMFAChallenge(challenges[c])
      BY <2>1 DEF ValidMFAChallenge
    <3> QED
      BY <2>1, <3>1, <3>2, <3>3, Steady, Zenon DEF Counts
  <2> QED
    BY <2>1, <2>3 DEF Counts
<1> QED
  BY <1>1, <1>2, <1>3, SMTT(60)

-----------------------------------------------------------------------------
\* The inductive invariant.
Inv == Types /\ Late /\ DisabledOpensNothing /\ Claims /\ Proofs /\ OneSessionPerProof /\ Counts

\* The first state satisfies it.
LEMMA InvInit ==
  ASSUME Init
  PROVE  Inv
<1>1. /\ \A r \in Requests : req[r].kind = "none"
      /\ sessions = <<>> /\ challenges = <<>> /\ logins = <<>>
  BY Nobody, Zenon DEF Init
<1>2. Claims
  BY <1>1, SMTT(60) DEF Claims, Claimed
<1>3. Proofs
  BY <1>1 DEF Proofs, Won, Opened
<1>4. OneSessionPerProof
  BY <1>1 DEF OneSessionPerProof
<1>5. Counts
  BY <1>1, SMTT(60) DEF Counts
<1> QED
  BY <1>2, <1>3, <1>4, <1>5, TypesInit, LateInit DEF Inv

\* Every step keeps it.
LEMMA InvStep ==
  ASSUME Inv, [Next]_vars
  PROVE  Inv'
<1>1. (\E r \in Requests : Served(r)) \/ Aside
  BY Forms DEF Inv
<1>2. Types'
  BY <1>1, TypesStep, Zenon DEF Inv
<1> QED
  BY <1>1, <1>2, LateStep, DisabledStep, ClaimsStep, ProofsStep, OnceStep, CountsStep DEF Inv

\* The balance bounds the codes compared against a challenge.
LEMMA Bounded ==
  ASSUME Types, Counts
  PROVE  CodesAreBounded
<1>1. ASSUME NEW c \in DOMAIN challenges
      PROVE  /\ challenges[c].attempts <= MaxAttempts
             /\ tested[c] < MaxAttempts + Cardinality(Requests)
  <2>1. c \in 1..Len(challenges) /\ tested[c] \in Int
    BY Rows, ElementOfSeq, Zenon DEF Types
  <2>2. Comparing(c) \in SUBSET Requests
    BY Zenon DEF Comparing
  <2>3. Cardinality(Comparing(c)) \in Nat /\ Cardinality(Requests) \in Nat /\ MaxAttempts \in Nat
    BY <2>2, Sizes
  <2>4. Counted(c)
    BY <2>1 DEF Counts
  <2> QED
    BY <2>1, <2>3, <2>4, SMTT(60) DEF Counted
<1> QED
  BY <1>1, Zenon DEF CodesAreBounded

\* It holds in every state.
LEMMA Invariance == Spec => []Inv
<1>1. Init => Inv
  BY InvInit
<1>2. Inv /\ [Next]_vars => Inv'
  BY InvStep
<1> QED
  BY <1>1, <1>2, PTL DEF Spec

\* A challenge and a login ticket open at most one session each, for any number of requests
\* that present them at the same time (MarkUsed, ConsumeTicket).
THEOREM OncePerProof == Spec => []OneSessionPerProof
<1>1. Inv => OneSessionPerProof
  BY DEF Inv
<1> QED
  BY <1>1, Invariance, PTL

\* At most MaxAttempts failures are counted for a challenge, and fewer codes are compared
\* with the secret than that and the requests in flight together (VerifyMFA,
\* RecordFailedAttempt).  A failure that the Meta DB does not take is left out.
THEOREM BoundedCodes == Spec => []CodesAreBounded
<1>1. Inv => CodesAreBounded
  BY Bounded DEF Inv
<1> QED
  BY <1>1, Invariance, PTL

\* A request that arrives after the account was disabled opens no session, whatever it
\* presents and however its steps are interleaved with others.
THEOREM NothingAfterDisabling == Spec => []DisabledOpensNothing
<1>1. Inv => DisabledOpensNothing
  BY DEF Inv
<1> QED
  BY <1>1, Invariance, PTL
=============================================================================
