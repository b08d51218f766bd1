------------------------ MODULE ConnectionPoolsProofs ------------------------
(***************************************************************************)
(* CredentialPoolManager keeps no outdated pool, and the managers leak no  *)
(* pool, for any number of requests, connections, roles and changes.       *)
(*                                                                         *)
(* CachedIsCurrent says nothing of the flights, which are what the cached  *)
(* entries come from.  Fresh adds that a flight of the current generation  *)
(* has current credentials, and that nobody has a generation of the future *)
(* (so that Invalidate outdates all of them).  PoolsAreOwned needs that a  *)
(* pool has one holder only, or closing it for one would close it for the  *)
(* other: Owned adds that.                                                 *)
(***************************************************************************)
EXTENDS ConnectionPools, TLAPS

Flight == [key : PoolKeys, gen : Nat, fp : Credentials, at : {"check", "open", "publish"}, db : Nat]
Entry  == [fp : Credentials \cup {Deleted}, db : Nat]

Call   == [at : {"idle", "begin", "resolve", "wait", "using", "resolved", "shared"},
           key : PoolKeys \cup {<<>>}, gen : Nat, fp : Credentials \cup {Deleted},
           attempt : {0, 1}, db : Nat]
Change == [at : {"idle", "update", "secrets", "pools", "entries"}, conn : Connections \cup {"none"}]

PoolTypes ==
    /\ row \in [Connections -> Credentials \cup {Deleted}]
    /\ entries \in [PoolKeys -> Entry]
    /\ generations \in [Connections -> Nat]
    /\ flights \subseteq Flight
    /\ pools \in [Connections -> Nat]
    /\ open \subseteq Nat /\ opened \in Nat
    /\ caller \in [Callers -> Call]
    /\ admin \in [Admins -> Change]

\* What the requests in progress know.
Requests ==
    /\ \A c \in Callers : /\ caller[c].at # "idle" => caller[c].key \in PoolKeys
                          /\ caller[c].at = "resolve" => caller[c].gen <= generations[caller[c].key[1]]
                          /\ caller[c].at = "resolved" => caller[c].fp # Deleted
    /\ \A a \in Admins : admin[a].at # "idle" => admin[a].conn \in Connections

\* An administrator's request, or its failure, explains outdated credentials.
Excused(n) == Changing(n) \/ n \in missed

Fresh ==
    /\ \A k \in PoolKeys : entries[k].db # 0 => Excused(k[1]) \/ entries[k].fp = row[k[1]]
    /\ \A f \in flights : /\ f.gen <= generations[f.key[1]]
                          /\ f.gen = generations[f.key[1]] => Excused(f.key[1]) \/ f.fp = row[f.key[1]]

\* Who holds pool x.
Held(x) == \/ \E k \in PoolKeys : entries[k].db = x
           \/ \E n \in Connections : pools[n] = x
           \/ \E f \in flights : f.db = x

OneHolder ==
    /\ \A k, l \in PoolKeys : entries[k].db = entries[l].db /\ entries[k].db # 0 => k = l
    /\ \A n, m \in Connections : pools[n] = pools[m] /\ pools[n] # 0 => n = m
    /\ \A f, g \in flights : f.db = g.db /\ f.db # 0 => f = g
    /\ \A k \in PoolKeys, n \in Connections : entries[k].db = pools[n] => pools[n] = 0
    /\ \A k \in PoolKeys, f \in flights : entries[k].db = f.db => f.db = 0
    /\ \A n \in Connections, f \in flights : pools[n] = f.db => f.db = 0

Owned ==
    /\ \A x \in Nat : x \in open <=> x # 0 /\ Held(x)
    /\ \A x \in Nat : Held(x) => x <= opened
    /\ \A f \in flights : f.at # "publish" => f.db = 0
    /\ OneHolder

PoolInv == PoolTypes /\ Requests /\ Fresh /\ Owned

-----------------------------------------------------------------------------
\* A key's first component is its connection.
LEMMA KeyConnection == \A k \in PoolKeys : k[1] \in Connections /\ k[2] \in Roles
BY DEF PoolKeys

\* The empty records have their types.
LEMMA Empties == NoCall \in Call /\ NoChange \in Change /\ NoEntry \in Entry
BY DEF NoCall, NoChange, NoEntry, Call, Change, Entry

\* A step that leaves rows, managers, flights and administrators alone keeps what is said
\* of them.
LEMMA Quiet ==
    ASSUME Fresh, Owned, UNCHANGED <<row, entries, generations, flights, pools, admin, open, opened, missed>>
    PROVE  Fresh' /\ Owned'
<1>1. Fresh' BY DEF Fresh, Excused, Changing
<1>2. Owned' BY DEF Owned, OneHolder, Held
<1>. QED BY <1>1, <1>2

\* The state before the first request satisfies the invariant.
LEMMA InitInv == PoolInit => PoolInv
<1>. SUFFICES ASSUME PoolInit PROVE PoolInv OBVIOUS
<1>. USE PoolAssumption DEF PoolInit
<1>1. PoolTypes BY Empties DEF PoolTypes
<1>2. Requests BY DEF Requests, NoCall, NoChange
<1>3. Fresh BY DEF Fresh, NoEntry
<1>4. \A x : Held(x) => x = 0 BY DEF Held, NoEntry
<1>5. OneHolder BY DEF OneHolder, NoEntry
<1>6. Owned BY <1>4, <1>5 DEF Owned
<1>. QED BY <1>1, <1>2, <1>3, <1>6 DEF PoolInv

\* The steps of a caller that touch nothing but the caller.
LEMMA CallerInv ==
    ASSUME PoolInv, NEW c \in Callers,
           \/ \E k \in PoolKeys : CallCredentialPool(c, k) \/ ResolveCredential(c, k)
           \/ ReadGeneration(c) \/ GiveUp(c) \/ LeavePool(c) \/ LeaveShared(c)
    PROVE  PoolInv'
<1>. USE DEF PoolInv
<1>1. UNCHANGED <<row, entries, generations, flights, pools, admin, open, opened, missed>>
    BY Zenon DEF CallCredentialPool, ResolveCredential, ReadGeneration, GiveUp, LeavePool, LeaveShared
<1>2. Fresh' /\ Owned' BY <1>1, Quiet
<1>3. CASE GiveUp(c) \/ LeavePool(c) \/ LeaveShared(c)
    <2>1. caller' = [caller EXCEPT ![c] = NoCall] BY <1>3 DEF GiveUp, LeavePool, LeaveShared
    <2>2. PoolTypes' BY <1>1, <2>1, Empties DEF PoolTypes
    <2>3. Requests' BY <1>1, <2>1 DEF Requests, NoCall, PoolTypes
    <2>. QED BY <1>2, <2>2, <2>3
<1>4. CASE ReadGeneration(c)
    <2>1. caller[c].key \in PoolKeys /\ generations[caller[c].key[1]] \in Nat
        BY <1>4, KeyConnection DEF ReadGeneration, Requests, PoolTypes
    <2>2. PICK g \in Nat : g = generations[caller[c].key[1]] BY <2>1
    <2>3. caller' = [caller EXCEPT ![c] = [caller[c] EXCEPT !.at = "resolve", !.gen = g]]
        BY <1>4, <2>2, Zenon DEF ReadGeneration, PoolTypes
    <2>4. caller[c] \in Call BY DEF PoolTypes
    <2>5. [caller[c] EXCEPT !.at = "resolve", !.gen = g] \in Call BY <2>4 DEF Call
    <2>6. PoolTypes' BY <1>1, <2>3, <2>5 DEF PoolTypes
    <2>7. Requests' BY <1>1, <2>1, <2>2, <2>3, <2>4 DEF Requests, PoolTypes, Call
    <2>. QED BY <1>2, <2>6, <2>7
<1>5. ASSUME NEW k \in PoolKeys, CallCredentialPool(c, k) PROVE PoolInv'
    <2>1. caller' = [caller EXCEPT ![c] = [NoCall EXCEPT !.at = "begin", !.key = k]]
        BY <1>5 DEF CallCredentialPool
    <2>2. PoolTypes' BY <1>1, <2>1, Empties DEF PoolTypes, Call
    <2>3. Requests' BY <1>1, <2>1, Empties DEF Requests, PoolTypes, Call
    <2>. QED BY <1>2, <2>2, <2>3
<1>6. ASSUME NEW k \in PoolKeys, ResolveCredential(c, k) PROVE PoolInv'
    <2>1. caller' = [caller EXCEPT ![c] = [NoCall EXCEPT !.at = "resolved", !.key = k, !.fp = row[k[1]]]]
        BY <1>6, Zenon DEF ResolveCredential
    <2>2. row[k[1]] \in Credentials /\ row[k[1]] # Deleted
        BY <1>6, KeyConnection, Zenon DEF ResolveCredential, PoolTypes
    <2>3. PoolTypes' BY <1>1, <2>1, <2>2, Empties, Zenon DEF PoolTypes, Call
    <2>4. Requests' BY <1>1, <2>1, <2>2, Empties DEF Requests, PoolTypes, Call
    <2>. QED BY <1>2, <2>3, <2>4
<1>. QED BY <1>3, <1>4, <1>5, <1>6

-----------------------------------------------------------------------------
(* The flights.  A step of one flight replaces it or ends it.              *)

\* A caller that gets an answer is again in a state its type allows.
LEMMA AnswerInv ==
    ASSUME PoolTypes, Requests, NEW f \in flights, NEW err, NEW db \in Nat, Return(f, err, db),
           UNCHANGED <<generations, admin>>
    PROVE  caller' \in [Callers -> Call] /\ Requests'
<1>1. ASSUME NEW c \in Callers
      PROVE  /\ Answered(caller[c], err, db) \in Call
             /\ WaitsFor(f, c) => /\ Answered(caller[c], err, db).at # "idle" => Answered(caller[c], err, db).key \in PoolKeys
                                  /\ Answered(caller[c], err, db).at \notin {"resolve", "resolved"}
    <2>1. caller[c] \in Call BY DEF PoolTypes
    <2>2. caller[c].key \in PoolKeys \cup {<<>>} BY <2>1 DEF Call
    <2>3. WaitsFor(f, c) => caller[c].key \in PoolKeys BY DEF WaitsFor, Requests
    <2>4. CASE err = "none"
        BY <2>1, <2>3, <2>4, Zenon DEF Answered, Call
    <2>5. CASE err # "none" /\ err = "invalidated" /\ caller[c].attempt = 0
        BY <2>2, <2>3, <2>5 DEF Answered, Call, NoCall
    <2>6. CASE err # "none" /\ ~(err = "invalidated" /\ caller[c].attempt = 0)
        <3>1. Answered(caller[c], err, db) = NoCall BY <2>6 DEF Answered
        <3>. QED BY <3>1, Empties DEF NoCall
    <2>. QED BY <2>4, <2>5, <2>6
<1>2. \A c \in Callers : caller'[c] = IF WaitsFor(f, c) THEN Answered(caller[c], err, db) ELSE caller[c]
    BY DEF Return
<1>3. caller' \in [Callers -> Call] BY <1>1 DEF Return, PoolTypes
<1>4. Requests' BY <1>1, <1>2 DEF Requests
<1>. QED BY <1>3, <1>4

\* Fresh needs to be looked at again only for flights that are new.
LEMMA FlightFresh ==
    ASSUME Fresh, UNCHANGED <<row, entries, generations, admin, missed>>,
           \A g \in flights' : \E f \in flights : g.key = f.key /\ g.gen = f.gen /\ g.fp = f.fp
    PROVE  Fresh'
BY DEF Fresh, Excused, Changing

\* A caller starts a flight.
LEMMA ResolveInv ==
    ASSUME PoolInv, NEW c \in Callers, ResolveDescriptor(c)
    PROVE  PoolInv'
<1>. DEFINE me == caller[c]
            fp == row[me.key[1]]
            new == [key |-> me.key, gen |-> me.gen, fp |-> fp, at |-> "check", db |-> 0]
<1>1. /\ me \in Call /\ me.key \in PoolKeys /\ me.gen \in Nat
      /\ me.gen <= generations[me.key[1]] /\ fp \in Credentials \cup {Deleted}
    BY KeyConnection DEF ResolveDescriptor, PoolInv, PoolTypes, Requests, Call
<1>2. UNCHANGED <<row, entries, generations, pools, admin, open, opened, missed>> BY DEF ResolveDescriptor
<1>3. CASE UNCHANGED flights /\ caller' = [caller EXCEPT ![c] = NoCall]
    <2>1. UNCHANGED flights /\ caller' = [caller EXCEPT ![c] = NoCall] BY <1>3
    <2>2. Fresh' /\ Owned' BY <1>2, <2>1, Quiet DEF PoolInv
    <2>3. PoolTypes' BY <1>2, <2>1, Empties DEF PoolInv, PoolTypes
    <2>4. Requests' BY <1>2, <2>1 DEF PoolInv, Requests, NoCall, PoolTypes
    <2>. QED BY <2>2, <2>3, <2>4 DEF PoolInv
<1>4. CASE /\ fp # Deleted
           /\ caller' = [caller EXCEPT ![c].at = "wait", ![c].fp = fp]
           /\ flights' = flights \/ flights' = flights \cup {new}
    <2>1. caller' = [caller EXCEPT ![c] = [me EXCEPT !.at = "wait", !.fp = fp]]
        BY <1>4, Zenon DEF PoolInv, PoolTypes
    <2>2. flights' = flights \/ flights' = flights \cup {new} BY <1>4
    <2>3. new \in Flight BY <1>1, <1>4 DEF Flight
    <2>4. [me EXCEPT !.at = "wait", !.fp = fp] \in Call BY <1>1 DEF Call
    <2>5. PoolTypes' BY <1>2, <2>1, <2>2, <2>3, <2>4 DEF PoolInv, PoolTypes
    <2>6. Requests' BY <1>1, <1>2, <2>1 DEF PoolInv, Requests, PoolTypes, Call
    <2>7. Fresh' BY <1>1, <1>2, <2>2 DEF PoolInv, Fresh, Excused, Changing
    <2>8. new.db = 0 OBVIOUS
    <2>. HIDE DEF new
    <2>9. \A x : x # 0 => (Held(x)' <=> Held(x)) BY <1>2, <2>2, <2>8 DEF Held
    <2>10. OneHolder' BY <1>2, <2>2, <2>8 DEF PoolInv, Owned, OneHolder
    <2>11. Owned' BY <1>2, <2>2, <2>8, <2>9, <2>10 DEF PoolInv, Owned, PoolTypes
    <2>. QED BY <2>5, <2>6, <2>7, <2>11 DEF PoolInv
<1>. QED BY <1>3, <1>4 DEF ResolveDescriptor

\* A flight without a pool ends, or goes on without one.
LEMMA EmptyFlight ==
    ASSUME PoolTypes, Owned, NEW f \in flights, NEW g, f.db = 0, g.db = 0,
           flights' = flights \ {f} \/ flights' = (flights \ {f}) \cup {g},
           UNCHANGED <<entries, pools, open, opened>>
    PROVE  Owned'
<1>1. \A x : x # 0 => (Held(x)' <=> Held(x)) BY DEF Held
<1>2. OneHolder' BY DEF Owned, OneHolder
<1>. QED BY <1>1, <1>2 DEF Owned, PoolTypes

\* A flight finds the generation changed, or the pool it wants, or goes on to open one.
LEMMA CheckInv ==
    ASSUME PoolInv, NEW f \in flights, CheckEntry(f)
    PROVE  PoolInv'
<1>. USE DEF PoolInv
<1>1. f \in Flight /\ f.db = 0 /\ f.key \in PoolKeys BY DEF CheckEntry, PoolTypes, Owned, Flight
<1>2. UNCHANGED <<row, entries, generations, pools, admin, open, opened, missed>> BY DEF CheckEntry
<1>3. ASSUME NEW err, NEW db \in Nat, Return(f, err, db) PROVE PoolInv'
    <2>1. caller' \in [Callers -> Call] /\ Requests' BY <1>2, <1>3, AnswerInv
    <2>2. flights' = flights \ {f} BY <1>3 DEF Return
    <2>3. PoolTypes' BY <1>2, <2>1, <2>2 DEF PoolTypes
    <2>4. Fresh' BY <1>2, <2>2, FlightFresh
    <2>5. Owned' BY <1>1, <1>2, <2>2, EmptyFlight
    <2>. QED BY <2>1, <2>3, <2>4, <2>5
<1>4. ASSUME flights' = (flights \ {f}) \cup {[f EXCEPT !.at = "open"]}, UNCHANGED caller PROVE PoolInv'
    <2>. DEFINE g == [f EXCEPT !.at = "open"]
    <2>1. g \in Flight /\ g.db = 0 /\ g.key = f.key /\ g.gen = f.gen /\ g.fp = f.fp BY <1>1 DEF Flight
    <2>2. flights' = (flights \ {f}) \cup {g} BY <1>4
    <2>. HIDE DEF g
    <2>3. PoolTypes' BY <1>2, <1>4, <2>1, <2>2 DEF PoolTypes
    <2>4. Requests' BY <1>2, <1>4 DEF Requests
    <2>5. Fresh' BY <1>2, <2>1, <2>2, FlightFresh
    <2>6. Owned' BY <1>1, <1>2, <2>1, <2>2, EmptyFlight
    <2>. QED BY <2>3, <2>4, <2>5, <2>6
<1>5. entries[f.key].db \in Nat BY <1>1 DEF PoolTypes, Entry
<1>6. \/ Return(f, "invalidated", 0) \/ Return(f, "none", entries[f.key].db)
      \/ flights' = (flights \ {f}) \cup {[f EXCEPT !.at = "open"]} /\ UNCHANGED caller
    BY DEF CheckEntry
<1>. QED BY <1>3, <1>4, <1>5, <1>6

\* A flight opens a pool, which nobody else has, or fails to.
LEMMA OpenInv ==
    ASSUME PoolInv, NEW f \in flights, OpenPool(f)
    PROVE  PoolInv'
<1>. USE DEF PoolInv
<1>1. f \in Flight /\ f.db = 0 BY DEF OpenPool, PoolTypes, Owned
<1>2. UNCHANGED <<row, entries, generations, pools, admin, missed>> BY DEF OpenPool
<1>3. CASE Return(f, "failed", 0) /\ UNCHANGED <<open, opened>>
    <2>1. caller' \in [Callers -> Call] /\ Requests' BY <1>2, <1>3, AnswerInv
    <2>2. flights' = flights \ {f} BY <1>3 DEF Return
    <2>3. PoolTypes' BY <1>2, <1>3, <2>1, <2>2 DEF PoolTypes
    <2>4. Fresh' BY <1>2, <2>2, FlightFresh
    <2>5. Owned' BY <1>1, <1>2, <1>3, <2>2, EmptyFlight
    <2>. QED BY <2>1, <2>3, <2>4, <2>5
<1>4. CASE /\ opened' = opened + 1 /\ open' = open \cup {opened + 1}
           /\ flights' = (flights \ {f}) \cup {[f EXCEPT !.at = "publish", !.db = opened + 1]}
           /\ UNCHANGED caller
    <2>. DEFINE g == [f EXCEPT !.at = "publish", !.db = opened + 1]
    <2>1. opened \in Nat BY DEF PoolTypes
    <2>2. g \in Flight /\ g.db = opened + 1 /\ g.at = "publish" /\ g.key = f.key /\ g.gen = f.gen /\ g.fp = f.fp
        <3>1. PICK d \in Nat : d = opened + 1 BY <2>1
        <3>2. g = [f EXCEPT !.at = "publish", !.db = d] BY <3>1
        <3>. QED BY <1>1, <3>1, <3>2 DEF Flight
    <2>3. flights' = (flights \ {f}) \cup {g} BY <1>4
    <2>. HIDE DEF g
    <2>4. PoolTypes' BY <1>2, <1>4, <2>1, <2>2, <2>3 DEF PoolTypes
    <2>5. Requests' BY <1>2, <1>4 DEF Requests
    <2>6. Fresh' BY <1>2, <2>2, <2>3, FlightFresh
    <2>7. \A x \in Nat : x # 0 => (Held(x)' <=> Held(x) \/ x = opened + 1)
        BY <1>1, <1>2, <2>2, <2>3 DEF Held
    <2>8. ~Held(opened + 1) BY <2>1 DEF Owned
    <2>9. OneHolder' BY <1>1, <1>2, <2>2, <2>3, <2>8 DEF Owned, OneHolder, Held
    <2>10. \A x \in Nat : Held(x)' => x <= opened'
        BY <1>4, <2>1, <2>7 DEF Owned
    <2>11. \A x \in Nat : x \in open' <=> x # 0 /\ Held(x)'
        BY <1>4, <2>1, <2>7 DEF Owned
    <2>12. \A h \in flights' : h.at # "publish" => h.db = 0
        BY <2>2, <2>3 DEF Owned
    <2>13. Owned' BY <2>9, <2>10, <2>11, <2>12 DEF Owned
    <2>. QED BY <2>4, <2>5, <2>6, <2>13
<1>. QED BY <1>3, <1>4 DEF OpenPool

\* A flight finds the generation changed and closes its pool, or hands it to the manager.
LEMMA PublishInv ==
    ASSUME PoolInv, NEW f \in flights, PublishPool(f)
    PROVE  PoolInv'
<1>. USE DEF PoolInv
<1>1. f \in Flight /\ f.key \in PoolKeys /\ f.db \in Nat /\ f.fp \in Credentials BY DEF PoolTypes, Flight
<1>2. UNCHANGED <<row, generations, pools, admin, opened, missed>> BY DEF PublishPool
<1>3. PICK err \in {"none", "invalidated"}, db \in Nat : Return(f, err, db) BY <1>1 DEF PublishPool, Published
<1>4. caller' \in [Callers -> Call] /\ Requests' BY <1>2, <1>3, AnswerInv
<1>5. flights' = flights \ {f} BY <1>3 DEF Return
<1>6. CASE open' = open \ {f.db} /\ UNCHANGED entries
    <2>1. PoolTypes' BY <1>2, <1>4, <1>5, <1>6, Zenon DEF PoolTypes
    <2>2. Fresh' BY <1>2, <1>5, <1>6, FlightFresh
    <2>3. \A x \in Nat : x # 0 => (Held(x)' <=> Held(x) /\ x # f.db)
        BY <1>2, <1>5, <1>6 DEF Held, Owned, OneHolder
    <2>4. OneHolder' BY <1>2, <1>5, <1>6 DEF Owned, OneHolder
    <2>5. \A x \in Nat : x \in open' <=> x # 0 /\ Held(x)' BY <1>6, <2>3 DEF Owned
    <2>6. \A x \in Nat : Held(x)' => x <= opened' BY <1>2, <2>3 DEF Owned, PoolTypes
    <2>7. \A h \in flights' : h.at # "publish" => h.db = 0 BY <1>5 DEF Owned
    <2>8. Owned' BY <2>4, <2>5, <2>6, <2>7 DEF Owned
    <2>. QED BY <1>4, <2>1, <2>2, <2>8
<1>7. CASE /\ f.gen = generations[f.key[1]]
           /\ entries' = [entries EXCEPT ![f.key] = [fp |-> f.fp, db |-> f.db]]
           /\ open' = open \ {entries[f.key].db}
    <2>1. \A k \in PoolKeys : entries'[k] = IF k = f.key THEN [fp |-> f.fp, db |-> f.db] ELSE entries[k]
        BY <1>7 DEF PoolTypes
    <2>2. [fp |-> f.fp, db |-> f.db] \in Entry BY <1>1 DEF Entry
    <2>3. PoolTypes' BY <1>2, <1>4, <1>5, <1>7, <2>2, Zenon DEF PoolTypes
    <2>4. \A k \in PoolKeys : entries'[k].db = IF k = f.key THEN f.db ELSE entries[k].db BY <2>1
    <2>5. \A k \in PoolKeys : entries'[k].fp = IF k = f.key THEN f.fp ELSE entries[k].fp BY <2>1
    <2>6. Fresh' BY <1>1, <1>2, <1>5, <1>7, <2>4, <2>5 DEF Fresh, Excused, Changing
    <2>7. \A x \in Nat : x # 0 => (Held(x)' <=> Held(x) /\ x # entries[f.key].db)
        <3>. SUFFICES ASSUME NEW x \in Nat, x # 0 PROVE Held(x)' <=> Held(x) /\ x # entries[f.key].db OBVIOUS
        <3>1. Held(x)' => Held(x) BY <1>1, <1>2, <1>5, <2>4, Zenon DEF Held
        <3>2. x = entries[f.key].db => ~Held(x)' BY <1>1, <1>2, <1>5, <2>4 DEF Held, Owned, OneHolder
        <3>3. Held(x) /\ x # entries[f.key].db => Held(x)' BY <1>1, <1>2, <1>5, <2>4 DEF Held
        <3>. QED BY <3>1, <3>2, <3>3
    <2>8. OneHolder' BY <1>1, <1>2, <1>5, <2>4 DEF Owned, OneHolder
    <2>9. \A x \in Nat : x \in open' <=> x # 0 /\ Held(x)' BY <1>7, <2>7 DEF Owned
    <2>10. \A x \in Nat : Held(x)' => x <= opened' BY <1>2, <2>7 DEF Owned, PoolTypes
    <2>11. \A h \in flights' : h.at # "publish" => h.db = 0 BY <1>5 DEF Owned
    <2>12. Owned' BY <2>8, <2>9, <2>10, <2>11 DEF Owned
    <2>. QED BY <1>4, <2>3, <2>6, <2>12
<1>. QED BY <1>6, <1>7 DEF PublishPool, Published

-----------------------------------------------------------------------------
(* The managers with one entry per connection, and the administrators.     *)

\* A request finds the connection's pool, or opens one nobody else has.
LEMMA GetInv ==
    ASSUME PoolInv, NEW c \in Callers, GetOrCreate(c)
    PROVE  PoolInv'
<1>. USE DEF PoolInv
<1>. DEFINE n == caller[c].key[1]
<1>1. caller[c] \in Call /\ caller[c].key \in PoolKeys /\ n \in Connections /\ caller[c].key[2] \in Roles
    BY KeyConnection DEF GetOrCreate, PoolTypes, Requests
<1>2. UNCHANGED <<row, entries, generations, flights, admin, missed>> BY DEF GetOrCreate
<1>3. ASSUME NEW d \in Nat, caller' = [caller EXCEPT ![c] = [caller[c] EXCEPT !.at = "shared", !.db = d]]
      PROVE  caller' \in [Callers -> Call] /\ Requests'
    <2>1. [caller[c] EXCEPT !.at = "shared", !.db = d] \in Call BY <1>1, <1>3 DEF Call
    <2>2. caller' \in [Callers -> Call] BY <1>3, <2>1 DEF PoolTypes
    <2>3. Requests' BY <1>1, <1>2, <1>3 DEF Requests, PoolTypes, Call
    <2>. QED BY <2>2, <2>3
<1>4. CASE pools[n] # 0
    <2>1. UNCHANGED <<pools, open, opened>> BY <1>4 DEF GetOrCreate
    <2>2. pools[n] \in Nat BY <1>1 DEF PoolTypes
    <2>3. caller' = [caller EXCEPT ![c] = [caller[c] EXCEPT !.at = "shared", !.db = pools[n]]]
        BY <1>4 DEF GetOrCreate, PoolTypes
    <2>4. caller' \in [Callers -> Call] /\ Requests' BY <1>3, <2>2, <2>3
    <2>5. PoolTypes' BY <1>2, <2>1, <2>4 DEF PoolTypes
    <2>6. Fresh' /\ Owned' BY <1>2, <2>1, Quiet
    <2>. QED BY <2>4, <2>5, <2>6
<1>5. CASE pools[n] = 0 /\ pools' = [pools EXCEPT ![n] = opened + 1]
         /\ open' = open \cup {opened + 1} /\ opened' = opened + 1
         /\ caller' = [caller EXCEPT ![c].at = "shared", ![c].db = opened + 1]
    <2>1. opened \in Nat BY DEF PoolTypes
    <2>2. PICK d \in Nat : d = opened + 1 BY <2>1
    <2>3. /\ pools' = [pools EXCEPT ![n] = d]
          /\ open' = open \cup {d} /\ opened' = d
        BY <1>5, <2>2
    <2>4. caller' = [caller EXCEPT ![c] = [caller[c] EXCEPT !.at = "shared", !.db = d]]
        BY <1>5, <2>2 DEF PoolTypes
    <2>5. caller' \in [Callers -> Call] /\ Requests' BY <1>3, <2>4
    <2>8. PoolTypes' BY <1>2, <2>2, <2>3, <2>5, Zenon DEF PoolTypes
    <2>9. Fresh' BY <1>2 DEF Fresh, Excused, Changing
    <2>10. \A m \in Connections : pools'[m] = IF m = n THEN d ELSE pools[m]
        BY <2>3 DEF PoolTypes
    <2>. HIDE DEF n
    <2>11. ~Held(d) BY <2>1, <2>2 DEF Owned
    <2>12. \A x \in Nat : x # 0 => (Held(x)' <=> Held(x) \/ x = d)
        BY <1>1, <1>2, <1>5, <2>10, Zenon DEF Held
    <2>13. OneHolder' BY <1>1, <1>2, <2>10, <2>11 DEF Owned, OneHolder, Held
    <2>14. \A x \in Nat : x \in open' <=> x # 0 /\ Held(x)' BY <2>1, <2>2, <2>3, <2>12 DEF Owned
    <2>15. \A x \in Nat : Held(x)' => x <= opened' BY <2>1, <2>2, <2>3, <2>12 DEF Owned
    <2>16. Owned' BY <1>2, <2>13, <2>14, <2>15 DEF Owned
    <2>. QED BY <2>5, <2>8, <2>9, <2>16
<1>6. CASE caller' = [caller EXCEPT ![c] = NoCall] /\ UNCHANGED <<pools, open, opened>>
    <2>1. Fresh' /\ Owned' BY <1>2, <1>6, Quiet
    <2>2. PoolTypes' BY <1>2, <1>6, Empties, Zenon DEF PoolTypes
    <2>3. Requests' BY <1>2, <1>6 DEF Requests, NoCall, PoolTypes
    <2>. QED BY <2>1, <2>2, <2>3
<1>. QED BY <1>4, <1>5, <1>6 DEF GetOrCreate

\* While an administrator's request is between its first write and the invalidation, or
\* has failed there, whatever it writes to the row is excused.
LEMMA WriteInv ==
    ASSUME PoolInv, NEW n \in Connections,
           row' \in [Connections -> Credentials \cup {Deleted}],
           \A m \in Connections : m # n => row'[m] = row[m],
           \A m \in Connections : Excused(m) => Excused(m)',
           row' = row \/ Excused(n)',
           UNCHANGED <<entries, generations, flights, pools, caller, open, opened>>,
           admin' \in [Admins -> Change],
           \A a \in Admins : admin'[a].at # "idle" => admin'[a].conn \in Connections
    PROVE  PoolInv'
<1>. USE DEF PoolInv
<1>1. PoolTypes' BY Zenon DEF PoolTypes
<1>2. Requests' BY DEF Requests
<1>3. \A f \in flights : f.key \in PoolKeys BY Zenon DEF PoolTypes, Flight
<1>4. \A k \in PoolKeys : Excused(k[1])' \/ (row'[k[1]] = row[k[1]] /\ ~Excused(k[1])) BY KeyConnection, Zenon
<1>5. Fresh' BY <1>3, <1>4, Zenon DEF Fresh
<1>6. Owned' BY DEF Owned, OneHolder, Held
<1>. QED BY <1>1, <1>2, <1>5, <1>6

\* Patch and Delete up to the invalidation.
LEMMA ChangeInv ==
    ASSUME PoolInv, NEW a \in Admins,
           \/ \E n \in Connections : Patch(a, n) \/ DeleteConnection(a, n)
           \/ UpdateConnection(a) \/ UpdateSecrets(a)
    PROVE  PoolInv'
<1>. USE DEF PoolInv
<1>1. UNCHANGED <<entries, generations, flights, pools, caller, open, opened>>
    BY DEF Patch, DeleteConnection, UpdateConnection, UpdateSecrets
<1>2. row \in [Connections -> Credentials \cup {Deleted}] /\ admin \in [Admins -> Change] BY DEF PoolTypes
<1>3. \A b \in Admins : admin[b].at # "idle" => admin[b].conn \in Connections BY Zenon DEF Requests
<1>4. ASSUME NEW n \in Connections, Patch(a, n) PROVE PoolInv'
    <2>1. admin' = [admin EXCEPT ![a] = [at |-> "update", conn |-> n]] /\ UNCHANGED <<row, missed>>
        BY <1>4 DEF Patch
    <2>2. admin' \in [Admins -> Change] BY <1>2, <2>1 DEF Change
    <2>3. \A b \in Admins : admin'[b].at # "idle" => admin'[b].conn \in Connections BY <1>2, <1>3, <2>1
    <2>4. \A m \in Connections : Excused(m) => Excused(m)' BY <1>2, <1>4, <2>1, Zenon DEF Excused, Changing, Patch
    <2>. QED BY <1>1, <1>2, <2>1, <2>2, <2>3, <2>4, WriteInv
<1>5. ASSUME NEW n \in Connections, DeleteConnection(a, n) PROVE PoolInv'
    <2>1. /\ admin' = [admin EXCEPT ![a] = [at |-> "pools", conn |-> n]]
          /\ row' = [row EXCEPT ![n] = Deleted] /\ UNCHANGED missed
        BY <1>5 DEF DeleteConnection
    <2>2. admin' \in [Admins -> Change] BY <1>2, <2>1 DEF Change
    <2>3. \A b \in Admins : admin'[b].at # "idle" => admin'[b].conn \in Connections BY <1>2, <1>3, <2>1
    <2>4. \A m \in Connections : Excused(m) => Excused(m)'
        BY <1>2, <1>5, <2>1 DEF Excused, Changing, DeleteConnection
    <2>5. Excused(n)' BY <1>2, <2>1 DEF Excused, Changing
    <2>. QED BY <1>1, <1>2, <2>1, <2>2, <2>3, <2>4, <2>5, WriteInv
<1>6. CASE UpdateConnection(a)
    <2>1. PICK n \in Connections : n = admin[a].conn /\ admin[a] \in Change
        BY <1>2, <1>3, <1>6 DEF UpdateConnection
    <2>2. UNCHANGED missed BY <1>6 DEF UpdateConnection
    <2>3. CASE admin' = [admin EXCEPT ![a] = NoChange] /\ UNCHANGED row
        <3>1. admin' \in [Admins -> Change] BY <1>2, <2>3, Empties
        <3>2. \A b \in Admins : admin'[b].at # "idle" => admin'[b].conn \in Connections
            BY <1>2, <1>3, <2>3 DEF NoChange
        <3>3. \A m \in Connections : Excused(m) => Excused(m)'
            BY <1>2, <1>6, <2>2, <2>3 DEF Excused, Changing, UpdateConnection
        <3>. QED BY <1>1, <1>2, <2>1, <2>3, <3>1, <3>2, <3>3, WriteInv
    <2>4. ASSUME NEW v \in Credentials, WriteRow(n, v), admin' = [admin EXCEPT ![a].at = "secrets"]
          PROVE  PoolInv'
        <3>1. /\ row' \in [Connections -> Credentials \cup {Deleted}]
              /\ \A m \in Connections : m # n => row'[m] = row[m]
            BY <1>2, <2>1, <2>4 DEF WriteRow
        <3>2. admin' \in [Admins -> Change] BY <1>2, <2>1, <2>4 DEF Change
        <3>3. \A b \in Admins : admin'[b].conn = admin[b].conn /\ admin'[b].at = IF b = a THEN "secrets" ELSE admin[b].at
            BY <1>2, <2>1, <2>4, Zenon DEF Change
        <3>4. \A b \in Admins : admin'[b].at # "idle" => admin'[b].conn \in Connections BY <1>3, <2>1, <3>3
        <3>5. \A m \in Connections : Excused(m) => Excused(m)'
            BY <2>2, <3>3 DEF Excused, Changing
        <3>6. Excused(n)' BY <2>1, <3>3 DEF Excused, Changing
        <3>. QED BY <1>1, <2>1, <3>1, <3>2, <3>4, <3>5, <3>6, WriteInv, Zenon
    <2>. QED BY <1>6, <2>1, <2>3, <2>4 DEF UpdateConnection
<1>7. CASE UpdateSecrets(a)
    <2>. DEFINE n == admin[a].conn
    <2>1. n \in Connections /\ admin[a] \in Change /\ admin[a].at = "secrets"
        BY <1>2, <1>3, <1>7 DEF UpdateSecrets
    <2>2. ASSUME NEW v \in Credentials, WriteRow(n, v), UNCHANGED <<admin, missed>>
          PROVE  PoolInv'
        <3>1. /\ row' \in [Connections -> Credentials \cup {Deleted}]
              /\ \A m \in Connections : m # n => row'[m] = row[m]
            BY <1>2, <2>1, <2>2, Zenon DEF WriteRow
        <3>2. \A m : Excused(m)' <=> Excused(m) BY <2>2, Zenon DEF Excused, Changing
        <3>3. Excused(n) BY <2>1 DEF Excused, Changing
        <3>. QED BY <1>1, <1>2, <1>3, <2>1, <2>2, <3>1, <3>2, <3>3, WriteInv
    <2>3. CASE admin' = [admin EXCEPT ![a].at = "pools"] /\ UNCHANGED <<row, missed>>
        <3>1. admin' \in [Admins -> Change] BY <1>2, <2>1, <2>3 DEF Change
        <3>2. \A b \in Admins : admin'[b].conn = admin[b].conn /\ admin'[b].at = IF b = a THEN "pools" ELSE admin[b].at
            BY <1>2, <2>1, <2>3 DEF Change
        <3>3. \A b \in Admins : admin'[b].at # "idle" => admin'[b].conn \in Connections BY <1>3, <2>1, <3>2
        <3>4. \A m \in Connections : Excused(m) => Excused(m)' BY <2>3, <3>2 DEF Excused, Changing
        <3>. QED BY <1>1, <1>2, <2>1, <2>3, <3>1, <3>3, <3>4, WriteInv
    <2>4. CASE admin' = [admin EXCEPT ![a] = NoChange] /\ missed' = missed \cup {n} /\ UNCHANGED row
        <3>1. admin' \in [Admins -> Change] BY <1>2, <2>4, Empties
        <3>2. \A b \in Admins : admin'[b].at # "idle" => admin'[b].conn \in Connections
            BY <1>2, <1>3, <2>4 DEF NoChange
        <3>3. \A m \in Connections : Excused(m) => Excused(m)'
            BY <1>2, <2>4 DEF Excused, Changing
        <3>. QED BY <1>1, <1>2, <2>1, <2>4, <3>1, <3>2, <3>3, WriteInv
    <2>. QED BY <1>7, <2>2, <2>3, <2>4 DEF UpdateSecrets
<1>. QED BY <1>4, <1>5, <1>6, <1>7

\* Manager.Invalidate closes the connection's pool.
LEMMA InvalidatePoolsInv ==
    ASSUME PoolInv, NEW a \in Admins, InvalidatePools(a)
    PROVE  PoolInv'
<1>. USE DEF PoolInv
<1>1. PICK n \in Connections : n = admin[a].conn /\ admin[a] \in Change /\ admin[a].at = "pools"
    BY DEF InvalidatePools, Requests, PoolTypes
<1>2. /\ UNCHANGED <<row, entries, generations, flights, caller, opened, missed>>
      /\ pools' = [pools EXCEPT ![n] = 0] /\ open' = open \ {pools[n]}
      /\ admin' = [admin EXCEPT ![a].at = "entries"]
    BY <1>1 DEF InvalidatePools
<1>3. admin \in [Admins -> Change] BY DEF PoolTypes
<1>4. \A b \in Admins : admin'[b].conn = admin[b].conn /\ admin'[b].at = IF b = a THEN "entries" ELSE admin[b].at
    BY <1>1, <1>2, <1>3 DEF Change
<1>5. admin' \in [Admins -> Change] BY <1>1, <1>2, <1>3 DEF Change
<1>6. PoolTypes' BY <1>2, <1>5, Empties DEF PoolTypes
<1>7. Requests' BY <1>1, <1>2, <1>4 DEF Requests
<1>8. \A m : Excused(m) => Excused(m)' BY <1>2, <1>4 DEF Excused, Changing
<1>9. Fresh' BY <1>2, <1>8 DEF Fresh
<1>10. \A m \in Connections : pools'[m] = IF m = n THEN 0 ELSE pools[m]
    BY <1>2 DEF PoolTypes
<1>11. \A x \in Nat : x # 0 => (Held(x)' <=> Held(x) /\ x # pools[n])
    <2>. SUFFICES ASSUME NEW x \in Nat, x # 0 PROVE Held(x)' <=> Held(x) /\ x # pools[n] OBVIOUS
    <2>1. Held(x)' => Held(x) BY <1>2, <1>10 DEF Held
    <2>2. x = pools[n] => ~Held(x)' BY <1>2, <1>10 DEF Held, Owned, OneHolder
    <2>3. Held(x) /\ x # pools[n] => Held(x)' BY <1>2, <1>10 DEF Held
    <2>. QED BY <2>1, <2>2, <2>3
<1>12. OneHolder' BY <1>2, <1>10 DEF Owned, OneHolder
<1>13. Owned' BY <1>2, <1>11, <1>12 DEF Owned, PoolTypes
<1>. QED BY <1>6, <1>7, <1>9, <1>13

\* CredentialPoolManager.Invalidate closes the connection's pools and makes every flight
\* for it outdated.
LEMMA InvalidateEntriesInv ==
    ASSUME PoolInv, NEW a \in Admins, InvalidateEntries(a)
    PROVE  PoolInv'
<1>. USE DEF PoolInv
<1>1. PICK n \in Connections : n = admin[a].conn BY DEF InvalidateEntries, Requests
<1>2. /\ UNCHANGED <<row, flights, pools, caller, opened>>
      /\ generations' = [generations EXCEPT ![n] = @ + 1]
      /\ entries' = [k \in PoolKeys |-> IF k \in {l \in PoolKeys : l[1] = n} THEN NoEntry ELSE entries[k]]
      /\ open' = open \ {entries[k].db : k \in {l \in PoolKeys : l[1] = n}}
      /\ admin' = [admin EXCEPT ![a] = NoChange]
      /\ missed' = missed \ {n}
    BY <1>1 DEF InvalidateEntries
<1>3. admin \in [Admins -> Change] /\ generations \in [Connections -> Nat] BY Zenon DEF PoolTypes
<1>4. \A m \in Connections : generations'[m] = IF m = n THEN generations[n] + 1 ELSE generations[m]
    BY <1>2, <1>3
<1>5. \A k \in PoolKeys : entries'[k] = IF k[1] = n THEN NoEntry ELSE entries[k] BY <1>2, Zenon
<1>6. PoolTypes'
    <2>1. entries' \in [PoolKeys -> Entry] BY <1>2, Empties DEF PoolTypes
    <2>2. generations' \in [Connections -> Nat] BY <1>2, <1>3
    <2>3. admin' \in [Admins -> Change] BY <1>2, <1>3, Empties, Zenon
    <2>4. open' \subseteq Nat BY <1>2, Zenon DEF PoolTypes
    <2>. QED BY <1>2, <2>1, <2>2, <2>3, <2>4 DEF PoolTypes
<1>7. Requests'
    <2>1. \A b \in Admins : admin'[b].at # "idle" => admin'[b].conn \in Connections
        BY <1>2, <1>3 DEF Requests, NoChange
    <2>2. ASSUME NEW c \in Callers, caller[c].at = "resolve"
          PROVE  caller[c].gen <= generations'[caller[c].key[1]]
        <3>1. caller[c].key \in PoolKeys /\ caller[c].gen <= generations[caller[c].key[1]] BY <2>2 DEF Requests
        <3>2. caller[c].gen \in Nat BY DEF PoolTypes, Call
        <3>3. caller[c].key[1] \in Connections BY <3>1, KeyConnection
        <3>. QED BY <1>3, <1>4, <3>1, <3>2, <3>3
    <2>. QED BY <1>2, <2>1, <2>2, Zenon DEF Requests
<1>8. \A m \in Connections : m # n /\ Excused(m) => Excused(m)'
    BY <1>1, <1>2, <1>3, Zenon DEF Excused, Changing
<1>9. Fresh'
    <2>1. ASSUME NEW k \in PoolKeys, entries'[k].db # 0 PROVE Excused(k[1])' \/ entries'[k].fp = row'[k[1]]
        BY <1>2, <1>5, <1>8, <2>1, KeyConnection, Zenon DEF Fresh, NoEntry
    <2>2. ASSUME NEW f \in flights
          PROVE  /\ f.gen <= generations'[f.key[1]]
                 /\ f.gen = generations'[f.key[1]] => Excused(f.key[1])' \/ f.fp = row'[f.key[1]]
        <3>1. f.key \in PoolKeys /\ f.gen \in Nat BY Zenon DEF PoolTypes, Flight
        <3>2. f.key[1] \in Connections BY <3>1, KeyConnection
        <3>3. f.gen <= generations[f.key[1]] BY DEF Fresh
        <3>4. CASE f.key[1] = n BY <1>3, <1>4, <3>1, <3>2, <3>3, <3>4
        <3>5. CASE f.key[1] # n BY <1>2, <1>4, <1>8, <3>2, <3>3, <3>5, Zenon DEF Fresh
        <3>. QED BY <3>4, <3>5
    <2>. QED BY <1>2, <2>1, <2>2, Zenon DEF Fresh
<1>10. \A k \in PoolKeys : entries'[k].db = IF k[1] = n THEN 0 ELSE entries[k].db BY <1>5 DEF NoEntry
<1>. DEFINE Closes(x) == \E k \in PoolKeys : k[1] = n /\ entries[k].db = x
<1>11. \A x : x \in open' <=> x \in open /\ ~Closes(x) BY <1>2, Zenon
<1>12. \A x \in Nat : x # 0 => (Held(x)' <=> Held(x) /\ ~Closes(x))
    <2>. SUFFICES ASSUME NEW x \in Nat, x # 0 PROVE Held(x)' <=> Held(x) /\ ~Closes(x) BY Zenon
    <2>1. Held(x)' => Held(x) BY <1>2, <1>10, Zenon DEF Held
    <2>2. Closes(x) => ~Held(x)' BY <1>2, <1>10 DEF Held, Owned, OneHolder
    <2>3. Held(x) /\ ~Closes(x) => Held(x)' BY <1>2, <1>10, Zenon DEF Held
    <2>. QED BY <2>1, <2>2, <2>3
<1>13. OneHolder' BY <1>2, <1>10, Zenon DEF Owned, OneHolder
<1>. HIDE DEF Closes
<1>14. Owned' BY <1>2, <1>11, <1>12, <1>13 DEF Owned, PoolTypes
<1>. QED BY <1>6, <1>7, <1>9, <1>14

-----------------------------------------------------------------------------
\* Every step of a request, a flight or an administrator keeps the invariant.
LEMMA NextInv == PoolInv /\ [PoolNext]_poolVars => PoolInv'
<1>. SUFFICES ASSUME PoolInv, [PoolNext]_poolVars PROVE PoolInv' OBVIOUS
<1>1. ASSUME NEW c \in Callers, CallerStep(c) PROVE PoolInv'
    BY <1>1, CallerInv, ResolveInv, GetInv DEF CallerStep
<1>2. ASSUME NEW f \in flights, FlightStep(f) PROVE PoolInv'
    BY <1>2, CheckInv, OpenInv, PublishInv DEF FlightStep
<1>3. ASSUME NEW a \in Admins, AdminStep(a) PROVE PoolInv'
    BY <1>3, ChangeInv, InvalidatePoolsInv, InvalidateEntriesInv DEF AdminStep
<1>4. CASE UNCHANGED poolVars
    <2>1. Fresh' /\ Owned' BY <1>4, Quiet, Zenon DEF PoolInv, poolVars
    <2>2. PoolTypes' /\ Requests' BY <1>4 DEF PoolInv, poolVars, PoolTypes, Requests
    <2>. QED BY <2>1, <2>2 DEF PoolInv
<1>. QED BY <1>1, <1>2, <1>3, <1>4 DEF PoolNext

\* The invariant holds in every reachable state.
LEMMA AlwaysInv == PoolSpec => []PoolInv
BY InitInv, NextInv, PTL DEF PoolSpec

\* CredentialPoolManager.GetOrCreate and Invalidate: once a change of a connection has been
\* followed by its invalidation, no cached pool has the old credentials, whatever flights
\* and attempts were under way, for any number of requests, connections and roles.
THEOREM CacheStaysCurrent == PoolSpec => []CachedIsCurrent
<1>1. PoolInv => CachedIsCurrent BY DEF PoolInv, Fresh, CachedIsCurrent, Excused
<1>. QED BY <1>1, AlwaysInv, PTL

\* The three managers close every pool they drop and drop every pool they close: the open
\* pools are those somebody will still publish or close.
THEOREM NoPoolLeaks == PoolSpec => []PoolsAreOwned
<1>1. ASSUME PoolInv PROVE PoolsAreOwned
    <2>1. \A x \in Nat : x \in open <=> x # 0 /\ Held(x) BY <1>1 DEF PoolInv, Owned
    <2>2. open \subseteq Nat BY <1>1 DEF PoolInv, PoolTypes
    <2>3. \A x : Held(x) <=> x \in CachedPools \cup {f.db : f \in flights} BY DEF Held, CachedPools
    <2>4. \A x : Held(x) => x \in Nat
        BY <1>1 DEF PoolInv, PoolTypes, Held, Entry, Flight
    <2>. QED BY <2>1, <2>2, <2>3, <2>4, Zenon DEF PoolsAreOwned
<1>. QED BY <1>1, AlwaysInv, PTL
=============================================================================
