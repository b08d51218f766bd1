--------------------------- MODULE ConnectionPools ---------------------------
(***************************************************************************)
(* The pools of connections to the managed databases.  CredentialPool-     *)
(* Manager keeps one pool per connection and role, guarded by generations  *)
(* and single flights.  Manager and RedisManager keep one entry per        *)
(* connection.  Administrators change or delete connections meanwhile and  *)
(* invalidate the managers one after the other.  A pool is a number, 0     *)
(* being none.  What a descriptor says of one role is a member of          *)
(* Credentials, so equal members have equal fingerprints.                  *)
(***************************************************************************)
EXTENDS Integers, FiniteSets

CONSTANTS
    Callers,      \* requests that need a pool
    Admins,       \* requests that change a connection
    Connections,
    Roles,
    Credentials,
    Deleted,      \* the row of a deleted connection
    MaxCalls,     \* bound: GetOrCreate calls of all managers
    MaxChanges    \* bound: changes of connections

ASSUME PoolAssumption ==
    /\ Deleted \notin Credentials
    /\ MaxCalls \in Nat /\ MaxChanges \in Nat

VARIABLES
    row,                          \* Meta DB: what a connection's credentials are
    entries, generations,         \* CredentialPoolManager
    flights,                      \* its singleflight group
    pools,                        \* Manager.pools and RedisManager.clients
    caller, admin,                \* the requests
    open, opened,                 \* pools not closed; pools opened so far
    missed,                       \* connections changed by a request that failed later
    calls, changes

poolVars == <<row, entries, generations, flights, pools, caller, admin, open, opened,
              missed, calls, changes>>

PoolKeys == Connections \X Roles

NoEntry == [fp |-> Deleted, db |-> 0]
NoCall  == [at |-> "idle", key |-> <<>>, gen |-> 0, fp |-> Deleted, attempt |-> 0, db |-> 0]
NoChange == [at |-> "idle", conn |-> "none"]

PoolInit ==
    /\ row \in [Connections -> Credentials]
    /\ entries = [k \in PoolKeys |-> NoEntry]
    /\ generations = [n \in Connections |-> 0]
    /\ flights = {}
    /\ pools = [n \in Connections |-> 0]
    /\ caller = [c \in Callers |-> NoCall]
    /\ admin = [a \in Admins |-> NoChange]
    /\ open = {} /\ opened = 0
    /\ missed = {}
    /\ calls = 0 /\ changes = 0

-----------------------------------------------------------------------------
(* CredentialPoolManager.GetOrCreate, from the caller's side.              *)

CallCredentialPool(c, k) ==
    /\ caller[c].at = "idle" /\ calls < MaxCalls
    /\ caller' = [caller EXCEPT ![c] = [NoCall EXCEPT !.at = "begin", !.key = k]]
    /\ calls' = calls + 1
    /\ UNCHANGED <<row, entries, generations, flights, pools, admin, open, opened, missed, changes>>

ReadGeneration(c) ==
    /\ caller[c].at = "begin"
    /\ caller' = [caller EXCEPT ![c].at = "resolve", ![c].gen = generations[caller[c].key[1]]]
    /\ UNCHANGED <<row, entries, generations, flights, pools, admin, open, opened, missed, calls, changes>>

SameFlight(f, key, gen, fp) == f.key = key /\ f.gen = gen /\ f.fp = fp

\* resolve, which fails if the row is deleted and may fail otherwise, then DoChan: the
\* first caller of a flight key starts the flight.
ResolveDescriptor(c) ==
    LET me == caller[c]
        fp == row[me.key[1]]
    IN  /\ me.at = "resolve"
        /\ \/ caller' = [caller EXCEPT ![c] = NoCall] /\ UNCHANGED flights
           \/ /\ fp # Deleted
              /\ caller' = [caller EXCEPT ![c].at = "wait", ![c].fp = fp]
              /\ flights' = IF \E f \in flights : SameFlight(f, me.key, me.gen, fp) THEN flights
                            ELSE flights \cup {[key |-> me.key, gen |-> me.gen, fp |-> fp,
                                                at |-> "check", db |-> 0]}
        /\ UNCHANGED <<row, entries, generations, pools, admin, open, opened, missed, calls, changes>>

\* ctx.Done: the caller leaves, the flight goes on.
GiveUp(c) ==
    /\ caller[c].at = "wait"
    /\ caller' = [caller EXCEPT ![c] = NoCall]
    /\ UNCHANGED <<row, entries, generations, flights, pools, admin, open, opened, missed, calls, changes>>

\* The caller is done with a pool; the managers keep it.
LeavePool(c) ==
    /\ caller[c].at = "using"
    /\ caller' = [caller EXCEPT ![c] = NoCall]
    /\ UNCHANGED <<row, entries, generations, flights, pools, admin, open, opened, missed, calls, changes>>

-----------------------------------------------------------------------------
(* The flight.                                                             *)

WaitsFor(f, c) == caller[c].at = "wait" /\ SameFlight(f, caller[c].key, caller[c].gen, caller[c].fp)

\* What a caller does with the flight's answer; errCredentialPoolInvalidated allows a
\* second attempt.
Answered(me, err, db) ==
    IF err = "none" THEN [me EXCEPT !.at = "using", !.db = db]
    ELSE IF err = "invalidated" /\ me.attempt = 0
         THEN [NoCall EXCEPT !.at = "begin", !.key = me.key, !.attempt = 1]
         ELSE NoCall

\* The flight returns to every caller that waits for it.
Return(f, err, db) ==
    /\ flights' = flights \ {f}
    /\ caller' = [c \in Callers |-> IF WaitsFor(f, c) THEN Answered(caller[c], err, db) ELSE caller[c]]

CheckEntry(f) ==
    LET entry == entries[f.key]
    IN  /\ f.at = "check"
        /\ \/ /\ generations[f.key[1]] # f.gen
              /\ Return(f, "invalidated", 0)
           \/ /\ generations[f.key[1]] = f.gen
              /\ entry.db # 0 /\ entry.fp = f.fp
              /\ Return(f, "none", entry.db)
           \/ /\ generations[f.key[1]] = f.gen
              /\ ~(entry.db # 0 /\ entry.fp = f.fp)
              /\ flights' = (flights \ {f}) \cup {[f EXCEPT !.at = "open"]}
              /\ UNCHANGED caller
        /\ UNCHANGED <<row, entries, generations, pools, admin, open, opened, missed, calls, changes>>

OpenPool(f) ==
    /\ f.at = "open"
    /\ \/ /\ opened' = opened + 1
          /\ open' = open \cup {opened + 1}
          /\ flights' = (flights \ {f}) \cup {[f EXCEPT !.at = "publish", !.db = opened + 1]}
          /\ UNCHANGED caller
       \/ /\ Return(f, "failed", 0)                \* the ping failed; the opener closed the pool
          /\ UNCHANGED <<open, opened>>
    /\ UNCHANGED <<row, entries, generations, pools, admin, missed, calls, changes>>

Published(f) ==
    /\ entries' = [entries EXCEPT ![f.key] = [fp |-> f.fp, db |-> f.db]]
    /\ open' = open \ {entries[f.key].db}
    /\ Return(f, "none", f.db)

\* Mutant: the generation is not compared again after the pool was opened.
PublishUnchecked(f) ==
    /\ f.at = "publish"
    /\ Published(f)
    /\ UNCHANGED <<row, generations, pools, admin, opened, missed, calls, changes>>

\* Mutant: a pool opened for nothing is not closed.
PublishForgetful(f) ==
    /\ f.at = "publish"
    /\ \/ /\ generations[f.key[1]] # f.gen
          /\ Return(f, "invalidated", 0)
          /\ UNCHANGED <<entries, open>>
       \/ /\ generations[f.key[1]] = f.gen
          /\ Published(f)
    /\ UNCHANGED <<row, generations, pools, admin, opened, missed, calls, changes>>

PublishPool(f) ==
    /\ f.at = "publish"
    /\ \/ /\ generations[f.key[1]] # f.gen
          /\ open' = open \ {f.db}
          /\ Return(f, "invalidated", 0)
          /\ UNCHANGED entries
       \/ /\ generations[f.key[1]] = f.gen
          /\ Published(f)
    /\ UNCHANGED <<row, generations, pools, admin, opened, missed, calls, changes>>

-----------------------------------------------------------------------------
(* Manager and RedisManager: one entry per connection, whatever the role.  *)

\* GetByID and ResolveCredential, before the manager is asked
ResolveCredential(c, k) ==
    /\ caller[c].at = "idle" /\ calls < MaxCalls
    /\ row[k[1]] # Deleted
    /\ caller' = [caller EXCEPT ![c] = [NoCall EXCEPT !.at = "resolved", !.key = k, !.fp = row[k[1]]]]
    /\ calls' = calls + 1
    /\ UNCHANGED <<row, entries, generations, flights, pools, admin, open, opened, missed, changes>>

GetOrCreate(c) ==
    LET me == caller[c]
        n  == me.key[1]
    IN  /\ me.at = "resolved"
        /\ \/ /\ pools[n] # 0
              /\ caller' = [caller EXCEPT ![c].at = "shared", ![c].db = pools[n]]
              /\ UNCHANGED <<pools, open, opened>>
           \/ /\ pools[n] = 0
              /\ pools' = [pools EXCEPT ![n] = opened + 1]
              /\ open' = open \cup {opened + 1}
              /\ opened' = opened + 1
              /\ caller' = [caller EXCEPT ![c].at = "shared", ![c].db = opened + 1]
           \/ /\ pools[n] = 0                         \* Open failed
              /\ caller' = [caller EXCEPT ![c] = NoCall]
              /\ UNCHANGED <<pools, open, opened>>
        /\ UNCHANGED <<row, entries, generations, flights, admin, missed, calls, changes>>

LeaveShared(c) ==
    /\ caller[c].at = "shared"
    /\ caller' = [caller EXCEPT ![c] = NoCall]
    /\ UNCHANGED <<row, entries, generations, flights, pools, admin, open, opened, missed, calls, changes>>

-----------------------------------------------------------------------------
(* Patch and Delete of a connection.  The row is written by up to three    *)
(* statements; the managers are invalidated when all have succeeded.       *)

Patch(a, n) ==
    /\ admin[a].at = "idle" /\ changes < MaxChanges
    /\ row[n] # Deleted
    /\ admin' = [admin EXCEPT ![a] = [at |-> "update", conn |-> n]]
    /\ changes' = changes + 1
    /\ UNCHANGED <<row, entries, generations, flights, pools, caller, open, opened, missed, calls>>

\* A deleted row stays deleted, whatever is written to it.
WriteRow(n, v) == row' = [row EXCEPT ![n] = IF row[n] = Deleted THEN Deleted ELSE v]

\* repo.Update, which may fail
UpdateConnection(a) ==
    LET n == admin[a].conn
    IN  /\ admin[a].at = "update"
        /\ \/ \E v \in Credentials : WriteRow(n, v) /\ admin' = [admin EXCEPT ![a].at = "secrets"]
           \/ admin' = [admin EXCEPT ![a] = NoChange] /\ UNCHANGED row
        /\ UNCHANGED <<entries, generations, flights, pools, caller, open, opened, missed, calls, changes>>

\* UpdatePassword and ReplaceCredentials, where the request has them: each may change
\* what is resolved, and a failure ends the request before it invalidates anything.
UpdateSecrets(a) ==
    LET n == admin[a].conn
    IN  /\ admin[a].at = "secrets"
        /\ \/ \E v \in Credentials : WriteRow(n, v) /\ UNCHANGED <<admin, missed>>
           \/ admin' = [admin EXCEPT ![a].at = "pools"] /\ UNCHANGED <<row, missed>>
           \/ /\ admin' = [admin EXCEPT ![a] = NoChange]
              /\ missed' = missed \cup {n}
              /\ UNCHANGED row
        /\ UNCHANGED <<entries, generations, flights, pools, caller, open, opened, calls, changes>>

DeleteConnection(a, n) ==
    /\ admin[a].at = "idle" /\ changes < MaxChanges
    /\ row[n] # Deleted
    /\ row' = [row EXCEPT ![n] = Deleted]
    /\ admin' = [admin EXCEPT ![a] = [at |-> "pools", conn |-> n]]
    /\ changes' = changes + 1
    /\ UNCHANGED <<entries, generations, flights, pools, caller, open, opened, missed, calls>>

\* Manager.Invalidate; RedisManager.Invalidate does the same for a Redis connection.
InvalidatePools(a) ==
    LET n == admin[a].conn
    IN  /\ admin[a].at = "pools"
        /\ pools' = [pools EXCEPT ![n] = 0]
        /\ open' = open \ {pools[n]}
        /\ admin' = [admin EXCEPT ![a].at = "entries"]
        /\ UNCHANGED <<row, entries, generations, flights, caller, opened, missed, calls, changes>>

\* CredentialPoolManager.Invalidate
InvalidateEntries(a) ==
    LET n == admin[a].conn
        gone == {k \in PoolKeys : k[1] = n}
    IN  /\ admin[a].at = "entries"
        /\ generations' = [generations EXCEPT ![n] = @ + 1]
        /\ entries' = [k \in PoolKeys |-> IF k \in gone THEN NoEntry ELSE entries[k]]
        /\ open' = open \ {entries[k].db : k \in gone}
        /\ admin' = [admin EXCEPT ![a] = NoChange]
        /\ missed' = missed \ {n}
        /\ UNCHANGED <<row, flights, pools, caller, opened, calls, changes>>

-----------------------------------------------------------------------------
CallerStep(c) ==
    \/ \E k \in PoolKeys : CallCredentialPool(c, k) \/ ResolveCredential(c, k)
    \/ ReadGeneration(c) \/ ResolveDescriptor(c) \/ GiveUp(c) \/ LeavePool(c)
    \/ GetOrCreate(c) \/ LeaveShared(c)

FlightStep(f) == CheckEntry(f) \/ OpenPool(f) \/ PublishPool(f)

AdminStep(a) ==
    \/ \E n \in Connections : Patch(a, n) \/ DeleteConnection(a, n)
    \/ UpdateConnection(a) \/ UpdateSecrets(a) \/ InvalidatePools(a) \/ InvalidateEntries(a)

PoolNext ==
    \/ \E c \in Callers : CallerStep(c)
    \/ \E f \in flights : FlightStep(f)
    \/ \E a \in Admins : AdminStep(a)

PoolSpec == PoolInit /\ [][PoolNext]_poolVars

-----------------------------------------------------------------------------
(* Properties.                                                             *)

\* A request has changed the connection and has still to invalidate the manager.
Changing(n) == \E a \in Admins : admin[a].conn = n /\ admin[a].at \in {"secrets", "pools", "entries"}

\* CredentialPoolManager never keeps a pool with outdated credentials: once a Patch or
\* Delete has invalidated the connection, what GetOrCreate has cached, and will hand out,
\* was opened with the credentials the row holds now.  (A Patch that fails after its
\* first write does not invalidate; missed says so.)
CachedIsCurrent ==
    \A k \in PoolKeys : entries[k].db # 0 /\ ~Changing(k[1]) /\ k[1] \notin missed
        => entries[k].fp = row[k[1]]

CachedPools == {entries[k].db : k \in PoolKeys} \cup {pools[n] : n \in Connections}

\* No pool leaks and no closed pool is handed out: the pools that are open are those the
\* managers hold and those a flight has opened and not yet published, whichever of
\* publication, replacement and invalidation came first.
PoolsAreOwned == open = (CachedPools \cup {f.db : f \in flights}) \ {0}

=============================================================================
