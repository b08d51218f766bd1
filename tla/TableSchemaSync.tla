--------------------------- MODULE TableSchemaSync ---------------------------
(***************************************************************************)
(* Copying table definitions from a source database to a target database:  *)
(* the preview tokens, the sync jobs with one item per table, the single   *)
(* background worker and its cancellation watcher, cancel and retry        *)
(* requests, the crash of the server, and the tables of the target, which  *)
(* other people can create too.                                            *)
(*                                                                         *)
(* Tables are numbered in dependency order.  A table definition is its     *)
(* version; the hash of a definition is the version itself.                *)
(***************************************************************************)
EXTENDS Naturals, FiniteSets

CONSTANTS
    T,               \* number of tables selected for the sync
    MaxJobs,         \* bound: sync jobs, retries included
    MaxTokens,       \* bound: previews issued
    MaxPreviews,     \* capacity of the preview store (maxSyncPreviews)
    Requests,        \* create and retry requests in flight at once
    MaxChanges,      \* bound: changes of a source definition
    MaxForeign,      \* bound: target tables created by somebody else
    MaxCancels,      \* bound: cancel requests
    MaxErrors,       \* bound: failing Meta DB calls of the worker
    MaxCrashes       \* bound: process exits

ASSUME SyncAssumption ==
    /\ {T, MaxJobs, MaxPreviews} \subseteq Nat \ {0}
    /\ {MaxTokens, MaxChanges, MaxForeign, MaxCancels, MaxErrors, MaxCrashes} \subseteq Nat

VARIABLES
    src,                       \* source: version of each table's definition
    tbl, late,                 \* target: its tables, and CREATEs given up on but still running
    preview,                   \* process memory: the preview store
    req,                       \* process memory: requests between their reads and their insert
    job,                       \* Meta DB: jobs and their items
    wk, cancelled, up,         \* process memory: worker, its cancelled context; the process
    changes, foreign, cancels, errors, crashes    \* bounds

bounds == <<changes, foreign, cancels, errors, crashes>>
vars == <<src, tbl, late, preview, req, job, wk, cancelled, up, bounds>>

-----------------------------------------------------------------------------
Tables == 1..T
Jobs   == 1..MaxJobs
Tokens == 1..MaxTokens
Foreign == MaxJobs + 1         \* owner of a table that no job created

ItemStatus == {"absent", "pending", "created", "failed", "not_started"}
Active     == {"queued", "running", "cancel_requested"}
Retryable  == {"failed", "cancelled", "interrupted"}

\* A table of the target: who created it (0: there is none) and from which definition.
NoTable == [by |-> 0, ddl |-> 0]
Exists(t) == tbl[t].by # 0

NoJob == [st |-> "none", key |-> FALSE,
          token |-> 0,                         \* history: the preview the job goes back to
          item |-> [t \in Tables |-> "absent"],
          hash |-> [t \in Tables |-> 0],       \* source_ddl_sha256
          made |-> [t \in Tables |-> NoTable]] \* target_ddl_sha256

NoReq   == [at |-> "idle", token |-> 0, items |-> {}, hash |-> [t \in Tables |-> 0]]
IdleWk  == [at |-> "idle", job |-> 0, cur |-> 0, ddl |-> 0, ok |-> FALSE]

ItemsOf(j, S) == {t \in Tables : job[j].item[t] \in S}

\* The first table of job j at or after t, T + 1 when there is none.
ItemFrom(j, t) ==
    LET S == {s \in Tables : s >= t /\ job[j].item[s] # "absent"}
    IN  IF S = {} THEN T + 1 ELSE CHOOSE s \in S : \A u \in S : s <= u

Init ==
    /\ src = [t \in Tables |-> 1]
    /\ tbl = [t \in Tables |-> NoTable] /\ late = {}
    /\ preview = [k \in Tokens |-> [st |-> "none", fp |-> src]]
    /\ req = [q \in Requests |-> NoReq]
    /\ job = [j \in Jobs |-> NoJob]
    /\ wk = IdleWk /\ cancelled = FALSE /\ up = TRUE
    /\ changes = 0 /\ foreign = 0 /\ cancels = 0 /\ errors = 0 /\ crashes = 0

-----------------------------------------------------------------------------
(* Previews.                                                               *)

Live == {k \in Tokens : preview[k].st \in {"issued", "used"}}
Least(S) == CHOOSE k \in S : \A m \in S : k <= m

\* What the tables look like now; the fingerprint is the versions of all definitions.
syncFingerprint == src

\* No selected table may exist in the target.
preflightTarget == \A t \in Tables : ~Exists(t)

\* Issue: a full store forgets its oldest entry.
Issue(k) ==
    LET kept == IF Cardinality(Live) >= MaxPreviews
                THEN [preview EXCEPT ![Least(Live)].st = "gone"] ELSE preview
    IN  preview' = [kept EXCEPT ![k] = [st |-> "issued", fp |-> syncFingerprint]]

SyncPreview ==
    /\ up /\ preflightTarget
    /\ \E k \in Tokens :
         /\ preview[k].st = "none" /\ \A m \in 1..(k - 1) : preview[m].st # "none"
         /\ Issue(k)
    /\ UNCHANGED <<src, tbl, late, req, job, wk, cancelled, up, bounds>>

\* prune: the oldest entry reaches the end of its time to live.
PrunePreview ==
    /\ up /\ Live # {}
    /\ preview' = [preview EXCEPT ![Least(Live)].st = "gone"]
    /\ UNCHANGED <<src, tbl, late, req, job, wk, cancelled, up, bounds>>

\* Mutant: the fingerprint is not compared.
ConsumeUnseen(k, fp) == preview[k].st = "issued"

\* Whether Consume accepts token k for what the source looks like now.
Consume(k, fp) == preview[k].st = "issued" /\ preview[k].fp = fp

\* CreateSyncJob up to RevalidateSyncPreview: source and target are read again, then the
\* token is consumed, also when the fingerprint turns out not to match or the token belongs
\* to another user.
RevalidateSyncPreview(q, k) ==
    /\ up /\ req[q] = NoReq /\ preflightTarget
    /\ preview[k].st \in {"issued", "used"}
    /\ preview' = [preview EXCEPT ![k].st = "used"]
    /\ \/ /\ Consume(k, syncFingerprint)
          /\ req' = [req EXCEPT ![q] = [at |-> "create", token |-> k,
                                        items |-> Tables, hash |-> src]]
       \/ req' = req
    /\ UNCHANGED <<src, tbl, late, job, wk, cancelled, up, bounds>>

\* RetrySyncJob up to BuildRetryPlan: what was recorded as created must still be there
\* unchanged, everything else must not exist, and the source must not have changed.
BuildRetryPlan(q, j) ==
    LET items == ItemsOf(j, ItemStatus \ {"absent"})
        rest  == items \ ItemsOf(j, {"created"})
    IN  /\ up /\ req[q] = NoReq
        /\ job[j].st \in Retryable
        /\ \A t \in items : src[t] = job[j].hash[t]
        /\ \A t \in items \ rest : Exists(t) /\ tbl[t] = job[j].made[t]
        /\ \A t \in rest : ~Exists(t)
        /\ rest # {}
        /\ req' = [req EXCEPT ![q] = [at |-> "create", token |-> job[j].token, items |-> rest,
                                      hash |-> job[j].hash]]
        /\ UNCHANGED <<src, tbl, late, preview, job, wk, cancelled, up, bounds>>

\* Create: one transaction; the unique active_target_key refuses a second active job.
Create(q) ==
    /\ up /\ req[q].at = "create"
    /\ IF \E j \in Jobs : job[j].key THEN job' = job
       ELSE \E j \in Jobs :
         /\ job[j] = NoJob /\ \A i \in 1..(j - 1) : job[i] # NoJob
         /\ job' = [job EXCEPT ![j] =
              [NoJob EXCEPT !.st = "queued", !.key = TRUE, !.token = req[q].token,
                            !.hash = req[q].hash,
                            !.item = [t \in Tables |-> IF t \in req[q].items THEN "pending"
                                                       ELSE "absent"]]]
    /\ req' = [req EXCEPT ![q] = NoReq]
    /\ UNCHANGED <<src, tbl, late, preview, wk, cancelled, up, bounds>>

\* A queued job is cancelled at once, a running one is asked to stop.
RequestCancel(j) ==
    /\ up /\ cancels < MaxCancels /\ job[j].st \in {"queued", "running"}
    /\ job' = [job EXCEPT ![j].st = IF @ = "queued" THEN "cancelled" ELSE "cancel_requested",
                          ![j].key = job[j].st # "queued"]
    /\ cancels' = cancels + 1
    /\ UNCHANGED <<src, tbl, late, preview, req, wk, cancelled, up, changes, foreign, errors,
                   crashes>>

-----------------------------------------------------------------------------
(* The worker.                                                             *)

\* dispatch: the oldest queued job.
ListQueued ==
    LET queued == {j \in Jobs : job[j].st = "queued"}
    IN  /\ up /\ wk.at = "idle" /\ queued # {}
        /\ wk' = [wk EXCEPT !.at = "claim", !.job = Least(queued)]
        /\ UNCHANGED <<src, tbl, late, preview, req, job, cancelled, up, bounds>>

Claim ==
    /\ up /\ wk.at = "claim"
    /\ IF job[wk.job].st = "queued"
       THEN /\ job' = [job EXCEPT ![wk.job].st = "running"]
            /\ wk' = [wk EXCEPT !.at = "setup"]
       ELSE job' = job /\ wk' = IdleWk
    /\ UNCHANGED <<src, tbl, late, preview, req, cancelled, up, bounds>>

\* The transaction of Fail on item t: it fails, what is still pending never started.
Failed(j, t) ==
    [job EXCEPT ![j].item = [s \in Tables |-> IF @[s] # "pending" THEN @[s]
                                              ELSE IF s = t THEN "failed" ELSE "not_started"],
                ![j].st  = IF @ \in {"running", "cancel_requested"} THEN "failed" ELSE @,
                ![j].key = @ /\ job[j].st \notin {"running", "cancel_requested"}]

\* Connections, capabilities and configuration: an error fails the first item; otherwise
\* the watcher starts and the loop begins.
Setup ==
    LET first == ItemFrom(wk.job, 1)
    IN  /\ up /\ wk.at = "setup"
        /\ \/ job' = Failed(wk.job, first) /\ wk' = IdleWk
           \/ job' = job /\ wk' = [wk EXCEPT !.at = "item", !.cur = first]
        /\ cancelled' = FALSE
        /\ UNCHANGED <<src, tbl, late, preview, req, up, bounds>>

\* watchCancel: the watcher, alive during the loop, sees the request.
WatchCancel ==
    /\ up /\ wk.at \in {"item", "start", "exec", "verify", "mark", "complete"}
    /\ ~cancelled /\ job[wk.job].st = "cancel_requested"
    /\ cancelled' = TRUE
    /\ UNCHANGED <<src, tbl, late, preview, req, job, wk, up, bounds>>

\* One turn of the loop up to the checks on the source definition.  Reading it fails on an
\* error, also on the error of a cancelled context.
LoadSnapshot ==
    LET j == wk.job
        t == wk.cur
    IN  /\ up /\ wk.at = "item" /\ t \in Tables
        /\ \/ cancelled /\ wk' = [wk EXCEPT !.at = "cancel"] /\ job' = job
           \/ job' = Failed(j, t) /\ wk' = IdleWk
           \/ /\ ~cancelled /\ src[t] = job[j].hash[t]
              /\ wk' = [wk EXCEPT !.at = "start", !.ddl = src[t]] /\ job' = job
        /\ UNCHANGED <<src, tbl, late, preview, req, cancelled, up, bounds>>

\* MarkItemStarted only stamps a pending item.
MarkItemStarted ==
    /\ up /\ wk.at = "start"
    /\ wk' = IF job[wk.job].item[wk.cur] = "pending" THEN [wk EXCEPT !.at = "exec"] ELSE IdleWk
    /\ UNCHANGED <<src, tbl, late, preview, req, job, cancelled, up, bounds>>

\* CREATE TABLE: it succeeds, the driver refuses a cancelled context, the server refuses
\* an existing table or some other error, or the call is given up while the server works.
CreateTable ==
    LET t == wk.cur
        new == [by |-> wk.job, ddl |-> wk.ddl]
    IN  /\ up /\ wk.at = "exec"
        /\ \/ /\ ~cancelled /\ ~Exists(t)
              /\ tbl' = [tbl EXCEPT ![t] = new] /\ late' = late
              /\ wk' = [wk EXCEPT !.at = "verify", !.ok = TRUE]
           \/ /\ tbl' = tbl /\ late' = late
              /\ wk' = [wk EXCEPT !.at = "verify", !.ok = FALSE]
           \/ /\ ~cancelled /\ ~Exists(t)
              /\ late' = late \cup {<<t, new>>} /\ tbl' = tbl
              /\ wk' = [wk EXCEPT !.at = "verify", !.ok = FALSE]
        /\ UNCHANGED <<src, preview, req, job, cancelled, up, bounds>>

\* The server finishes, or drops, a CREATE whose client has gone.
FinishLateCreate ==
    /\ \E c \in late :
         /\ late' = late \ {c}
         /\ tbl' = [tbl EXCEPT ![c[1]] = IF @.by # 0 THEN @ ELSE c[2]] \/ tbl' = tbl
    /\ UNCHANGED <<src, preview, req, job, wk, cancelled, up, bounds>>

\* Mutant: the loop goes on with the next table after a failure.
VerifyAndContinue ==
    LET next == ItemFrom(wk.job, wk.cur + 1)
    IN  /\ up /\ wk.at = "verify"
        /\ job' = job
        /\ wk' = IF Exists(wk.cur) /\ wk.ok THEN [wk EXCEPT !.at = "mark"]
                 ELSE IF next = T + 1 THEN IdleWk ELSE [wk EXCEPT !.at = "item", !.cur = next]
        /\ UNCHANGED <<src, tbl, late, preview, req, cancelled, up, bounds>>

\* The table is read back.  If it is there and the CREATE succeeded, or the context is
\* cancelled, the item counts as created.
VerifyTable ==
    LET j == wk.job
        t == wk.cur
    IN  /\ up /\ wk.at = "verify"
        /\ \/ /\ Exists(t) /\ (wk.ok \/ cancelled)
              /\ wk' = [wk EXCEPT !.at = "mark"] /\ job' = job
           \/ /\ cancelled
              /\ wk' = [wk EXCEPT !.at = "cancel"] /\ job' = job
           \/ /\ ~cancelled
              /\ job' = Failed(j, t) /\ wk' = IdleWk
        /\ UNCHANGED <<src, tbl, late, preview, req, cancelled, up, bounds>>

\* MarkItemCreated, with the hash of the definition just read; then the next table.
MarkItemCreated ==
    LET j == wk.job
        t == wk.cur
        next == ItemFrom(j, t + 1)
    IN  /\ up /\ wk.at = "mark"
        /\ job' = [job EXCEPT ![j].item[t] = "created", ![j].made[t] = tbl[t]]
        /\ wk' = IF cancelled THEN [wk EXCEPT !.at = "cancel"]
                 ELSE IF next = T + 1 THEN [wk EXCEPT !.at = "complete"]
                 ELSE [wk EXCEPT !.at = "item", !.cur = next]
        /\ UNCHANGED <<src, tbl, late, preview, req, cancelled, up, bounds>>

\* MarkCancelled, one transaction.
MarkCancelled ==
    LET j == wk.job
    IN  /\ up /\ wk.at = "cancel"
        /\ job' = IF job[j].st # "cancel_requested" THEN job
                  ELSE [job EXCEPT ![j].st = "cancelled", ![j].key = FALSE,
                          ![j].item = [t \in Tables |-> IF @[t] = "pending" THEN "not_started"
                                                        ELSE @[t]]]
        /\ wk' = IdleWk
        /\ UNCHANGED <<src, tbl, late, preview, req, cancelled, up, bounds>>

\* Mutant: a job counts as completed even if tables are missing.
CompleteEarly ==
    /\ up /\ wk.at = "item"
    /\ job' = [job EXCEPT ![wk.job].st = "completed", ![wk.job].key = FALSE]
    /\ wk' = IdleWk
    /\ UNCHANGED <<src, tbl, late, preview, req, cancelled, up, bounds>>

\* Complete changes a job that is still running, and no other.
Complete ==
    LET j == wk.job
    IN  /\ up /\ wk.at = "complete"
        /\ job' = IF job[j].st # "running" THEN job
                  ELSE [job EXCEPT ![j].st = "completed", ![j].key = FALSE]
        /\ wk' = IdleWk
        /\ UNCHANGED <<src, tbl, late, preview, req, cancelled, up, bounds>>

\* A Meta DB call of the worker returns an error, that of Fail included: runJob returns and
\* nothing is written.
MetaError ==
    /\ up /\ errors < MaxErrors
    /\ wk.at \in {"claim", "setup", "item", "start", "verify", "mark", "cancel", "complete"}
    /\ wk' = IdleWk /\ errors' = errors + 1
    /\ UNCHANGED <<src, tbl, late, preview, req, job, cancelled, up, changes, foreign, cancels,
                   crashes>>

-----------------------------------------------------------------------------
(* The process and the world around it.                                    *)

ProcessExit ==
    /\ up /\ crashes < MaxCrashes
    /\ up' = FALSE /\ crashes' = crashes + 1
    /\ preview' = [k \in Tokens |-> [preview[k] EXCEPT !.st = IF @ = "none" THEN @ ELSE "gone"]]
    /\ req' = [q \in Requests |-> NoReq]
    /\ wk' = IdleWk /\ cancelled' = FALSE
    /\ late' = late \cup (IF wk.at = "exec" /\ ~cancelled
                          THEN {<<wk.cur, [by |-> wk.job, ddl |-> wk.ddl]>>} ELSE {})
    /\ UNCHANGED <<src, tbl, job, changes, foreign, cancels, errors>>

\* Startup.  An error is logged and the worker starts all the same.
InterruptRunning ==
    /\ ~up /\ up' = TRUE
    /\ \/ /\ job' = [j \in Jobs |-> IF job[j].st \in {"running", "cancel_requested"}
                                    THEN [job[j] EXCEPT !.st = "interrupted", !.key = FALSE]
                                    ELSE job[j]]
          /\ errors' = errors
       \/ /\ errors < MaxErrors
          /\ job' = job /\ errors' = errors + 1
    /\ UNCHANGED <<src, tbl, late, preview, req, wk, cancelled, changes, foreign, cancels, crashes>>

ChangeSource(t) ==
    /\ changes < MaxChanges
    /\ src' = [src EXCEPT ![t] = @ + 1] /\ changes' = changes + 1
    /\ UNCHANGED <<tbl, late, preview, req, job, wk, cancelled, up, foreign, cancels, errors,
                   crashes>>

\* Somebody else creates a table of that name in the target.
ForeignCreate(t) ==
    /\ foreign < MaxForeign /\ ~Exists(t)
    /\ tbl' = [tbl EXCEPT ![t] = [by |-> Foreign, ddl |-> 0]] /\ foreign' = foreign + 1
    /\ UNCHANGED <<src, late, preview, req, job, wk, cancelled, up, changes, cancels, errors,
                   crashes>>

-----------------------------------------------------------------------------
Worker ==
    \/ ListQueued \/ Claim \/ Setup \/ LoadSnapshot \/ MarkItemStarted \/ CreateTable
    \/ VerifyTable \/ MarkItemCreated \/ MarkCancelled \/ Complete

Next ==
    \/ SyncPreview \/ PrunePreview
    \/ \E q \in Requests : \/ Create(q)
                           \/ \E k \in Tokens : RevalidateSyncPreview(q, k)
                           \/ \E j \in Jobs : BuildRetryPlan(q, j)
    \/ \E j \in Jobs : RequestCancel(j)
    \/ Worker \/ WatchCancel \/ MetaError
    \/ ProcessExit \/ InterruptRunning
    \/ FinishLateCreate \/ \E t \in Tables : ChangeSource(t) \/ ForeignCreate(t)

Spec == Init /\ [][Next]_vars

-----------------------------------------------------------------------------
(* Properties.                                                             *)

\* A table that a job made has the definition the user saw in the preview the job goes back
\* to, through its retries, whatever happened to the source since: between the preview and
\* the job, and between the job and the table's turn.
MadeAsPreviewed ==
    \A t \in Tables : tbl[t].by \in Jobs => tbl[t].ddl = preview[job[tbl[t].by].token].fp[t]

\* When a job completes, be it a retry that only had the remaining tables to do, every table
\* of the original selection is in the target.
CompletedMeansCreated ==
    (\E j \in Jobs : job[j].st = "completed") => \A t \in Tables : Exists(t)

\* The worker creates a table only when every earlier table of its job is recorded as
\* created, so foreign keys find the tables they refer to.
DependencyOrder ==
    [][\A t \in Tables : tbl'[t] # tbl[t] /\ wk'.ok /\ wk.at = "exec"
          => \A s \in 1..(t - 1) : job[wk.job].item[s] \in {"created", "absent"}]_vars

=============================================================================
