---------------------------- MODULE BinlogExport ----------------------------
(***************************************************************************)
(* The MySQL binlog export: DBAs queue jobs that turn a range of a         *)
(* connection's binary log into two artifacts, forward SQL and rollback    *)
(* SQL.  One dispatcher claims queued jobs, at most GlobalWorkers at a     *)
(* time and one per connection; each claimed job has a goroutine that runs *)
(* my2sql twice and stores both artifacts, and a watcher that polls the    *)
(* job's row for a cancel request.                                         *)
(*                                                                         *)
(* The binary log is a sequence of events, each with its file and the      *)
(* second its statement began; a position is a file and an offset, the     *)
(* first event of a file starting at offset HeaderSize.  Clock time is     *)
(* counted in seconds, the age of a finished job in steps: 0 fresh, 1 past *)
(* the artifacts' seven days, 2 past the ninety days of its row.           *)
(***************************************************************************)
EXTENDS Integers, Sequences, FiniteSets

CONSTANTS
    Conns,                  \* MySQL connections with a rollback credential
    Requests,               \* the bodies of POST /binlog-exports
    MaxJobs,                \* bound: rows ever created
    MaxFaults,              \* bound: failing database calls and panics
    GlobalWorkers,          \* globalWorkers
    MaxFiles,               \* binlogExportMaxFiles
    FilteredRange,          \* filteredBinlogExportMaxRange
    UnfilteredRange         \* unfilteredBinlogExportMaxRange

ASSUME WorkersAssumption == GlobalWorkers \in Nat \ {0}

JobIds == 1 .. MaxJobs
Kinds == {"forward_sql", "rollback_sql"}
HeaderSize == 4

VARIABLES
    job,        \* mysql_binlog_export_jobs
    artifact,   \* mysql_binlog_export_artifacts: the events each one holds
    worker,     \* the goroutine of each claimed job
    global,     \* tokens taken from the Worker's global channel
    active,     \* the Worker's map of busy connections
    disp,       \* the dispatcher: the jobs it listed, and if it holds a slot
    log,        \* the binary log of each connection
    now,        \* the clock, in seconds
    served,     \* what the last download returned
    up,         \* the server process runs
    left        \* budgets: changes of the log, faults, crashes

exportVars == <<job, artifact, worker, global, active, disp, log, now, served, up, left>>

(***************************************************************************)
(* Rows, goroutines and stored artifacts.                                  *)
(***************************************************************************)
NoPos == [file |-> 0, pos |-> 0]
NoJob == [st |-> "none", req |-> 0, end |-> NoPos, byUser |-> FALSE, age |-> 0,
          of |-> 0]      \* of: retry_of_job_id
NoWorker == [pc |-> "none", cancelled |-> FALSE, forward |-> {}, rollback |-> {}]
NoDispatch == [list |-> <<>>, held |-> FALSE]
Absent == [state |-> "absent", events |-> {}]
Purged == [state |-> "purged", events |-> {}]
NoArtifacts == [k \in Kinds |-> Absent]

Finished == {"succeeded", "failed", "cancelled", "interrupted"}
Unfinished == {"queued", "running", "cancel_requested"}
Executing == {"resolving_range", "generating_forward", "checking", "generating_rollback",
              "persisting_artifacts", "failing", "marking"}

Req(j) == Requests[job[j].req]
Conn(j) == Req(j).conn
Live(j) == worker[j].pc # "none"

(***************************************************************************)
(* The binary log.                                                         *)
(***************************************************************************)
FileSize(L, f) == HeaderSize + Cardinality({i \in DOMAIN L.events : L.events[i].file = f})

Files(L) == L.first .. L.file

EventEnd(L, i) ==
    [file |-> L.events[i].file,
     pos |-> HeaderSize + Cardinality({k \in 1 .. i : L.events[k].file = L.events[i].file})]

NotAfter(p, q) == p.file < q.file \/ (p.file = q.file /\ p.pos <= q.pos)

(***************************************************************************)
(* validateBinlogExportRequest, the part that depends on the range.        *)
(***************************************************************************)
ValidRequest(r) ==
    /\ r.filtered \/ r.acknowledged
    /\ \/ /\ r.mode = "time"
          /\ r.start < r.stop
          /\ r.stop - r.start <= (IF r.filtered THEN FilteredRange ELSE UnfilteredRange)
          /\ r.stop <= now
       \/ /\ r.mode = "position"
          /\ r.from # r.to /\ NotAfter(r.from, r.to)
          /\ r.filtered \/ r.from.file = r.to.file

\* validateAndSnapshotBinlogRange: a time range ends where the log ends now, a
\* position range must lie in files that are still there
RangeAccepted(r) ==
    LET L == log[r.conn] IN
    \/ r.mode = "time"
    \/ /\ {r.from.file, r.to.file} \subseteq Files(L)
       /\ r.to.file - r.from.file + 1 <= MaxFiles
       /\ \A p \in {r.from, r.to} : p.pos >= HeaderSize /\ p.pos <= FileSize(L, p.file)

OpenEnded(r) == IF r.mode = "time" THEN [file |-> 1000000, pos |-> 0] ELSE r.to

Snapshot(r) ==
    LET L == log[r.conn] IN
    IF r.mode = "time" THEN [file |-> L.file, pos |-> FileSize(L, L.file)] ELSE r.to

\* buildRequest and the arguments of my2sql: both runs of a job read the same
\* range, up to the end its row holds.  A time range starts at the first event
\* of its window that is still in the log.
Reads(j) ==
    LET r == Req(j)
        L == log[r.conn]
    IN {i \in DOMAIN L.events :
            /\ L.events[i].file \in Files(L)
            /\ NotAfter(EventEnd(L, i), job[j].end)
            /\ \/ r.mode = "time" /\ r.start <= L.events[i].ts /\ L.events[i].ts <= r.stop
               \/ r.mode = "position" /\ ~NotAfter(EventEnd(L, i), r.from)}

\* in position mode the replication stream starts at a named file
Readable(j) == Req(j).mode = "time" \/ Req(j).from.file \in Files(log[Conn(j)])

\* a call of the metadata database fails, or the goroutine panics
Fault == left.fault > 0 /\ left' = [left EXCEPT !.fault = @ - 1]

(***************************************************************************)
(* The row updates of the repository.  Each is one statement whose WHERE   *)
(* clause names the statuses it may leave.                                 *)
(***************************************************************************)
SetStatus(j, from, to) ==
    job' = IF job[j].st \in from THEN [job EXCEPT ![j].st = to] ELSE job

MarkCancelled(j) == SetStatus(j, {"cancel_requested"}, "cancelled")
MarkFailed(j) == SetStatus(j, {"running"}, "failed")

\* a queued job ends at once, a running one is asked to; the row keeps who asked
RequestCancel(j) ==
    /\ job[j].st \in {"queued", "running"}
    /\ job' = [job EXCEPT ![j].st = IF @ = "queued" THEN "cancelled" ELSE "cancel_requested",
                          ![j].byUser = TRUE]

Claim(j) ==
    /\ job[j].st = "queued"
    /\ job' = [job EXCEPT ![j].st = "running"]

\* INSERT of a new row with the next id
Inserted(req, end, of) ==
    \E j \in JobIds :
        /\ job[j].st = "none"
        /\ \A k \in JobIds : k < j => job[k].st # "none"
        /\ job' = [job EXCEPT ![j] = [NoJob EXCEPT !.st = "queued", !.req = req, !.end = end, !.of = of]]

(***************************************************************************)
(* Handlers.                                                               *)
(***************************************************************************)
Create(req) ==
    /\ up
    /\ ValidRequest(Requests[req])
    /\ RangeAccepted(Requests[req])
    /\ Inserted(req, Snapshot(Requests[req]), 0)
    /\ UNCHANGED <<artifact, worker, global, active, disp, log, now, served, up, left>>

\* a row the user can open, which is one that exists
ScopedJob(j) == job[j].st \notin {"none", "deleted"}

Cancel(j) ==
    /\ up /\ ScopedJob(j)
    /\ RequestCancel(j)
    /\ UNCHANGED <<artifact, worker, global, active, disp, log, now, served, up, left>>

\* Retry copies the row, the end of its range included, without a new check
Retry(j) ==
    /\ up /\ ScopedJob(j)
    /\ job[j].st \in {"failed", "cancelled", "interrupted"}
    /\ Inserted(job[j].req, job[j].end, j)
    /\ UNCHANGED <<artifact, worker, global, active, disp, log, now, served, up, left>>

\* GetArtifact and the check of the expiry
Available(j, k) == artifact[j][k].state = "stored" /\ job[j].age = 0

Download(j, k) ==
    /\ up /\ ScopedJob(j)
    /\ Available(j, k)
    /\ served' = artifact[j][k].events
    /\ UNCHANGED <<job, artifact, worker, global, active, disp, log, now, up, left>>

(***************************************************************************)
(* The dispatcher: list the queued rows, then for each one take a slot and *)
(* claim the row, which may have been cancelled since it was listed.       *)
(***************************************************************************)
Queued == {j \in JobIds : job[j].st = "queued"}

InOrder(S) ==
    CHOOSE s \in [1 .. Cardinality(S) -> S] :
        \A a, b \in 1 .. Cardinality(S) : a < b => s[a] < s[b]

Dispatch ==
    /\ up /\ disp.list = <<>> /\ Queued # {}
    /\ disp' = [disp EXCEPT !.list = InOrder(Queued)]
    /\ UNCHANGED <<job, artifact, worker, global, active, log, now, served, up, left>>

AcquireAny(c) == global < GlobalWorkers

CanAcquire(c) == global < GlobalWorkers /\ c \notin active

Acquire ==
    /\ up /\ disp.list # <<>> /\ ~disp.held
    /\ LET c == Conn(Head(disp.list)) IN
       IF CanAcquire(c)
       THEN /\ global' = global + 1
            /\ active' = active \cup {c}
            /\ disp' = [disp EXCEPT !.held = TRUE]
       ELSE /\ disp' = [disp EXCEPT !.list = Tail(@)]
            /\ UNCHANGED <<global, active>>
    /\ UNCHANGED <<job, artifact, worker, log, now, served, up, left>>

GiveBack(c) ==
    /\ global' = global - 1
    /\ active' = active \ {c}

ClaimListed ==
    /\ up /\ disp.held
    /\ disp' = [list |-> Tail(disp.list), held |-> FALSE]
    /\ LET j == Head(disp.list) IN
       \/ /\ Claim(j)
          /\ worker' = [worker EXCEPT ![j] = [NoWorker EXCEPT !.pc = "resolving_range"]]
          /\ UNCHANGED <<global, active, left>>
       \/ /\ job[j].st # "queued"
          /\ GiveBack(Conn(j))
          /\ UNCHANGED <<job, worker, left>>
       \/ /\ Fault
          /\ GiveBack(Conn(j))
          /\ UNCHANGED <<job, worker>>
    /\ UNCHANGED <<artifact, log, now, served, up>>

(***************************************************************************)
(* The goroutine of a job: execute.                                        *)
(***************************************************************************)
Goto(j, pc) == worker' = [worker EXCEPT ![j].pc = pc]

\* the metadata of the connection is read again; any of it may be gone
Resolve(j) ==
    /\ up /\ worker[j].pc = "resolving_range"
    /\ \E pc \in {"generating_forward", "failing"} : Goto(j, pc)
    /\ UNCHANGED <<job, artifact, global, active, disp, log, now, served, up, left>>

\* my2sql.Run: the statements of the range, or no result after a timeout, at a
\* size limit, without the file, when the cancelled context killed the process,
\* and for a range without any statement
Outcomes(j) == {{}} \cup (IF Readable(j) THEN {Reads(j)} ELSE {})

Generate(j, from, kind, next) ==
    /\ up /\ worker[j].pc = from
    /\ \E events \in Outcomes(j) :
          worker' = [worker EXCEPT ![j] = IF events = {} THEN [@ EXCEPT !.pc = "failing"]
                                          ELSE [@ EXCEPT !.pc = next, ![kind] = events]]
    /\ UNCHANGED <<job, artifact, global, active, disp, log, now, served, up, left>>

Forward(j) == Generate(j, "generating_forward", "forward", "checking")
Rollback(j) == Generate(j, "generating_rollback", "rollback", "persisting_artifacts")

\* the row is read again: a cancel request ends it, anything else and a failing
\* read go on
EndOrContinue(j, next) ==
    \/ /\ job[j].st = "cancel_requested"
       /\ MarkCancelled(j) /\ Goto(j, "release")
       /\ UNCHANGED left
    \/ /\ job[j].st # "cancel_requested"
       /\ Goto(j, next)
       /\ UNCHANGED <<job, left>>
    \/ /\ Fault
       /\ Goto(j, next)
       /\ UNCHANGED job

CheckCancelled(j) ==
    /\ up /\ worker[j].pc = "checking"
    /\ EndOrContinue(j, "generating_rollback")
    /\ UNCHANGED <<artifact, global, active, disp, log, now, served, up>>

Stored(j, k) ==
    [state |-> "stored",
     events |-> IF k = "forward_sql" THEN worker[j].forward ELSE worker[j].rollback]

\* Complete: one transaction inserts both artifacts and ends the row, unless the
\* row is no longer running, the context is cancelled or the database fails
CompleteAnyway(j) ==
    /\ job' = [job EXCEPT ![j].st = "succeeded"]
    /\ artifact' = [artifact EXCEPT ![j] = [k \in Kinds |-> Stored(j, k)]]

Complete(j) ==
    /\ job[j].st = "running"
    /\ job' = [job EXCEPT ![j].st = "succeeded"]
    /\ artifact' = [artifact EXCEPT ![j] = [k \in Kinds |-> Stored(j, k)]]

Persist(j) ==
    /\ up /\ worker[j].pc = "persisting_artifacts"
    /\ \/ /\ ~worker[j].cancelled
          /\ Complete(j)
          /\ Goto(j, "release")
          /\ UNCHANGED left
       \/ /\ job[j].st # "running" \/ worker[j].cancelled
          /\ Goto(j, "failing")
          /\ UNCHANGED <<job, artifact, left>>
       \/ /\ Fault
          /\ Goto(j, "failing")
          /\ UNCHANGED <<job, artifact>>
    /\ UNCHANGED <<global, active, disp, log, now, served, up>>

\* fail, first half
FailRead(j) ==
    /\ up /\ worker[j].pc = "failing"
    /\ EndOrContinue(j, "marking")
    /\ UNCHANGED <<artifact, global, active, disp, log, now, served, up>>

\* fail, second half: a cancel request that came in between leaves the row in
\* cancel_requested, as MarkFailed expects it to be running; an error of the
\* update is ignored
FailMark(j) ==
    /\ up /\ worker[j].pc = "marking"
    /\ Goto(j, "release")
    /\ \/ /\ IF worker[j].cancelled THEN MarkCancelled(j) ELSE MarkFailed(j)
          /\ UNCHANGED left
       \/ /\ Fault
          /\ UNCHANGED job
    /\ UNCHANGED <<artifact, global, active, disp, log, now, served, up>>

\* a panic anywhere in execute is recovered, and the row marked as failed
Panic(j) ==
    /\ up /\ worker[j].pc \in Executing
    /\ Fault
    /\ MarkFailed(j)
    /\ Goto(j, "release")
    /\ UNCHANGED <<artifact, global, active, disp, log, now, served, up>>

Release(j) ==
    /\ up /\ worker[j].pc = "release"
    /\ worker' = [worker EXCEPT ![j] = NoWorker]
    /\ GiveBack(Conn(j))
    /\ UNCHANGED <<job, artifact, disp, log, now, served, up, left>>

\* watchCancellation
Watch(j) ==
    /\ up /\ worker[j].pc \in Executing /\ ~worker[j].cancelled
    /\ job[j].st = "cancel_requested"
    /\ worker' = [worker EXCEPT ![j].cancelled = TRUE]
    /\ UNCHANGED <<job, artifact, global, active, disp, log, now, served, up, left>>

WorkerStep(j) ==
    \/ Resolve(j) \/ Forward(j) \/ CheckCancelled(j) \/ Rollback(j) \/ Persist(j)
    \/ FailRead(j) \/ FailMark(j) \/ Release(j)

(***************************************************************************)
(* Retention, restart and the database server.                             *)
(***************************************************************************)
\* purgeExpired: every hour, and when the server starts.  PurgeMetadata is one DELETE,
\* which the foreign key of retries makes fail as a whole when one of its rows was retried.
Purgeable ==
    LET old == {j \in JobIds : job[j].age = 2}
    IN  IF \E k \in JobIds : job[k].of \in old /\ job[k].st # "deleted" THEN {} ELSE old

\* the artifacts of a deleted row go with it
PurgeArtifacts ==
    artifact' = [j \in JobIds |->
        IF j \in Purgeable THEN NoArtifacts
        ELSE [k \in Kinds |-> IF artifact[j][k].state = "stored" /\ job[j].age > 0
                              THEN Purged ELSE artifact[j][k]]]

PurgeRows(rows) ==
    [j \in JobIds |-> IF j \in Purgeable THEN [rows[j] EXCEPT !.st = "deleted", !.age = 0] ELSE rows[j]]

PurgeExpired ==
    /\ up
    /\ \E j \in JobIds : job[j].age > 0
    /\ job' = PurgeRows(job)
    /\ PurgeArtifacts
    /\ UNCHANGED <<worker, global, active, disp, log, now, served, up, left>>

\* days pass; a goroutine is bounded by my2sql's timeout and gone long before
Age(j) ==
    /\ job[j].st \in Finished /\ job[j].age < 2 /\ ~Live(j) /\ left.age > 0
    /\ left' = [left EXCEPT !.age = @ - 1]
    /\ job' = [job EXCEPT ![j].age = @ + 1]
    /\ UNCHANGED <<artifact, worker, global, active, disp, log, now, served, up>>

Crash ==
    /\ up /\ left.crash > 0
    /\ up' = FALSE
    /\ left' = [left EXCEPT !.crash = @ - 1]
    /\ worker' = [j \in JobIds |-> NoWorker]
    /\ global' = 0 /\ active' = {} /\ disp' = NoDispatch
    /\ UNCHANGED <<job, artifact, log, now, served>>

InterruptWaiting(rows) ==
    [j \in JobIds |-> IF rows[j].st \in {"queued", "cancel_requested"}
                      THEN [rows[j] EXCEPT !.st = "interrupted"] ELSE rows[j]]

InterruptActive(rows) ==
    [j \in JobIds |-> IF rows[j].st \in Unfinished
                      THEN [rows[j] EXCEPT !.st = "interrupted"] ELSE rows[j]]

\* Start: a failure of InterruptActive is logged and the worker goes on
Start ==
    /\ ~up
    /\ up' = TRUE
    /\ \/ /\ job' = PurgeRows(InterruptActive(job))
          /\ UNCHANGED left
       \/ /\ Fault
          /\ job' = PurgeRows(job)
    /\ PurgeArtifacts
    /\ UNCHANGED <<worker, global, active, disp, log, now, served>>

SpendLog == left.log > 0 /\ left' = [left EXCEPT !.log = @ - 1]

\* an event reaches the log when its transaction commits and carries the second
\* its statement began
Write(c, ts) ==
    /\ SpendLog
    /\ log' = [log EXCEPT ![c].events = Append(@, [file |-> log[c].file, ts |-> ts])]
    /\ UNCHANGED <<job, artifact, worker, global, active, disp, now, served, up>>

Rotate(c) ==
    /\ SpendLog
    /\ log' = [log EXCEPT ![c].file = @ + 1]
    /\ UNCHANGED <<job, artifact, worker, global, active, disp, now, served, up>>

PurgeLog(c) ==
    /\ SpendLog
    /\ log[c].first < log[c].file
    /\ log' = [log EXCEPT ![c].first = @ + 1]
    /\ UNCHANGED <<job, artifact, worker, global, active, disp, now, served, up>>

Tick ==
    /\ SpendLog
    /\ now' = now + 1
    /\ UNCHANGED <<job, artifact, worker, global, active, disp, log, served, up>>

Database == Tick \/ \E c \in Conns : (\E ts \in {now - 1, now} : Write(c, ts)) \/ Rotate(c) \/ PurgeLog(c)

(***************************************************************************)
(* The specification.  The instance says which jobs are queued at first,   *)
(* and how left, log and now begin.                                        *)
(***************************************************************************)
ExportInit ==
    /\ \A j \in JobIds : job[j].st \in {"none", "queued"} /\ ~job[j].byUser /\ job[j].age = 0
    /\ artifact = [j \in JobIds |-> NoArtifacts]
    /\ worker = [j \in JobIds |-> NoWorker]
    /\ global = 0 /\ active = {} /\ disp = NoDispatch
    /\ served = {} /\ up = TRUE

ExportNext ==
    \/ \E req \in DOMAIN Requests : Create(req)
    \/ \E j \in JobIds :
          \/ Cancel(j) \/ Retry(j) \/ (\E k \in Kinds : Download(j, k))
          \/ WorkerStep(j) \/ Panic(j) \/ Watch(j) \/ Age(j)
    \/ Dispatch \/ Acquire \/ ClaimListed
    \/ PurgeExpired \/ Crash \/ Start \/ Database

(***************************************************************************)
(* Properties.                                                             *)
(***************************************************************************)
\* Who needs a slot.
Holders == {j \in JobIds : Live(j)} \cup (IF disp.held THEN {Head(disp.list)} ELSE {})

\* The slots are held exactly by the goroutines and by the dispatcher between
\* its acquire and its claim: no two jobs of a connection run at once, no more
\* than GlobalWorkers run, and no slot is lost by a cancelled, failed or
\* panicking job (Worker.acquire, Worker.release, dispatch).
SlotsMatchWork ==
    /\ active = {Conn(j) : j \in Holders}
    /\ \A j, k \in Holders : Conn(j) = Conn(k) => j = k
    /\ global = Cardinality(Holders)
    /\ global <= GlobalWorkers

\* A job has both its artifacts exactly when it succeeded and its row is not
\* yet past its retention, and a job a user cancelled never has any (Complete
\* against RequestCancel, watchCancellation, crashes and purges).
ArtifactsOfSucceeded ==
    \A j \in JobIds :
        /\ job[j].st = "succeeded" <=> \A k \in Kinds : artifact[j][k].state # "absent"
        /\ job[j].st = "succeeded" <=> \E k \in Kinds : artifact[j][k].state # "absent"
        /\ job[j].byUser => job[j].st # "succeeded"

\* The rollback artifact undoes nothing that the forward artifact does not
\* show, although the log grows, rotates and is purged between the two runs
\* of my2sql; in position mode they cover the same events
\* (validateAndSnapshotBinlogRange, execute).
ArtifactsAgree ==
    \A j \in JobIds :
        LET f == artifact[j]["forward_sql"]
            r == artifact[j]["rollback_sql"]
        IN f.state = "stored" /\ r.state = "stored" =>
            /\ r.events \subseteq f.events
            /\ Req(j).mode = "position" => r.events = f.events

\* A running row does not stay running: its goroutine ends it, or the next
\* start of the server interrupts it, unless a database call or the goroutine
\* itself failed on the way (execute, fail, InterruptActive).
RunningEnds ==
    \A j \in JobIds : job[j].st = "running" ~> (job[j].st # "running" \/ left.fault < MaxFaults)
=============================================================================
