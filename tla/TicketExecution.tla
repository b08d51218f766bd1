--------------------------- MODULE TicketExecution ---------------------------
(***************************************************************************)
(* Execution of one approved change ticket: the tickets row, its           *)
(* ticket_executions rows, the process-local registry of active queries,   *)
(* the goroutines and HTTP requests that race on them, graceful shutdown,  *)
(* crash and restart recovery, and what the target database really did.    *)
(*                                                                         *)
(* Every goroutine or request is a member of Procs.  Its record holds the  *)
(* step it is at and the values it has read and not yet used, so that a    *)
(* read and the write that relies on it are different steps wherever the   *)
(* code performs them as different Meta DB calls.                          *)
(***************************************************************************)
EXTENDS Naturals, FiniteSets

CONSTANTS
    N,              \* number of statements in the ticket
    Procs,          \* goroutines and requests that can be in flight at once
    TicketTypes,    \* the types the ticket may have: "ddl", "dml", "redis_command"
    AutoStart,      \* processes at the end of an approval that auto-executes
    GracefulShutdown, \* whether SIGTERM handling takes part
    MaxCrashes,     \* bound: process exits (crash or end of graceful shutdown)
    MaxStops        \* bound: Stop and StopStatement requests

ASSUME ExecutionAssumption ==
    /\ N \in Nat \ {0}
    /\ TicketTypes \subseteq {"ddl", "dml", "redis_command"}
    /\ AutoStart \subseteq Procs
    /\ GracefulShutdown \in BOOLEAN
    /\ MaxCrashes \in Nat
    /\ MaxStops \in Nat

VARIABLES
    ticketType,                                   \* given when the ticket is created
    status, runMode, dmlMode, scheduled,          \* the tickets row
    row, outcome, tool,                           \* its executions and tool runs
    phase, active, pendingCancel, ctxDone, victims, \* process memory
    proc,                                         \* goroutines and requests
    sends, effect,                                \* the target database
    crashes, stops, stopAck, lapsed               \* bounds and history

ticketVars == <<status, runMode, dmlMode, scheduled>>
rowVars    == <<row, outcome, tool>>
memVars    == <<phase, active, pendingCancel, ctxDone, victims>>
dbVars     == <<sends, effect>>
histVars   == <<crashes, stops, stopAck, lapsed>>
vars == <<ticketType, ticketVars, rowVars, memVars, proc, dbVars, histVars>>

-----------------------------------------------------------------------------
Rows == 1..N

RowStatus == {"absent", "pending", "running", "completed", "failed", "stopped"}

Outcome == {"none", "sent_to_db", "completed", "failed", "not_sent",
            "outcome_unknown", "manually_stopped", "service_shutdown"}

\* The statuses a ticket can have once it has been approved for execution.
TicketStatus == {"pending_execution", "executing", "completed", "failed",
                 "stopped", "rejected", "interrupted"}

\* The statuses the transition table gives no outgoing transition.
Terminal == {"rejected", "completed", "failed", "stopped", "interrupted"}

RunMode == {"none", "batch", "workflow_auto", "whole_ticket", "manual_statement"}

DMLMode == {"none", "per_statement", "whole_ticket"}

isFullTicketExecutionRunMode(m) == m \in {"batch", "workflow_auto", "whole_ticket"}

Executable == {"pending_execution", "executing"}

Step == {"idle", "autostart", "prepare", "list", "next", "mark", "claim", "open",
         "register", "send", "await", "settle", "record", "refresh", "aggregate",
         "commit", "finish", "es_row", "es_claim", "es_queue", "es_fail",
         "stop", "ss_cancel", "ss_mark"}

Kind == {"none", "batch", "whole", "redis", "statement", "tool", "request"}

\* What a process has read or been told and will act on: a statement's result, the ticket
\* status derived from the rows, or the run mode.
Reading == Outcome \cup TicketStatus \cup RunMode

Proc == [at : Step, kind : Kind, cur : 0..(N + 1), snap : [Rows -> RowStatus],
         final : {"none", "completed", "failed"},
         res : Reading,
         ret : Step]

NoRows == [r \in Rows |-> "absent"]

Idle == [at |-> "idle", kind |-> "none", cur |-> 0, snap |-> NoRows,
         final |-> "none", res |-> "none", ret |-> "idle"]

-----------------------------------------------------------------------------
Count(rw, S) == Cardinality({r \in Rows : rw[r] \in S})

\* Mutant: a ticket is completed as soon as none of its rows is left to do.
AggregateIgnoresFailures(rw, mode) ==
    IF Count(rw, {"completed", "failed", "stopped"}) = N THEN "completed" ELSE "executing"

\* The ticket status implied by its rows.
AggregateTicketStatusFromCounts(rw, mode) ==
    LET pending   == Count(rw, {"pending"})
        running   == Count(rw, {"running"})
        completed == Count(rw, {"completed"})
        failed    == Count(rw, {"failed", "stopped"})
    IN  IF running > 0 THEN "executing"
        ELSE IF pending = N THEN "pending_execution"
        ELSE IF completed = N THEN "completed"
        ELSE IF failed > 0 THEN
            IF mode = "manual_statement" /\ pending > 0 THEN "executing" ELSE "failed"
        ELSE "executing"

RunnerKind(dm) ==
    IF ticketType = "redis_command" THEN "redis"
    ELSE IF ticketType = "dml" /\ dm = "whole_ticket" THEN "whole" ELSE "batch"

\* Where a run goes when it stops looking at further statements.
HaltAt(k) == IF k = "whole" THEN "commit" ELSE "finish"

EnsureExecutions(rw) == IF rw = NoRows THEN [r \in Rows |-> "pending"] ELSE rw

\* The record m at step s; with the final status failed; with the result a; one statement
\* further; about to refresh the ticket and then go to s; and a fresh record.
At(m, s)       == [m EXCEPT !.at = s]
Fail(m, s)     == [m EXCEPT !.at = s, !.final = "failed"]
Got(m, s, a)   == [m EXCEPT !.at = s, !.res = a]
Advance(m)     == [m EXCEPT !.cur = @ + 1]
Refresh(m, s)  == [m EXCEPT !.at = "refresh", !.ret = s]
Begin(s, k, r) == [Idle EXCEPT !.at = s, !.kind = k, !.cur = r]

\* Goroutine or request p goes on as m.
Become(p, m) == proc' = [proc EXCEPT ![p] = m]

Serving == phase = "up"
Alive   == phase # "down"

Init ==
    /\ ticketType \in TicketTypes
    /\ status = "pending_execution" /\ runMode = "none" /\ dmlMode = "none"
    /\ scheduled = FALSE
    /\ row = NoRows
    /\ outcome = [r \in Rows |-> "none"]
    /\ tool = [r \in Rows |-> "none"]
    /\ phase = "up" /\ active = {} /\ pendingCancel = {} /\ ctxDone = {} /\ victims = {}
    /\ proc = [p \in Procs |-> IF p \in AutoStart
                               THEN Begin("autostart", "request", 0)
                               ELSE Idle]
    /\ sends = [r \in Rows |-> 0]
    /\ effect = [r \in Rows |-> "none"]
    /\ crashes = 0 /\ stops = 0 /\ stopAck = FALSE /\ lapsed = {}

-----------------------------------------------------------------------------
(* Starting a run.                                                         *)

\* OCC update: only the request that still finds pending_execution wins; the
\* winner spawns the run's goroutine.
StartExecution(p, mode, dml) ==
    /\ status = "pending_execution"
    /\ status' = "executing"
    /\ runMode' = mode
    /\ dmlMode' = IF dml = "none" THEN dmlMode ELSE dml
    /\ Become(p, Begin("prepare", RunnerKind(dmlMode'), 0))
    /\ stopAck' = FALSE
    /\ UNCHANGED <<scheduled, rowVars, memVars, dbVars, crashes, stops, lapsed>>

Execute(p) ==
    /\ Serving /\ proc[p] = Idle
    /\ IF ticketType = "dml"
       THEN \/ StartExecution(p, "batch", "per_statement")
            \/ StartExecution(p, "whole_ticket", "whole_ticket")
       ELSE StartExecution(p, "batch", "none")

ScheduleExecution ==
    /\ Serving /\ status = "pending_execution" /\ ~scheduled
    /\ scheduled' = TRUE
    /\ UNCHANGED <<status, runMode, dmlMode, rowVars, memVars, proc, dbVars, histVars>>

\* The 30 second scheduler finds the ticket due.
RunScheduler(p) ==
    /\ Alive /\ proc[p] = Idle /\ scheduled
    /\ StartExecution(p, "batch", "none")

\* The approving request continues into automatic execution, or finds the ticket
\* already taken.
StartWorkflowAutoExecution(p) ==
    /\ Alive /\ proc[p].at = "autostart"
    /\ \/ StartExecution(p, "workflow_auto", "none")
       \/ /\ status # "pending_execution"
          /\ Become(p, Idle)
          /\ UNCHANGED <<ticketVars, rowVars, memVars, dbVars, histVars>>

RejectAtExecution ==
    /\ Serving /\ status = "pending_execution"
    /\ status' = "rejected"
    /\ UNCHANGED <<runMode, dmlMode, scheduled, rowVars, memVars, proc, dbVars, histVars>>

\* Opening the ticket page creates the statement rows.
GetTicket ==
    /\ Serving /\ status \in Executable /\ ticketType # "redis_command" /\ row = NoRows
    /\ row' = EnsureExecutions(row)
    /\ UNCHANGED <<ticketVars, outcome, tool, memVars, proc, dbVars, histVars>>

-----------------------------------------------------------------------------
(* The run of a whole ticket: runTicketSQL, runTicketWholeTicketSQL and    *)
(* runTicketRedisCommands.                                                 *)

PrepareRows(p) ==
    /\ Alive /\ proc[p].at = "prepare"
    /\ row' = EnsureExecutions(row)
    /\ Become(p, At(proc[p], "list"))
    /\ UNCHANGED <<ticketVars, outcome, tool, memVars, dbVars, histVars>>

\* Parsing, loading the rows or opening the connection fails.
FinishStartFailure(p) ==
    /\ Alive /\ proc[p].at \in {"prepare", "list"}
    /\ status' = "failed"
    /\ Become(p, Idle)
    /\ UNCHANGED <<runMode, dmlMode, scheduled, rowVars, memVars, dbVars, histVars>>

ListExecutions(p) ==
    /\ Alive /\ proc[p].at = "list"
    /\ Become(p, [proc[p] EXCEPT !.at = "next", !.snap = row, !.cur = 1,
                          !.final = "completed"])
    /\ UNCHANGED <<ticketVars, rowVars, memVars, dbVars, histVars>>

\* One turn of the loop up to the decision what to do with the statement.  The row
\* is judged by the list read at the start; the ticket is read again.
NextStatement(p) ==
    LET me == proc[p]
        listed == me.snap[me.cur]
    IN  /\ Alive /\ me.at = "next"
        /\ Become(p,
             IF me.cur > N THEN At(me, HaltAt(me.kind))
             ELSE IF listed \in {"failed", "stopped"}
                  THEN Fail(me, HaltAt(me.kind))
             ELSE IF listed # "pending" THEN Advance(me)
             ELSE IF status = "stopped"
                  THEN IF me.kind = "whole"
                       THEN Fail(me, "commit")
                       ELSE Idle
             ELSE At(me, IF me.kind = "batch" THEN "mark" ELSE "claim"))
        /\ UNCHANGED <<ticketVars, rowVars, memVars, dbVars, histVars>>

\* Mutant: the transaction is committed whatever happened to the statements.
CommitAlways(p) ==
    /\ Alive /\ proc[p].at = "commit"
    /\ effect' = [r \in Rows |-> IF effect[r] = "tx" THEN "applied" ELSE effect[r]]
    /\ Become(p, At(proc[p], "finish"))
    /\ UNCHANGED <<ticketVars, rowVars, memVars, sends, histVars>>

\* A whole-ticket run commits its transaction only if nothing failed.  A commit that
\* reports an error may or may not have taken effect.
CommitTx(p) ==
    LET me == proc[p]
        close(e) == [r \in Rows |-> IF effect[r] = "tx" THEN e ELSE effect[r]]
    IN  /\ Alive /\ me.at = "commit"
        /\ \/ /\ me.final = "completed"
              /\ effect' = close("applied")
              /\ Become(p, At(me, "finish"))
           \/ /\ me.final = "completed"
              /\ \E e \in {"applied", "failed"} : effect' = close(e)
              /\ Become(p, Fail(me, "finish"))
           \/ /\ me.final = "failed"
              /\ effect' = close("failed")
              /\ Become(p, At(me, "finish"))
        /\ UNCHANGED <<ticketVars, rowVars, memVars, sends, histVars>>

\* finishTicket writes the final status without looking at the current one.
FinishTicket(p) ==
    /\ Alive /\ proc[p].at = "finish"
    /\ status' = proc[p].final
    /\ Become(p, Idle)
    /\ UNCHANGED <<runMode, dmlMode, scheduled, rowVars, memVars, dbVars, histVars>>

-----------------------------------------------------------------------------
(* One statement: runTicketStatementExecution and its callees.             *)

MarkTicketExecuting(p) ==
    /\ Alive /\ proc[p].at = "mark"
    /\ IF status \in Executable
       THEN /\ status' = "executing"
            /\ runMode' = IF runMode = "none" THEN "manual_statement" ELSE runMode
       ELSE UNCHANGED <<status, runMode>>
    /\ Become(p, At(proc[p], "claim"))
    /\ UNCHANGED <<dmlMode, scheduled, rowVars, memVars, dbVars, histVars>>

\* Mutant: the claim updates the row without requiring it to be pending.
ClaimUnconditionally(p) ==
    LET me == proc[p]
    IN  /\ Alive /\ me.at = "claim"
        /\ row' = [row EXCEPT ![me.cur] = "running"]
        /\ outcome' = [outcome EXCEPT ![me.cur] = "none"]
        /\ Become(p, At(me, "open"))
        /\ UNCHANGED <<ticketVars, tool, memVars, dbVars, histVars>>

\* OCC update pending -> running: whoever changes the row owns the statement.
MarkExecutionRunningIfPending(p) ==
    LET me == proc[p]
    IN  /\ Alive /\ me.at = "claim"
        /\ \/ /\ row[me.cur] = "pending"
              /\ row' = [row EXCEPT ![me.cur] = "running"]
              /\ outcome' = [outcome EXCEPT ![me.cur] = "none"]
              /\ Become(p,
                    IF me.kind = "redis" THEN Refresh(me, "open")
                    ELSE At(me, "open"))
           \/ /\ row[me.cur] # "pending"
              /\ Become(p,
                    IF me.kind = "statement" THEN Idle
                    ELSE IF me.kind = "redis" /\ row[me.cur] \notin {"failed", "stopped"}
                         THEN At(Advance(me), "next")
                    ELSE Fail(me, HaltAt(me.kind)))
              /\ UNCHANGED <<row, outcome>>
        /\ UNCHANGED <<ticketVars, tool, memVars, dbVars, histVars>>

\* Connecting fails, or the row is stamped as sent and the statement may be
\* registered.  A Redis command is only parsed here.
OpenConnection(p) ==
    LET me == proc[p]
    IN  /\ Alive /\ me.at = "open"
        /\ \/ /\ me.kind # "whole"
              /\ Become(p,
                    IF me.kind = "redis" THEN Got(me, "record", "failed")
                    ELSE Got(me, "settle", "not_sent"))
              /\ UNCHANGED outcome
           \/ /\ outcome' = IF me.kind # "redis" /\ row[me.cur] = "running"
                            THEN [outcome EXCEPT ![me.cur] = "sent_to_db"] ELSE outcome
              /\ Become(p, At(me, "register"))
        /\ UNCHANGED <<ticketVars, row, tool, memVars, dbVars, histVars>>

\* Mutant: a cancel that arrived before the registration is forgotten.
RegisterIgnoresPendingCancel(p) ==
    /\ Alive /\ proc[p].at = "register"
    /\ active' = active \cup {proc[p].cur}
    /\ Become(p, At(proc[p], "send"))
    /\ UNCHANGED <<ticketVars, rowVars, phase, pendingCancel, ctxDone, victims, dbVars, histVars>>

\* register: a cancel that arrived first is consumed and the statement is not run.
RegisterQuery(p) ==
    LET me == proc[p]
    IN  /\ Alive /\ me.at = "register"
        /\ \/ /\ me.cur \in pendingCancel
              /\ pendingCancel' = pendingCancel \ {me.cur}
              /\ Become(p,
                    IF me.kind = "redis"
                    THEN Got(me, "record", "manually_stopped")
                    ELSE Got(me, "settle", "not_sent"))
              /\ UNCHANGED active
           \/ /\ me.cur \notin pendingCancel
              /\ active' = active \cup {me.cur}
              /\ Become(p, At(me, "send"))
              /\ UNCHANGED pendingCancel
        /\ UNCHANGED <<ticketVars, rowVars, phase, ctxDone, victims, dbVars, histVars>>

\* The driver refuses a context that is already cancelled; otherwise the statement
\* goes to the target database.
SendStatement(p) ==
    LET me == proc[p]
    IN  /\ Alive /\ me.at = "send"
        /\ \/ /\ me.cur \notin ctxDone
              /\ sends' = [sends EXCEPT ![me.cur] = @ + 1]
              /\ Become(p, At(me, "await"))
              /\ UNCHANGED active
           \/ /\ me.cur \in ctxDone
              /\ active' = active \ {me.cur}
              /\ Become(p, Got(me, "settle", "outcome_unknown"))
              /\ UNCHANGED sends
        /\ UNCHANGED <<ticketVars, rowVars, phase, pendingCancel, ctxDone, victims,
                       effect, histVars>>

\* What the database may have done when the driver reports a.
EffectOf(k, a) ==
    LET done == IF k = "whole" THEN "tx" ELSE "applied"
    IN  (IF a # "failed" THEN {done} ELSE {}) \cup (IF a # "completed" THEN {"failed"} ELSE {})

\* Mutant: an error that leaves the outcome open is classified as not sent.
AnswerClassifiedNotSent(p) ==
    LET me == proc[p]
    IN  /\ Alive /\ me.at = "await"
        /\ \E e \in EffectOf(me.kind, "outcome_unknown") : effect' = [effect EXCEPT ![me.cur] = e]
        /\ active' = active \ {me.cur}
        /\ Become(p, Got(me, "settle", "not_sent"))
        /\ UNCHANGED <<ticketVars, rowVars, phase, pendingCancel, ctxDone, victims,
                       sends, histVars>>


ReceiveAnswer(p) ==
    LET me == proc[p]
    IN  /\ Alive /\ me.at = "await"
        /\ \E a \in {"completed", "failed", "outcome_unknown"} :
             /\ \E e \in EffectOf(me.kind, a) : effect' = [effect EXCEPT ![me.cur] = e]
             /\ Become(p, Got(me, "settle", a))
        /\ active' = active \ {me.cur}
        /\ UNCHANGED <<ticketVars, rowVars, phase, pendingCancel, ctxDone, victims,
                       sends, histVars>>

\* How a run goes on once its statement is settled: a manual one ends, a whole-ticket
\* one takes the next statement or ends as failed; all but the transaction refresh first.
AfterStatement(me, ok) ==
    IF me.kind = "statement" THEN Refresh(me, "idle")
    ELSE IF ok THEN
        IF me.kind = "whole" THEN At(Advance(me), "next")
        ELSE Refresh(Advance(me), "next")
    ELSE IF me.kind = "whole" THEN Fail(me, "commit")
    ELSE Refresh(Fail(me, "finish"), "finish")

\* The row is read again: one that was stopped or failed meanwhile is left alone.
\* A Redis run looks for stopped only.
RereadExecution(p) ==
    LET me == proc[p]
        overruled == row[me.cur] = "stopped" \/ (row[me.cur] = "failed" /\ me.kind # "redis")
    IN  /\ Alive /\ me.at = "settle"
        /\ Become(p, IF overruled THEN AfterStatement(me, FALSE)
                     ELSE At(me, "record"))
        /\ UNCHANGED <<ticketVars, rowVars, memVars, dbVars, histVars>>

\* The row written for a result: MarkExecutionDone, MarkExecutionFailedWithOutcome and
\* MarkExecutionStopped, none of which looks at the row it overwrites.
RowOf(a) == IF a = "completed" THEN "completed"
            ELSE IF a = "manually_stopped" THEN "stopped" ELSE "failed"

\* Mutant: the loop goes on to the next statement after an error.
RecordAndContinue(p) ==
    LET me == proc[p]
    IN  /\ Alive /\ me.at = "record"
        /\ row' = [row EXCEPT ![me.cur] = RowOf(me.res)]
        /\ outcome' = [outcome EXCEPT ![me.cur] = me.res]
        /\ Become(p, Refresh(Advance(me), "next"))
        /\ UNCHANGED <<ticketVars, tool, memVars, dbVars, histVars>>

\* After a tool run, HandleTerminal continues a batch run or just refreshes the ticket.
RecordExecution(p) ==
    LET me == proc[p]
    IN  /\ Alive /\ me.at = "record"
        /\ row' = [row EXCEPT ![me.cur] = RowOf(me.res)]
        /\ outcome' = [outcome EXCEPT ![me.cur] =
              IF me.kind = "redis" /\ me.res = "outcome_unknown" THEN "failed" ELSE me.res]
        /\ Become(p,
             IF me.kind # "tool" THEN AfterStatement(me, me.res = "completed")
             ELSE IF runMode = "batch"
                  THEN Begin("prepare", RunnerKind(dmlMode), 0)
             ELSE Refresh(me, "idle"))
        /\ UNCHANGED <<ticketVars, tool, memVars, dbVars, histVars>>

\* refreshTicketStatusFromExecutions: the rows are read, then the status derived from
\* them is written over whatever the ticket says by then.
RefreshRead(p) ==
    /\ Alive /\ proc[p].at = "refresh"
    /\ Become(p, Got(proc[p], "aggregate", AggregateTicketStatusFromCounts(row, runMode)))
    /\ UNCHANGED <<ticketVars, rowVars, memVars, dbVars, histVars>>

SetExecutionAggregateStatus(p) ==
    LET me == proc[p]
    IN  /\ Alive /\ me.at = "aggregate"
        /\ status' = me.res
        /\ Become(p,
              IF me.ret = "idle" THEN Idle
              ELSE Got(Refresh(me, "idle"), me.ret, "none"))
        /\ UNCHANGED <<runMode, dmlMode, scheduled, rowVars, memVars, dbVars, histVars>>

\* The driver call panics.  The deferred calls unregister the query (the Redis loop does
\* not defer it) and roll back an open transaction; the recovery marks the running rows
\* and fails the ticket.
RecoverTicketExecutionPanic(p) ==
    LET me == proc[p]
        hit == IF me.kind = "statement" THEN {me.cur}
               ELSE {r \in Rows : row[r] = "running"}
    IN  /\ Alive /\ me.at = "await"
        /\ row' = [r \in Rows |-> IF r \in hit THEN "failed" ELSE row[r]]
        /\ outcome' = [r \in Rows |-> IF r \in hit THEN "outcome_unknown" ELSE outcome[r]]
        /\ active' = IF me.kind = "redis" THEN active ELSE active \ {me.cur}
        /\ \E e \in {"applied", "failed"} :
             effect' = [r \in Rows |->
                IF effect[r] = "tx" \/ (r = me.cur /\ me.kind = "whole") THEN "failed"
                ELSE IF r = me.cur THEN e ELSE effect[r]]
        /\ Become(p,
             IF me.kind = "statement" THEN Refresh(me, "idle")
             ELSE Fail(me, "finish"))
        /\ UNCHANGED <<ticketVars, tool, phase, pendingCancel, ctxDone, victims, sends, histVars>>

-----------------------------------------------------------------------------
(* Manual execution of one statement, natively or by an online DDL tool.   *)

\* The ticket is read and judged; later steps use this reading.
ExecuteStatement(p, r) ==
    /\ Serving /\ proc[p] = Idle
    /\ ticketType # "redis_command"
    /\ row[r] # "absent"
    /\ status \in Executable
    /\ ~isFullTicketExecutionRunMode(runMode) /\ dmlMode # "whole_ticket"
    /\ Become(p, Begin("es_row", "statement", r))
    /\ UNCHANGED <<ticketVars, rowVars, memVars, dbVars, histVars>>

RequirePendingRow(p) ==
    /\ Alive /\ proc[p].at = "es_row"
    /\ Become(p, IF row[proc[p].cur] = "pending" THEN At(proc[p], "es_claim")
                 ELSE Idle)
    /\ UNCHANGED <<ticketVars, rowVars, memVars, dbVars, histVars>>

\* OCC: the ticket is still executable and no whole-ticket run has taken it.
ClaimManualStatementExecution(p) ==
    /\ Alive /\ proc[p].at = "es_claim"
    /\ \/ /\ status \in Executable /\ runMode \in {"none", "manual_statement"}
          /\ status' = "executing"
          /\ runMode' = "manual_statement"
          /\ \E next \in {"mark"} \cup (IF ticketType = "ddl" THEN {"es_queue"} ELSE {}) :
               Become(p, At(proc[p], next))
       \/ /\ status \notin Executable \/ runMode \notin {"none", "manual_statement"}
          /\ Become(p, Idle)
          /\ UNCHANGED <<status, runMode>>
    /\ UNCHANGED <<dmlMode, scheduled, rowVars, memVars, dbVars, histVars>>

\* CreateQueued, one transaction: one run per statement ever, one active run per
\* connection, and the row must still be pending.  Every error takes the other branch.
QueueOnlineDDL(p) ==
    LET r == proc[p].cur
    IN  /\ Alive /\ proc[p].at = "es_queue"
        /\ \/ /\ tool[r] = "none" /\ \A s \in Rows : tool[s] \notin {"queued", "running"}
              /\ row[r] = "pending"
              /\ tool' = [tool EXCEPT ![r] = "queued"]
              /\ row' = [row EXCEPT ![r] = "running"]
              /\ Become(p, Idle)
           \/ /\ Become(p, At(proc[p], "es_fail"))
              /\ UNCHANGED <<row, tool>>
        /\ UNCHANGED <<ticketVars, outcome, memVars, dbVars, histVars>>

\* The statement whose run could not be queued is marked failed, not sent.
MarkQueueFailure(p) ==
    /\ Alive /\ proc[p].at = "es_fail"
    /\ row' = [row EXCEPT ![proc[p].cur] = "failed"]
    /\ outcome' = [outcome EXCEPT ![proc[p].cur] = "not_sent"]
    /\ Become(p, Refresh(proc[p], "idle"))
    /\ UNCHANGED <<ticketVars, tool, memVars, dbVars, histVars>>

\* The runner claims the queued run and starts the tool process.
LaunchTool(r) ==
    /\ Alive /\ tool[r] = "queued"
    /\ tool' = [tool EXCEPT ![r] = "running"]
    /\ sends' = [sends EXCEPT ![r] = @ + 1]
    /\ UNCHANGED <<ticketVars, row, outcome, memVars, proc, effect, histVars>>

\* The run ends: refused before the launch, or with the tool's verified outcome, which is
\* taken to be true (StatusHonest of OnlineDDL says when).  The run row is written first,
\* then HandleTerminal goes on with the statement.
FinishToolRun(p, r) ==
    /\ Alive /\ proc[p] = Idle /\ tool[r] \in {"queued", "running"}
    /\ tool' = [tool EXCEPT ![r] = "done"]
    /\ \E a \in {"completed", "failed"} :
         /\ tool[r] = "queued" => a = "failed"
         /\ \E e \in IF a = "completed" THEN {"applied"} ELSE {"applied", "failed"} :
              effect' = IF tool[r] = "queued" THEN effect ELSE [effect EXCEPT ![r] = e]
         /\ Become(p, Got(Begin("record", "tool", r), "record", a))
    /\ UNCHANGED <<ticketVars, row, outcome, memVars, sends, histVars>>

-----------------------------------------------------------------------------
(* Stopping.                                                               *)

\* The ticket is read; the permission to stop does not depend on its status.
Stop(p) ==
    /\ Serving /\ proc[p] = Idle /\ stops < MaxStops
    /\ Become(p, Got(Begin("stop", "request", 0), "stop", runMode))
    /\ stops' = stops + 1
    /\ UNCHANGED <<ticketVars, rowVars, memVars, dbVars, crashes, stopAck, lapsed>>

\* A whole-ticket run is failed unconditionally; a manual one is stopped only while
\* it is executing.
StopWrite(p) ==
    LET full == isFullTicketExecutionRunMode(proc[p].res)
        done == full \/ status = "executing"
    IN  /\ Alive /\ proc[p].at = "stop"
        /\ status' = IF full THEN "failed" ELSE IF done THEN "stopped" ELSE status
        /\ stopAck' = (stopAck \/ done)
        /\ Become(p, Idle)
        /\ UNCHANGED <<runMode, dmlMode, scheduled, rowVars, memVars, dbVars, crashes, stops,
                       lapsed>>

StopStatement(p, r) ==
    /\ Serving /\ proc[p] = Idle /\ stops < MaxStops
    /\ row[r] = "running"
    /\ Become(p, Begin("ss_cancel", "request", r))
    /\ stops' = stops + 1
    /\ UNCHANGED <<ticketVars, rowVars, memVars, dbVars, crashes, stopAck, lapsed>>

\* cancelAnyOrPending: a registered query is cancelled, and the request gives up if the
\* database-side kill fails; otherwise the cancel waits for the registration.
CancelAnyOrPending(p) ==
    LET r == proc[p].cur
    IN  /\ Alive /\ proc[p].at = "ss_cancel"
        /\ \/ /\ r \in active
              /\ active' = active \ {r}
              /\ ctxDone' = ctxDone \cup {r}
              /\ \/ Become(p, At(proc[p], "ss_mark"))
                 \/ ticketType # "redis_command" /\ Become(p, Idle)
              /\ UNCHANGED pendingCancel
           \/ /\ r \notin active
              /\ pendingCancel' = pendingCancel \cup {r}
              /\ Become(p, At(proc[p], "ss_mark"))
              /\ UNCHANGED <<active, ctxDone>>
        /\ UNCHANGED <<ticketVars, rowVars, phase, victims, dbVars, histVars>>

MarkExecutionStopped(p) ==
    /\ Alive /\ proc[p].at = "ss_mark"
    /\ row' = [row EXCEPT ![proc[p].cur] = "stopped"]
    /\ outcome' = [outcome EXCEPT ![proc[p].cur] = "manually_stopped"]
    /\ Become(p, Refresh(proc[p], "idle"))
    /\ UNCHANGED <<ticketVars, tool, memVars, dbVars, histVars>>

\* A pending cancel older than two minutes is dropped; a statement whose prior backup
\* takes longer than that registers afterwards.
PruneLocked(r) ==
    /\ Alive /\ r \in pendingCancel
    /\ pendingCancel' = pendingCancel \ {r}
    /\ lapsed' = lapsed \cup {r}
    /\ UNCHANGED <<ticketVars, rowVars, phase, active, ctxDone, victims, proc, dbVars,
                   crashes, stops, stopAck>>

-----------------------------------------------------------------------------
(* Process lifecycle.                                                      *)

\* SIGTERM: no new requests; every registered query is taken and cancelled.
BeginShutdown ==
    /\ Serving /\ GracefulShutdown /\ crashes < MaxCrashes
    /\ phase' = "draining"
    /\ victims' = active
    /\ ctxDone' = ctxDone \cup active
    /\ active' = {}
    /\ UNCHANGED <<ticketVars, rowVars, pendingCancel, proc, dbVars, histVars>>

\* The cancelled statement is marked interrupted and the ticket refreshed.
CancelActiveExecutionsForShutdown(p, r) ==
    /\ phase = "draining" /\ proc[p] = Idle /\ r \in victims
    /\ victims' = victims \ {r}
    /\ row' = [row EXCEPT ![r] = "failed"]
    /\ \E c \in {"service_shutdown", "outcome_unknown"} :
         outcome' = [outcome EXCEPT ![r] = c]
    /\ Become(p, Begin("refresh", "request", 0))
    /\ UNCHANGED <<ticketVars, tool, phase, active, pendingCancel, ctxDone, dbVars, histVars>>

\* The process dies: everything in memory is gone and the database rolls back the
\* open transaction.  What was sent and not yet answered may have taken effect.
ProcessExit ==
    /\ Alive /\ crashes < MaxCrashes
    /\ phase' = "down"
    /\ active' = {} /\ pendingCancel' = {} /\ ctxDone' = {} /\ victims' = {}
    /\ proc' = [p \in Procs |-> Idle]
    /\ \E lost \in {"applied", "failed"} :
         effect' = [r \in Rows |->
            LET inTx == \E p \in Procs : proc[p].at = "await" /\ proc[p].kind = "whole"
            IN  IF effect[r] = "tx" THEN "failed"
                ELSE IF sends[r] > 0 /\ effect[r] = "none"
                     THEN IF inTx THEN "failed" ELSE lost
                ELSE effect[r]]
    /\ crashes' = crashes + 1
    /\ UNCHANGED <<ticketVars, rowVars, sends, stops, stopAck, lapsed>>

\* Mutant: recovery settles the ticket and forgets its running rows.
RecoverTicketOnly ==
    /\ phase = "down" /\ phase' = "up"
    /\ status' = IF status = "executing" THEN "failed" ELSE status
    /\ UNCHANGED <<runMode, dmlMode, scheduled, row, outcome, tool, active, pendingCancel,
                   ctxDone, victims, proc, dbVars, histVars>>

\* Startup: RecoverExecutingTickets, in one transaction, for a ticket found executing;
\* then the tool runner interrupts the runs left active.
RecoverExecutingTickets ==
    /\ phase = "down"
    /\ phase' = "up"
    /\ IF status # "executing" THEN UNCHANGED <<status, row, outcome>>
       ELSE IF row = NoRows THEN status' = "failed" /\ UNCHANGED <<row, outcome>>
       ELSE /\ row' = [r \in Rows |-> IF row[r] = "running" THEN "failed" ELSE row[r]]
            /\ outcome' = [r \in Rows |-> IF row[r] = "running" THEN "outcome_unknown"
                                          ELSE outcome[r]]
            /\ status' = AggregateTicketStatusFromCounts(row', runMode)
    /\ tool' = [r \in Rows |-> IF tool[r] \in {"queued", "running"} THEN "done" ELSE tool[r]]
    /\ UNCHANGED <<runMode, dmlMode, scheduled, active, pendingCancel, ctxDone, victims,
                   proc, dbVars, histVars>>

-----------------------------------------------------------------------------
Runner(p) ==
    \/ PrepareRows(p) \/ FinishStartFailure(p) \/ ListExecutions(p) \/ NextStatement(p)
    \/ CommitTx(p) \/ FinishTicket(p)
    \/ MarkTicketExecuting(p) \/ MarkExecutionRunningIfPending(p) \/ OpenConnection(p)
    \/ RegisterQuery(p) \/ SendStatement(p) \/ ReceiveAnswer(p) \/ RereadExecution(p)
    \/ RecordExecution(p) \/ RefreshRead(p) \/ SetExecutionAggregateStatus(p)
    \/ RecoverTicketExecutionPanic(p)
    \/ RequirePendingRow(p) \/ ClaimManualStatementExecution(p) \/ QueueOnlineDDL(p)
    \/ MarkQueueFailure(p) \/ StopWrite(p) \/ CancelAnyOrPending(p) \/ MarkExecutionStopped(p)

Next ==
    /\ UNCHANGED ticketType
    /\ \/ \E p \in Procs :
            \/ Execute(p) \/ RunScheduler(p) \/ StartWorkflowAutoExecution(p)
            \/ Runner(p) \/ Stop(p)
            \/ \E r \in Rows :
                 \/ ExecuteStatement(p, r) \/ StopStatement(p, r)
                 \/ FinishToolRun(p, r) \/ CancelActiveExecutionsForShutdown(p, r)
       \/ \E r \in Rows : LaunchTool(r) \/ PruneLocked(r)
       \/ ScheduleExecution \/ RejectAtExecution \/ GetTicket
       \/ BeginShutdown \/ ProcessExit \/ RecoverExecutingTickets

Spec == Init /\ [][Next]_vars

\* Goroutines and requests are scheduled and their calls return, the container restarts
\* a dead server, and a tool run or a shutdown handler has a goroutine of its own: it
\* only borrows a member of Procs, hence strong fairness.
Fairness ==
    /\ \A p \in Procs : /\ WF_vars(UNCHANGED ticketType /\ Runner(p))
                         /\ WF_vars(UNCHANGED ticketType /\ StartWorkflowAutoExecution(p))
    /\ \A r \in Rows :
         /\ SF_vars(UNCHANGED ticketType /\ \E p \in Procs : FinishToolRun(p, r))
         /\ SF_vars(UNCHANGED ticketType
                      /\ \E p \in Procs : CancelActiveExecutionsForShutdown(p, r))
    /\ WF_vars(UNCHANGED ticketType /\ RecoverExecutingTickets)

LiveSpec == Spec /\ Fairness

-----------------------------------------------------------------------------
(* Properties.                                                             *)

TypeOK ==
    /\ ticketType \in TicketTypes
    /\ status \in TicketStatus /\ runMode \in RunMode /\ dmlMode \in DMLMode
    /\ scheduled \in BOOLEAN
    /\ row \in [Rows -> RowStatus]
    /\ outcome \in [Rows -> Outcome]
    /\ tool \in [Rows -> {"none", "queued", "running", "done"}]
    /\ phase \in {"up", "draining", "down"}
    /\ active \subseteq Rows /\ pendingCancel \subseteq Rows
    /\ ctxDone \subseteq Rows /\ victims \subseteq Rows
    /\ proc \in [Procs -> Proc]
    /\ sends \in [Rows -> Nat]
    /\ effect \in [Rows -> {"none", "tx", "applied", "failed"}]
    /\ crashes \in Nat /\ stops \in Nat /\ stopAck \in BOOLEAN /\ lapsed \subseteq Rows

\* No statement is sent to the target database twice, whatever mixture of whole-ticket
\* runs, manual requests, tool runs, stops, crashes and restarts touches its row.
AtMostOnceSend == \A r \in Rows : sends[r] <= 1

\* A statement reported as not sent was never sent.
NotSentIsTrue == \A r \in Rows : outcome[r] = "not_sent" => sends[r] = 0

\* A ticket reported completed has every statement applied in the target database, unless
\* its statements ran in one transaction, whose rows are written before the commit.
CompletedMeansApplied ==
    status = "completed" /\ dmlMode # "whole_ticket" => \A r \in Rows : effect[r] = "applied"

\* A whole-ticket DML run is one transaction: either every statement of the ticket has
\* taken effect or none has.
AllOrNothing ==
    dmlMode = "whole_ticket" /\ (\E r \in Rows : effect[r] = "applied")
      => \A r \in Rows : effect[r] = "applied"

\* A statement leaves for the database only while its row says running: a row that a
\* user stopped, or that shutdown or recovery failed, is not executed afterwards.  The
\* exception is a stop that came before the statement was registered and waited in the
\* registry for longer than the two minutes after which pruneLocked forgets it.
SendOnlyWhileRunning ==
    [][\A r \in Rows : sends'[r] # sends[r] => row[r] = "running" \/ r \in lapsed]_vars

\* A whole-ticket run sends a statement only after every earlier one took effect.
StopOnFirstFailure ==
    [][\A r \in Rows : sends'[r] # sends[r] /\ isFullTicketExecutionRunMode(runMode)
          => \A s \in 1..(r - 1) : effect[s] \in {"applied", "tx"}]_vars

\* A run that looks at its ticket after a Stop of that run has been acknowledged does
\* not begin another statement.
StopHaltsRun ==
    [][\A p \in Procs : stopAck /\ proc[p].at = "next"
          => proc'[p].at \notin {"mark", "claim"}]_vars

\* A statement that was claimed does not stay running for ever: the run records its
\* result, or recovery marks it after a crash (as long as no Stop interferes).
RunningRowSettles == \A r \in Rows : row[r] = "running" ~> row[r] # "running"
=============================================================================
