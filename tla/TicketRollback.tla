----------------------------- MODULE TicketRollback -----------------------------
(***************************************************************************)
(* Rollback SQL for the statements of one MySQL DML ticket: the runtime    *)
(* chosen before a statement runs (prior backup, my2sql or unsupported),   *)
(* the backup of the rows it is going to change, the statement itself, the *)
(* rollback record written afterwards, the asynchronous my2sql jobs with   *)
(* their two slots per ticket, and the rollback ticket a user creates.     *)
(*                                                                         *)
(* The target database is a bag of rows <<id, v, at>> per table and a      *)
(* binlog of row changes.  A statement works on the rows with an id in its *)
(* keys; it gives the assigned columns the values val (of v) and to (of    *)
(* id).  In some tables the server renews at whenever it updates the row.  *)
(***************************************************************************)
EXTENDS RollbackPlan, Bags, BagsExt

CONSTANTS
    Executions,     \* the statements of the ticket: their sequence numbers
    Tables,         \* physical tables <<database, name>>
    HasPrimaryKey,  \* those with a primary key (id)
    Stamped,        \* those whose column at is ON UPDATE CURRENT_TIMESTAMP
    Engines,        \* values of the engine setting a test of the system goes through
    OtherValue,     \* the value other sessions write
    MaxDisturbances \* bound on other sessions' writes, changes of the settings and crashes

ASSUME RollbackAssumption ==
    /\ Executions \subseteq Nat
    /\ HasPrimaryKey \subseteq Tables /\ Stamped \subseteq Tables
    /\ Engines \subseteq {"hybrid", "prior_backup", "my2sql"}
    /\ MaxDisturbances \in Nat

VARIABLES
    database,   \* the database selected for the ticket, "" when none
    stmt,       \* the statement of every execution
    settings,   \* mysql_rollback_enabled and mysql_rollback_engine
    tabs,       \* contents of the target's tables
    binlog,     \* the row changes of the target, in commit order
    ex,         \* the goroutine that runs an execution
    rec,        \* ticket_execution_rollbacks
    jobs,       \* the generation goroutine of an execution
    limiters,   \* every limiter made so far: its references and used slots
    current,    \* the limiter in the rollbackJobs map, 0 when there is none
    req,        \* the request that creates a rollback ticket
    tickets,    \* the rollback tickets created: the executions they undo, in order
    used        \* the disturbances so far

vars == <<database, stmt, settings, tabs, binlog, ex, rec, jobs, limiters, current, req,
          tickets, used>>
world == <<database, stmt>>

NoRecord == [status |-> "none", method |-> "", high |-> FALSE, sql |-> <<>>, ticket |-> 0]
NewRun == [pc |-> "pending", method |-> "", targets |-> <<>>, backups |-> <<>>, ready |-> FALSE,
           start |-> 0, affected |-> 0, own |-> <<>>, before |-> <<>>, after |-> <<>>,
           raced |-> FALSE]
NoJob == [pc |-> "none", limiter |-> 0, start |-> 0, end |-> 0]

---------------------------------------------------------------------------
(* The target database.                                                    *)

Physical(ref) == <<IF ref.schema = "" THEN database ELSE ref.schema, ref.table>>
Rows(p, keys) == {r \in DOMAIN tabs[p] : r[1] \in keys}
CopiesOf(p, k) == BagCardinality([r \in Rows(p, {k}) |-> tabs[p][r]])

\* What SELECT returns of reference i: joined rows come once per match on the other side.
Matches(s, i, k) ==
    FoldSet(LAMBDA j, n : n * CopiesOf(Physical(s.refs[j]), k), 1, DOMAIN s.refs \ {i})
Select(s, i, keys) ==
    LET p == Physical(s.refs[i])
        found == {r \in Rows(p, keys) : Matches(s, i, r[1]) > 0}
    IN  [r \in found |-> tabs[p][r] * Matches(s, i, r[1])]

\* The keys whose rows come first when ordered by v.
First(p, keys) == {r[1] : r \in {q \in Rows(p, keys) : \A o \in Rows(p, keys) : q[2] <= o[2]}}

\* The keys a statement works on: LIMIT 1 takes one of those present, in the order of the
\* statement; any one without an order, and any of those that the order leaves first.
Picks(s) ==
    LET present == {k \in s.keys : \A i \in DOMAIN s.refs : CopiesOf(Physical(s.refs[i]), k) > 0}
    IN  IF ~s.limit \/ present = {} THEN {s.keys}
        ELSE CASE s.order = "id" -> {{Min(present)}}
               [] s.order = "v" -> {{k} : k \in First(Physical(s.refs[1]), present)}
               [] OTHER -> {{k} : k \in present}

\* The columns of reference i a statement assigns and the references it changes, by the
\* server's rules for names; an unqualified column is one of the first table.
Assigned(s, i) ==
    {set.col : set \in {a \in ToSet(s.sets) :
        a.qual = Qualifier(s.refs[i]) \/ (a.qual = "" /\ i = 1)}}
Changes(s) ==
    {i \in DOMAIN s.refs :
        \/ s.kind = "update" /\ Assigned(s, i) # {}
        \/ s.kind = "delete" /\ IF s.multi THEN Qualifier(s.refs[i]) \in ToSet(s.names) ELSE i = 1
        \/ s.kind = "insert"}

\* The row changes a statement makes: one event per row, with the images before and after.
Written(p, r, id, v) == IF <<id, v>> = <<r[1], r[2]>> \/ p \notin Stamped THEN <<id, v, r[3]>>
                        ELSE <<id, v, r[3] + 1>>
NewRow(s, i, r) == Written(Physical(s.refs[i]), r,
                           IF "id" \in Assigned(s, i) THEN s.to ELSE r[1],
                           IF "v" \in Assigned(s, i) THEN s.val ELSE r[2])
Event(p, from, to) == [table |-> p, from |-> from, to |-> to]
Events(s, keys) ==
    LET of(i) == LET p == Physical(s.refs[i]) IN
          CASE s.kind = "insert" -> {Event(p, <<>>, <<k, s.val, 0>>) : k \in keys}
            [] s.kind = "delete" -> {Event(p, r, <<>>) : r \in DOMAIN Select(s, i, keys)}
            [] s.kind = "update" ->
                  {Event(p, r, NewRow(s, i, r)) :
                      r \in {q \in DOMAIN Select(s, i, keys) : NewRow(s, i, q) # q}}
    IN  SetToSeq(UNION {of(i) : i \in Changes(s)})

Image(r) == IF r = <<>> THEN EmptyBag ELSE SetToBag({r})
ApplyEvent(tab, event) == (tab (-) Image(event.from)) (+) Image(event.to)
RevertEvent(tab, event) == (tab (-) Image(event.to)) (+) Image(event.from)
OfTable(events, p) == SelectSeq(events, LAMBDA event : event.table = p)
After(events) == [p \in Tables |-> FoldLeft(ApplyEvent, tabs[p], OfTable(events, p))]
KeysUnique(tab) == \A q, r \in DOMAIN tab : tab[q] = 1 /\ (q[1] = r[1] => q = r)
Legal(contents) == \A p \in HasPrimaryKey : KeysUnique(contents[p])

\* What running rollback SQL does to table p.  The SQL of a prior backup inserts the saved
\* rows: after a DELETE as they are, after an UPDATE with ON DUPLICATE KEY UPDATE of the
\* assigned columns only.  The SQL of my2sql reverts one event per statement.
RestoreRow(p, columns, tab, row) ==
    LET old == {r \in DOMAIN tab : r[1] = row[1]} IN
    IF p \notin HasPrimaryKey \/ old = {} THEN tab (+) SetToBag({row})
    ELSE LET r == CHOOSE q \in old : TRUE
             restored == Written(p, r, r[1], IF "v" \in columns THEN row[2] ELSE r[2])
         IN  (tab (-) SetToBag({r})) (+) SetToBag({restored})
RestoreTarget(kind, p, columns, tab, backup) ==
    IF kind = "delete" THEN tab (+) backup
    ELSE FoldSet(LAMBDA row, acc : RestoreRow(p, columns, acc, row), tab, DOMAIN backup)
Undo(sql, p, tab) ==
    IF sql.method = "my2sql"
    THEN FoldLeft(RevertEvent, tab, OfTable(sql.events, p))
    ELSE FoldLeft(LAMBDA acc, t : IF t.table # p THEN acc
                                  ELSE RestoreTarget(sql.kind, p, t.columns, acc, t.rows),
                  tab, sql.targets)
UndoAll(sqls, p, tab) == FoldLeft(LAMBDA acc, sql : Undo(sql, p, acc), tab, sqls)

---------------------------------------------------------------------------
(* The repository: one record per execution, inserted or overwritten.      *)

MarkUnsupported(e) == [rec EXCEPT ![e] = [NoRecord EXCEPT !.status = "unsupported"]]
MarkGenerationFailed(e) == [rec EXCEPT ![e] = [NoRecord EXCEPT !.status = "failed"]]
MarkGenerating(e) ==
    [rec EXCEPT ![e] = [NoRecord EXCEPT !.status = "generating", !.method = "my2sql"]]
MarkGeneratedForExecution(e, generated) ==
    [rec EXCEPT ![e] = [generated EXCEPT !.status = "generated"]]
\* The two writes of a job update the record of its execution, whatever it says.
MarkGenerated(e, generated) ==
    [rec EXCEPT ![e].status = "generated", ![e].method = generated.method,
                ![e].high = generated.high, ![e].sql = generated.sql]
MarkFailed(e) == [rec EXCEPT ![e].status = "failed"]
MarkSubmittedIfGenerated(e, ticket) ==
    IF rec[e].status = "generated"
    THEN [rec EXCEPT ![e].status = "submitted", ![e].ticket = ticket] ELSE rec

---------------------------------------------------------------------------
(* Choosing the runtime, before the statement runs.                        *)

Unsupported == [method |-> "unsupported", targets |-> <<>>]
My2SQL == [method |-> "my2sql", targets |-> <<>>]

\* The end of the binlog (SHOW MASTER STATUS).
ReadBinlogPosition == Len(binlog)

\* reachable: the my2sql path and the rollback credential are configured, the connection
\* opens, the binlog variables are as needed and the position can be read.
PrepareMy2SQL(reachable) == IF reachable THEN My2SQL ELSE Unsupported

PrepareRuntime(s, reachable) ==
    LET plan == BuildPlan(s, database)
    IN  IF s.kind = "other" \/ ~settings.enabled THEN Unsupported
        ELSE IF settings.engine = "my2sql" THEN PrepareMy2SQL(reachable)
        ELSE IF s.kind = "insert"
             THEN IF settings.engine = "hybrid" THEN PrepareMy2SQL(reachable) ELSE Unsupported
        ELSE IF plan # Refused THEN [method |-> "prior_backup", targets |-> plan]
        ELSE IF settings.engine = "hybrid" THEN PrepareMy2SQL(reachable) ELSE Unsupported

\* runTicketStatementExecution: the row is claimed, the runtime chosen and, for my2sql, the
\* current end of the binlog noted.
Prepare(e) ==
    /\ ex[e].pc = "pending"
    /\ \E reachable \in BOOLEAN :
          LET runtime == PrepareRuntime(stmt[e], reachable) IN
          ex' = [ex EXCEPT ![e].pc = IF runtime.method = "prior_backup" THEN "backup" ELSE "send",
                           ![e].method = runtime.method, ![e].targets = runtime.targets,
                           ![e].start = ReadBinlogPosition]
    /\ UNCHANGED <<world, settings, tabs, binlog, rec, jobs, limiters, current, req, tickets, used>>

---------------------------------------------------------------------------
(* The statement, and the backup before it.                                *)

TargetTable(t) == <<IF t.schema = "" THEN database ELSE t.schema, t.table>>
TargetRef(s, t) == CHOOSE i \in DOMAIN s.refs :
                      s.refs[i].table = t.table /\ t.qualifier \in {s.refs[i].table, s.refs[i].alias}

\* An UPDATE is only backed up where its rows can be found again.
BackupRefuses(s, t) ==
    s.kind = "update" /\ (TargetTable(t) \notin HasPrimaryKey \/ "id" \in t.columns)

\* executeMySQLPriorBackup, one target: check the metadata, make the backup table anew, fill
\* it.  The backup table has the keys of the target's table, so a row that is selected twice
\* cannot be saved.  A failure is recorded and the statement runs all the same.
BackupTarget(e) ==
    LET s == stmt[e]
        t == ex[e].targets[Len(ex[e].backups) + 1]
        p == TargetTable(t)
        last == Len(ex[e].backups) + 1 = Len(ex[e].targets)
    IN  /\ ex[e].pc = "backup"
        /\ \E keys \in Picks(s), done \in BOOLEAN :
              LET rows == Select(s, TargetRef(s, t), keys)
                  ok == done /\ ~BackupRefuses(s, t) /\ (p \in HasPrimaryKey => KeysUnique(rows))
                  saved == [table |-> p, columns |-> t.columns, rows |-> rows]
              IN  IF ok
                  THEN /\ ex' = [ex EXCEPT ![e].backups = Append(@, saved), ![e].ready = last,
                                           ![e].pc = IF last THEN "send" ELSE "backup"]
                       /\ UNCHANGED rec
                  ELSE /\ ex' = [ex EXCEPT ![e].pc = "send"]
                       /\ rec' = MarkGenerationFailed(e)
        /\ UNCHANGED <<world, settings, tabs, binlog, jobs, limiters, current, req, tickets, used>>

\* Rows of another session, or of another statement, changed: the backups that are being
\* taken or are waiting for their statement may be out of date.
Raced(e) == [f \in Executions |->
                IF f # e /\ ex[f].backups # <<>> /\ ex[f].pc \in {"backup", "send"}
                THEN [ex[f] EXCEPT !.raced = TRUE] ELSE ex[f]]

\* The statement is sent: it fails, or changes its rows and they go to the binlog.  Nobody
\* resolves a name without a database, and a duplicate key is an error.
SendStatement(e) ==
    LET s == stmt[e]
        resolvable == \A i \in DOMAIN s.refs : Physical(s.refs[i]) \in Tables
    IN  /\ ex[e].pc = "send"
        /\ \/ /\ ex' = [ex EXCEPT ![e].pc = "over"]
              /\ UNCHANGED <<tabs, binlog>>
           \/ /\ resolvable
              /\ \E keys \in Picks(s) :
                    LET events == Events(s, keys) IN
                    /\ Legal(After(events))
                    /\ tabs' = After(events)
                    /\ binlog' = binlog \o events
                    /\ ex' = [(IF events = <<>> THEN ex ELSE Raced(e)) EXCEPT
                                ![e].pc = "settle", ![e].affected = Len(events),
                                ![e].own = events, ![e].before = tabs, ![e].after = After(events)]
        /\ UNCHANGED <<world, settings, rec, jobs, limiters, current, req, tickets, used>>

\* The row is read again: a statement that was stopped or declared failed meanwhile gets no
\* rollback; any other is marked done and finalized.
Settle(e) ==
    /\ ex[e].pc = "settle"
    /\ \E pc \in {"finalize", "over"} : ex' = [ex EXCEPT ![e].pc = pc]
    /\ UNCHANGED <<world, settings, tabs, binlog, rec, jobs, limiters, current, req, tickets, used>>

---------------------------------------------------------------------------
(* Recording the rollback, after the statement succeeded.                  *)

Generated(method, high, sql) ==
    [NoRecord EXCEPT !.method = method, !.high = high, !.sql = <<sql>>]
PriorBackupRollback(e) ==
    Generated("prior_backup", TRUE,
              [method |-> "prior_backup", kind |-> stmt[e].kind, targets |-> ex[e].backups])

\* finalizeMySQLRollback: settings and the end of the binlog are read again for my2sql.
Finalize(e) ==
    /\ ex[e].pc = "finalize"
    /\ ex' = [ex EXCEPT ![e].pc = "over"]
    /\ \/ /\ ex[e].method = "unsupported"
          /\ rec' = MarkUnsupported(e)
          /\ UNCHANGED jobs
       \/ /\ ex[e].method = "prior_backup"
          /\ rec' = IF ex[e].ready
                    THEN MarkGeneratedForExecution(e, PriorBackupRollback(e)) ELSE rec
          /\ UNCHANGED jobs
       \/ /\ ex[e].method = "my2sql"
          /\ \E reachable \in BOOLEAN :
                IF reachable /\ settings.enabled
                THEN /\ rec' = MarkGenerating(e)
                     /\ jobs' = [jobs EXCEPT ![e] = [NoJob EXCEPT !.pc = "spawned",
                                                                  !.start = ex[e].start,
                                                                  !.end = ReadBinlogPosition]]
                ELSE /\ rec' = MarkGenerationFailed(e)
                     /\ UNCHANGED jobs
    /\ UNCHANGED <<world, settings, tabs, binlog, limiters, current, req, tickets, used>>

---------------------------------------------------------------------------
(* The generation jobs: at most two at a time for the ticket.              *)

\* acquireTicketRollbackJobSlot, under the mutex: find or make the limiter and count a
\* reference to it.
EnterLimiter(e) ==
    /\ jobs[e].pc = "spawned"
    /\ IF current = 0
       THEN /\ limiters' = Append(limiters, [refs |-> 1, slots |-> 0])
            /\ current' = Len(limiters) + 1
       ELSE /\ limiters' = [limiters EXCEPT ![current].refs = @ + 1]
            /\ UNCHANGED current
    /\ jobs' = [jobs EXCEPT ![e].pc = "waiting", ![e].limiter = current']
    /\ UNCHANGED <<world, settings, tabs, binlog, ex, rec, req, tickets, used>>

\* ... and outside it: wait for one of the two slots.
TakeSlot(e) ==
    /\ jobs[e].pc = "waiting"
    /\ limiters[jobs[e].limiter].slots < 2
    /\ limiters' = [limiters EXCEPT ![jobs[e].limiter].slots = @ + 1]
    /\ jobs' = [jobs EXCEPT ![e].pc = "running"]
    /\ UNCHANGED <<world, settings, tabs, binlog, ex, rec, current, req, tickets, used>>

\* my2sql reads the events of the range in the ticket's database, or in all of them when the
\* ticket has none, and writes files whose statements are put together last change first.
InRange(job) ==
    SelectSeq(SubSeq(binlog, job.start + 1, job.end),
              LAMBDA event : database \in {"", event.table[1]})
CollectOutput(job) == Reverse(InRange(job))

\* runMy2SQLRollback: the rollback is trusted when it has as many statements as the original
\* statement changed rows.
Trusted(e, events) == events # <<>> /\ Len(events) = ex[e].affected
My2SQLRollback(e) ==
    LET events == CollectOutput(jobs[e])
    IN  Generated("my2sql", Trusted(e, events), [method |-> "my2sql", events |-> events])

\* The job runs my2sql and saves its result by execution id.  my2sql may fail, time out or
\* write too much, finding nothing is an error too, and so may the save.
RunJob(e) ==
    /\ jobs[e].pc = "running"
    /\ jobs' = [jobs EXCEPT ![e].pc = "releasing"]
    /\ \/ CollectOutput(jobs[e]) # <<>> /\ rec' = MarkGenerated(e, My2SQLRollback(e))
       \/ rec' = MarkFailed(e)
       \/ UNCHANGED rec
    /\ UNCHANGED <<world, settings, tabs, binlog, ex, limiters, current, req, tickets, used>>

ReleaseSlot(e) ==
    /\ jobs[e].pc = "releasing"
    /\ limiters' = [limiters EXCEPT ![jobs[e].limiter].slots = @ - 1]
    /\ jobs' = [jobs EXCEPT ![e].pc = "leaving"]
    /\ UNCHANGED <<world, settings, tabs, binlog, ex, rec, current, req, tickets, used>>

\* Under the mutex again: the limiter goes with its last reference.
\* Without counting those that wait for a slot.
DiscardsUnused(limiter) == limiter.slots = 0
Discards(limiter) == limiter.refs = 0 /\ limiter.slots = 0
LeaveLimiter(e) ==
    LET left == [limiters[jobs[e].limiter] EXCEPT !.refs = @ - 1] IN
    /\ jobs[e].pc = "leaving"
    /\ limiters' = [limiters EXCEPT ![jobs[e].limiter] = left]
    /\ current' = IF Discards(left) THEN 0 ELSE current
    /\ jobs' = [jobs EXCEPT ![e] = NoJob]
    /\ UNCHANGED <<world, settings, tabs, binlog, ex, rec, req, tickets, used>>

---------------------------------------------------------------------------
(* The rollback ticket.                                                    *)

NoRequest == [pc |-> "idle", selected |-> <<>>, sqls |-> <<>>, marked |-> 0]

\* The records the preview shows.
Offered == {e \in Executions : rec[e].status = "generated"}

\* createRollbackTicket lists the records and keeps the SQL of the selected ones, which must
\* all be generated, in the order of the original statements.
SelectRollbacks(S) ==
    /\ req.pc = "idle"
    /\ S # {}
    /\ S \subseteq Offered
    /\ LET inOrder == SetToSortSeq(S, <) IN
       req' = [NoRequest EXCEPT !.pc = "create", !.selected = inOrder,
                                !.sqls = [i \in DOMAIN inOrder |-> rec[inOrder[i]].sql[1]]]
    /\ UNCHANGED <<world, settings, tabs, binlog, ex, rec, jobs, limiters, current, tickets, used>>

CreateTicket ==
    /\ req.pc = "create"
    /\ tickets' = Append(tickets, [of |-> req.selected, sqls |-> req.sqls])
    /\ req' = [req EXCEPT !.pc = "mark"]
    /\ UNCHANGED <<world, settings, tabs, binlog, ex, rec, jobs, limiters, current, used>>

\* MarkSubmitted, one record at a time, only where the record is still generated.
MarkSubmitted ==
    LET e == req.selected[req.marked + 1] IN
    /\ req.pc = "mark"
    /\ rec' = MarkSubmittedIfGenerated(e, Len(tickets))
    /\ req' = IF req.marked + 1 = Len(req.selected) THEN NoRequest
              ELSE [req EXCEPT !.marked = @ + 1]
    /\ UNCHANGED <<world, settings, tabs, binlog, ex, jobs, limiters, current, tickets, used>>

---------------------------------------------------------------------------
(* What happens around it.                                                 *)

PatchSettings(enabled, engine) ==
    /\ used < MaxDisturbances
    /\ used' = used + 1
    /\ settings' = [enabled |-> enabled, engine |-> engine]
    /\ settings' # settings
    /\ UNCHANGED <<world, tabs, binlog, ex, rec, jobs, limiters, current, req, tickets>>

\* Another session updates or deletes a row of the target.
OtherWrite(p, r) ==
    /\ used < MaxDisturbances
    /\ used' = used + 1
    /\ \E to \in {<<>>, Written(p, r, r[1], OtherValue)} :
          /\ tabs' = After(<<Event(p, r, to)>>)
          /\ binlog' = Append(binlog, Event(p, r, to))
    /\ ex' = Raced(0)
    /\ UNCHANGED <<world, settings, rec, jobs, limiters, current, req, tickets>>

\* The server dies and restarts: goroutines, limiters and the request are gone, the records
\* stay as they are.
Crash ==
    /\ used < MaxDisturbances
    /\ used' = used + 1
    /\ ex' = [e \in Executions |-> IF ex[e].pc = "pending" THEN ex[e] ELSE [ex[e] EXCEPT !.pc = "over"]]
    /\ jobs' = [e \in Executions |-> NoJob]
    /\ limiters' = <<>>
    /\ current' = 0
    /\ req' = NoRequest
    /\ UNCHANGED <<world, settings, tabs, binlog, rec, tickets>>

Init ==
    /\ limiters = <<>>
    /\ current = 0
    /\ req = NoRequest
    /\ tickets = <<>>

Next ==
    \/ \E e \in Executions :
          \/ Prepare(e) \/ BackupTarget(e) \/ SendStatement(e) \/ Settle(e) \/ Finalize(e)
          \/ EnterLimiter(e) \/ TakeSlot(e) \/ RunJob(e) \/ ReleaseSlot(e) \/ LeaveLimiter(e)
    \/ \E S \in SUBSET Executions : SelectRollbacks(S)
    \/ CreateTicket
    \/ MarkSubmitted
    \/ \E enabled \in BOOLEAN, engine \in Engines : PatchSettings(enabled, engine)
    \/ \E p \in Tables : \E r \in DOMAIN tabs[p] : OtherWrite(p, r)
    \/ Crash

Spec == Init /\ [][Next]_vars

---------------------------------------------------------------------------
(* Properties.                                                             *)

\* Never more than two generation jobs of the ticket run my2sql at a time, although the
\* limiter that counts them is dropped from the map and made again while jobs come and go
\* (acquireTicketRollbackJobSlot).
AtMostTwoJobs == Cardinality({e \in Executions : jobs[e].pc \in {"running", "releasing"}}) <= 2

\* Rows may tie in the order by which the statement picks its LIMIT rows.
Ties(s) == s.limit /\ s.order = "v"

\* The statements whose rollback the code can vouch for: high confidence; nothing written
\* between the backup and the statement; for my2sql, no table outside the ticket's database;
\* joined rows that cannot be selected twice; and for a backup of LIMIT rows, an ORDER BY in
\* which no two rows tie (the planner asks only that there is one).
Vouched(e) ==
    LET s == stmt[e]
        changed == {Physical(s.refs[i]) : i \in Changes(s)}
    IN  /\ rec[e].high
        /\ ~ex[e].raced
        /\ rec[e].method = "my2sql" => \A p \in changed : database \in {"", p[1]}
        /\ HasJoin(s.refs) => changed \subseteq HasPrimaryKey
        /\ rec[e].method = "prior_backup" => ~Ties(s)
About(sql) ==
    IF sql.method = "my2sql" THEN {event.table : event \in ToSet(sql.events)}
    ELSE {t.table : t \in ToSet(sql.targets)}

\* What the rollback of e restores of a table: all of it, but the SQL of an UPDATE's prior
\* backup assigns the statement's columns only, and the server then renews a stamp again.
Restored(e, p, tab) ==
    IF rec[e].method = "prior_backup" /\ stmt[e].kind = "update" /\ p \in Stamped
    THEN {<<r[1], r[2]>> : r \in DOMAIN tab} ELSE tab

\* A rollback ticket undoes what it says: run on a table as a vouched-for statement left it,
\* it gives back the contents from before that statement, whatever the statement's shape, the
\* engine, other sessions' writes, changes of the settings and crashes on the way, unless
\* another statement selected for the same ticket is about the same table.  After the prior
\* backup of an UPDATE an automatic timestamp is not among the contents given back.
RollbackUndoes ==
    \A t \in ToSet(tickets) : \A i \in DOMAIN t.of : \A p \in Tables :
        LET e == t.of[i] IN
        Vouched(e) /\ (\A j \in DOMAIN t.of : j # i => p \notin About(t.sqls[j]))
            => Restored(e, p, UndoAll(t.sqls, p, ex[e].after[p])) = Restored(e, p, ex[e].before[p])
=============================================================================
