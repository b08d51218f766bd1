------------------------- MODULE TicketSendProofs -------------------------
(***************************************************************************)
(* No statement of a ticket is sent to the target database twice, and one  *)
(* of a DML or Redis ticket that is reported as not sent was not sent:     *)
(* proved for every number of statements and of processes, and for any     *)
(* number of stops, crashes and restarts.                                  *)
(***************************************************************************)
EXTENDS TicketExecutionProofs

Claimed == {"open", "register", "send"}

\* A process holds statement r when it has claimed the row and not yet sent it.
Holds(m, r) ==
    /\ m.cur = r
    /\ m.at \in Claimed \/ (m.at \in {"refresh", "aggregate"} /\ m.ret \in Claimed)

\* A process denies statement r when it is about to record that r was not sent.
Denies(m, r) == m.cur = r /\ m.at \in {"settle", "record"} /\ m.res = "not_sent"

\* A request that queues a tool run, or has failed to.
Queues(m) == m.at \in {"es_queue", "es_fail"}

\* The record m holds nothing that the record old did not hold, denies nothing but what the
\* old one denied or has given up, and only a DDL ticket gets as far as the queue of tools.
Keeps(m, old) ==
    /\ \A r \in Rows : Holds(m, r) => Holds(old, r)
    /\ \A r \in Rows : Denies(m, r) => Denies(old, r) \/ (Holds(old, r) /\ ~Holds(m, r))
    /\ Queues(m) => Queues(old) \/ ticketType = "ddl"

Unclaimed(rw, r) == rw[r] \in {"absent", "pending"}

\* The inductive invariant: an unclaimed row, a queued tool run and a process holding the
\* statement exclude each other, and while there is one of them nothing was sent.
SendInv ==
    /\ \A r \in Rows : sends[r] \in {0, 1}
    /\ \A r \in Rows : Unclaimed(row, r) =>
         sends[r] = 0 /\ tool[r] # "queued" /\ \A p \in Procs : ~Holds(proc[p], r)
    /\ \A r \in Rows : tool[r] = "queued" =>
         sends[r] = 0 /\ \A p \in Procs : ~Holds(proc[p], r)
    /\ \A r \in Rows, p \in Procs : Holds(proc[p], r) =>
         sends[r] = 0 /\ \A q \in Procs : Holds(proc[q], r) => q = p

\* Nobody has sent the statement, holds it or can claim it any more.
Untouched(r) ==
    sends[r] = 0 /\ ~Unclaimed(row, r) /\ \A q \in Procs : ~Holds(proc[q], r)

\* Its companion for the outcome columns.  A DDL ticket is left out: a request that fails to
\* queue a tool run writes not_sent over the row without having claimed it.
DenyInv == ticketType # "ddl" =>
    /\ \A p \in Procs : ~Queues(proc[p])
    /\ \A r \in Rows : tool[r] # "queued"
    /\ \A r \in Rows : outcome[r] = "not_sent" => Untouched(r)
    /\ \A r \in Rows, p \in Procs : Denies(proc[p], r) => Untouched(r)

\* The two together.
SafeInv == SendInv /\ DenyInv

-----------------------------------------------------------------------------
\* A process that goes on without holding anything new, sends nothing and leaves no row
\* unclaimed that was claimed keeps the invariant.
LEMMA QuietStep ==
  ASSUME SendInv, DenyInv, TypeInv, ticketType' = ticketType,
         NEW p \in Procs, NEW m, Become(p, m),
         Keeps(m, proc[p]),
         sends' = sends,
         \A r \in Rows : tool'[r] = "queued" => tool[r] = "queued",
         \A r \in Rows : Unclaimed(row', r) => Unclaimed(row, r),
         ticketType # "ddl" => \A r \in Rows :
            outcome'[r] = "not_sent" => outcome[r] = "not_sent" \/ Denies(proc[p], r)
  PROVE  SafeInv'
<1>0. proc'[p] = m /\ \A q \in Procs \ {p} : proc'[q] = proc[q]
  BY DEF Become, TypeInv, TypeOK
<1>1. \A q \in Procs, r \in Rows : Holds(proc'[q], r) => Holds(proc[q], r)
  BY <1>0, Zenon DEF Keeps
<1>2. SendInv'
  BY <1>1 DEF SendInv
<1>3. ASSUME ticketType # "ddl" PROVE DenyInv'
  <2>1. \A q \in Procs : ~Queues(proc'[q])
    BY <1>0, <1>3, Zenon DEF Keeps, DenyInv
  <2>2. ASSUME NEW r \in Rows, Untouched(r) PROVE Untouched(r)'
    BY <1>1, <2>2, Zenon DEF Untouched
  <2>3. \A r \in Rows : outcome'[r] = "not_sent" => Untouched(r)'
    BY <1>3, <2>2, Zenon DEF DenyInv
  <2>4. ASSUME NEW r \in Rows, Holds(proc[p], r), ~Holds(m, r) PROVE Untouched(r)'
    <3>1. sends[r] = 0 /\ \A q \in Procs : Holds(proc[q], r) => q = p
      BY <2>4, Zenon DEF SendInv
    <3>2. ~Unclaimed(row, r)
      BY <2>4, Zenon DEF SendInv
    <3> QED
      BY <1>0, <1>1, <2>4, <3>1, <3>2, Zenon DEF Untouched
  <2>5. \A r \in Rows, q \in Procs : Denies(proc'[q], r) => Untouched(r)'
    BY <1>0, <1>3, <2>2, <2>4, Zenon DEF Keeps, DenyInv
  <2> QED
    BY <1>3, <2>1, <2>3, <2>5, Zenon DEF DenyInv
<1> QED
  BY <1>2, <1>3, Zenon DEF SafeInv, DenyInv

\* An idle process holds nothing.
LEMMA IdleHolds == \A r \in Rows : ~Holds(Idle, r)
BY DEF Holds, Idle, Claimed

\* It denies nothing either, nor is it on its way to the queue.
LEMMA IdleKeeps == \A old : Keeps(Idle, old)
BY IdleHolds DEF Keeps, Denies, Queues, Idle

\* A statement is claimed, sent or refused at the step the process record names.
LEMMA HoldsAt ==
  ASSUME NEW m, m.at \notin Claimed \cup {"refresh", "aggregate"}
  PROVE  \A r \in Rows : ~Holds(m, r)
BY Zenon DEF Holds

\* The invariant is inductive.
LEMMA SendStep == TypeInv /\ SafeInv /\ [Next]_vars => SafeInv'
<1> SUFFICES ASSUME TypeInv, SendInv, DenyInv, [Next]_vars PROVE SafeInv'
  BY DEF SafeInv
<1>z. ticketType' = ticketType
  BY DEF Next, vars
<1> USE ExecutionAssumption
<1>0. \A p \in Procs : proc[p] \in Proc /\ WellFormed(proc[p])
  BY DEF TypeInv, TypeOK
<1>1. ASSUME NEW p \in Procs, Execute(p) PROVE SafeInv'
  <2>1. Become(p, Begin("prepare", RunnerKind(dmlMode'), 0))
    BY <1>1 DEF Execute, StartExecution
  <2>2. Keeps(Begin("prepare", RunnerKind(dmlMode'), 0), proc[p])
    BY DEF Keeps, Holds, Denies, Queues, Claimed, Begin, Idle
  <2>3. /\ sends' = sends
        /\ \A s \in Rows : tool'[s] = "queued" => tool[s] = "queued"
        /\ \A s \in Rows : Unclaimed(row', s) => Unclaimed(row, s)
        /\ ticketType # "ddl" => \A s \in Rows :
              outcome'[s] = "not_sent" => outcome[s] = "not_sent" \/ Denies(proc[p], s)
    BY <1>1 DEF Execute, StartExecution, Unclaimed, TypeInv, TypeOK, ticketVars,
       rowVars, memVars, dbVars, histVars
  <2> QED
    BY <2>1, <2>2, <2>3, <1>z, QuietStep, Zenon
<1>2. ASSUME NEW p \in Procs, RunScheduler(p) PROVE SafeInv'
  <2>1. Become(p, Begin("prepare", RunnerKind(dmlMode'), 0))
    BY <1>2 DEF RunScheduler, StartExecution
  <2>2. Keeps(Begin("prepare", RunnerKind(dmlMode'), 0), proc[p])
    BY DEF Keeps, Holds, Denies, Queues, Claimed, Begin, Idle
  <2>3. /\ sends' = sends
        /\ \A s \in Rows : tool'[s] = "queued" => tool[s] = "queued"
        /\ \A s \in Rows : Unclaimed(row', s) => Unclaimed(row, s)
        /\ ticketType # "ddl" => \A s \in Rows :
              outcome'[s] = "not_sent" => outcome[s] = "not_sent" \/ Denies(proc[p], s)
    BY <1>2 DEF RunScheduler, StartExecution, Unclaimed, TypeInv, TypeOK, ticketVars,
       rowVars, memVars, dbVars, histVars
  <2> QED
    BY <2>1, <2>2, <2>3, <1>z, QuietStep, Zenon
<1>3. ASSUME NEW p \in Procs, StartWorkflowAutoExecution(p) PROVE SafeInv'
  <2>1. \/ Become(p, Begin("prepare", RunnerKind(dmlMode'), 0))
        \/ Become(p, Idle)
    BY <1>3 DEF StartWorkflowAutoExecution, StartExecution
  <2>2. Keeps(Begin("prepare", RunnerKind(dmlMode'), 0), proc[p])
    BY DEF Keeps, Holds, Denies, Queues, Claimed, Begin, Idle
  <2>3. /\ sends' = sends
        /\ \A s \in Rows : tool'[s] = "queued" => tool[s] = "queued"
        /\ \A s \in Rows : Unclaimed(row', s) => Unclaimed(row, s)
        /\ ticketType # "ddl" => \A s \in Rows :
              outcome'[s] = "not_sent" => outcome[s] = "not_sent" \/ Denies(proc[p], s)
    BY <1>3 DEF StartWorkflowAutoExecution, StartExecution, Unclaimed, TypeInv, TypeOK,
       ticketVars, rowVars, memVars, dbVars, histVars
  <2> QED
    BY <2>1, <2>2, IdleKeeps, <2>3, <1>z, QuietStep, Zenon
<1>4. ASSUME NEW p \in Procs, PrepareRows(p) PROVE SafeInv'
  <2> DEFINE me == proc[p]
  <2>0. me \in Proc /\ me.at = "prepare"
    BY <1>4, <1>0 DEF PrepareRows
  <2>1. Become(p, At(me, "list"))
    BY <1>4 DEF PrepareRows
  <2>2. Keeps(At(me, "list"), me)
    BY <2>0 DEF Keeps, Holds, Denies, Queues, Claimed, At, Proc
  <2>3. /\ sends' = sends
        /\ \A s \in Rows : tool'[s] = "queued" => tool[s] = "queued"
        /\ \A s \in Rows : Unclaimed(row', s) => Unclaimed(row, s)
        /\ ticketType # "ddl" => \A s \in Rows :
              outcome'[s] = "not_sent" => outcome[s] = "not_sent" \/ Denies(proc[p], s)
    BY <1>4, <2>0 DEF PrepareRows, EnsureExecutions, NoRows, Unclaimed, TypeInv, TypeOK,
       ticketVars, rowVars, memVars, dbVars, histVars
  <2> QED
    BY <2>1, <2>2, <2>3, <1>z, QuietStep, Zenon
<1>5. ASSUME NEW p \in Procs, FinishStartFailure(p) PROVE SafeInv'
  <2>1. Become(p, Idle)
    BY <1>5 DEF FinishStartFailure
  <2>3. /\ sends' = sends
        /\ \A s \in Rows : tool'[s] = "queued" => tool[s] = "queued"
        /\ \A s \in Rows : Unclaimed(row', s) => Unclaimed(row, s)
        /\ ticketType # "ddl" => \A s \in Rows :
              outcome'[s] = "not_sent" => outcome[s] = "not_sent" \/ Denies(proc[p], s)
    BY <1>5 DEF FinishStartFailure, Unclaimed, TypeInv, TypeOK, ticketVars, rowVars,
       memVars, dbVars, histVars
  <2> QED
    BY <2>1, IdleKeeps, <2>3, <1>z, QuietStep, Zenon
<1>6. ASSUME NEW p \in Procs, ListExecutions(p) PROVE SafeInv'
  <2> DEFINE me == proc[p]
  <2>0. me \in Proc /\ me.at = "list"
    BY <1>6, <1>0 DEF ListExecutions
  <2>1. Become(p, [me EXCEPT !.at = "next", !.snap = row, !.cur = 1, !.final = "completed"])
    BY <1>6 DEF ListExecutions
  <2>2. Keeps([me EXCEPT !.at = "next", !.snap = row, !.cur = 1, !.final = "completed"], me)
    BY <2>0 DEF Keeps, Holds, Denies, Queues, Claimed, Proc
  <2>3. /\ sends' = sends
        /\ \A s \in Rows : tool'[s] = "queued" => tool[s] = "queued"
        /\ \A s \in Rows : Unclaimed(row', s) => Unclaimed(row, s)
        /\ ticketType # "ddl" => \A s \in Rows :
              outcome'[s] = "not_sent" => outcome[s] = "not_sent" \/ Denies(proc[p], s)
    BY <1>6, <2>0 DEF ListExecutions, Unclaimed, TypeInv, TypeOK, ticketVars, rowVars,
       memVars, dbVars, histVars
  <2> QED
    BY <2>1, <2>2, <2>3, <1>z, QuietStep, Zenon
<1>7. ASSUME NEW p \in Procs, NextStatement(p) PROVE SafeInv'
  <2> DEFINE me == proc[p]
  <2>0. me \in Proc /\ me.at = "next"
    BY <1>7, <1>0 DEF NextStatement
  <2>1. \/ Become(p, At(me, HaltAt(me.kind)))
        \/ Become(p, Fail(me, HaltAt(me.kind)))
        \/ Become(p, Advance(me))
        \/ Become(p, Fail(me, "commit"))
        \/ Become(p, Idle)
        \/ Become(p, At(me, "mark"))
        \/ Become(p, At(me, "claim"))
    BY <1>7 DEF NextStatement
  <2>2. /\ Keeps(At(me, HaltAt(me.kind)), me)
        /\ Keeps(Fail(me, HaltAt(me.kind)), me)
        /\ Keeps(Advance(me), me)
        /\ Keeps(Fail(me, "commit"), me)
        /\ Keeps(At(me, "mark"), me)
        /\ Keeps(At(me, "claim"), me)
    BY <2>0, Zenon DEF Keeps, Holds, Denies, Queues, Claimed, At, Fail, Advance, HaltAt, Proc
  <2>3. /\ sends' = sends
        /\ \A s \in Rows : tool'[s] = "queued" => tool[s] = "queued"
        /\ \A s \in Rows : Unclaimed(row', s) => Unclaimed(row, s)
        /\ ticketType # "ddl" => \A s \in Rows :
              outcome'[s] = "not_sent" => outcome[s] = "not_sent" \/ Denies(proc[p], s)
    BY <1>7, <2>0 DEF NextStatement, Unclaimed, TypeInv, TypeOK, ticketVars, rowVars,
       memVars, dbVars, histVars
  <2> QED
    BY <2>1, <2>2, IdleKeeps, <2>3, <1>z, QuietStep, Zenon
<1>8. ASSUME NEW p \in Procs, CommitTx(p) PROVE SafeInv'
  <2> DEFINE me == proc[p]
  <2>0. me \in Proc /\ me.at = "commit"
    BY <1>8, <1>0 DEF CommitTx
  <2>1. \/ Become(p, At(me, "finish"))
        \/ Become(p, Fail(me, "finish"))
    BY <1>8 DEF CommitTx
  <2>2. /\ Keeps(At(me, "finish"), me)
        /\ Keeps(Fail(me, "finish"), me)
    BY <2>0, Zenon DEF Keeps, Holds, Denies, Queues, Claimed, At, Fail, Proc
  <2>3. /\ sends' = sends
        /\ \A s \in Rows : tool'[s] = "queued" => tool[s] = "queued"
        /\ \A s \in Rows : Unclaimed(row', s) => Unclaimed(row, s)
        /\ ticketType # "ddl" => \A s \in Rows :
              outcome'[s] = "not_sent" => outcome[s] = "not_sent" \/ Denies(proc[p], s)
    BY <1>8, <2>0 DEF CommitTx, Unclaimed, TypeInv, TypeOK, ticketVars, rowVars,
       memVars, dbVars, histVars
  <2> QED
    BY <2>1, <2>2, <2>3, <1>z, QuietStep, Zenon
<1>9. ASSUME NEW p \in Procs, FinishTicket(p) PROVE SafeInv'
  <2>1. Become(p, Idle)
    BY <1>9 DEF FinishTicket
  <2>3. /\ sends' = sends
        /\ \A s \in Rows : tool'[s] = "queued" => tool[s] = "queued"
        /\ \A s \in Rows : Unclaimed(row', s) => Unclaimed(row, s)
        /\ ticketType # "ddl" => \A s \in Rows :
              outcome'[s] = "not_sent" => outcome[s] = "not_sent" \/ Denies(proc[p], s)
    BY <1>9 DEF FinishTicket, Unclaimed, TypeInv, TypeOK, ticketVars, rowVars, memVars,
       dbVars, histVars
  <2> QED
    BY <2>1, IdleKeeps, <2>3, <1>z, QuietStep, Zenon
<1>10. ASSUME NEW p \in Procs, MarkTicketExecuting(p) PROVE SafeInv'
  <2> DEFINE me == proc[p]
  <2>0. me \in Proc /\ me.at = "mark"
    BY <1>10, <1>0 DEF MarkTicketExecuting
  <2>1. Become(p, At(me, "claim"))
    BY <1>10 DEF MarkTicketExecuting
  <2>2. Keeps(At(me, "claim"), me)
    BY <2>0 DEF Keeps, Holds, Denies, Queues, Claimed, At, Proc
  <2>3. /\ sends' = sends
        /\ \A s \in Rows : tool'[s] = "queued" => tool[s] = "queued"
        /\ \A s \in Rows : Unclaimed(row', s) => Unclaimed(row, s)
        /\ ticketType # "ddl" => \A s \in Rows :
              outcome'[s] = "not_sent" => outcome[s] = "not_sent" \/ Denies(proc[p], s)
    BY <1>10, <2>0 DEF MarkTicketExecuting, Unclaimed, TypeInv, TypeOK, ticketVars,
       rowVars, memVars, dbVars, histVars
  <2> QED
    BY <2>1, <2>2, <2>3, <1>z, QuietStep, Zenon
<1>11. ASSUME NEW p \in Procs, MarkExecutionRunningIfPending(p) PROVE SafeInv'
  <2> DEFINE me == proc[p]
  <2>0. me \in Proc /\ WellFormed(me) /\ me.at = "claim" /\ me.cur \in Rows
    BY <1>11, <1>0 DEF MarkExecutionRunningIfPending, WellFormed, RowSteps
  <2>1. CASE row[me.cur] = "pending"
    <3>1. Become(p, Refresh(me, "open")) \/ Become(p, At(me, "open"))
      BY <1>11, <2>1 DEF MarkExecutionRunningIfPending
    <3>6. Refresh(me, "open").cur = me.cur /\ At(me, "open").cur = me.cur
      BY <2>0, Zenon DEF At, Refresh, Proc
    <3>2. row' = [row EXCEPT ![me.cur] = "running"] /\ tool' = tool /\ sends' = sends
      BY <1>11, <2>1 DEF MarkExecutionRunningIfPending, dbVars
    <3>3. \A q \in Procs, r \in Rows :
            Holds(proc'[q], r) => Holds(proc[q], r) \/ (q = p /\ r = me.cur)
      BY <3>1, <3>6, Zenon DEF Become, Holds, TypeInv, TypeOK
    <3>4. /\ sends[me.cur] = 0 /\ tool[me.cur] # "queued"
          /\ \A q \in Procs : ~Holds(proc[q], me.cur)
      BY <2>0, <2>1 DEF SendInv, Unclaimed
    <3>5. \A r \in Rows : Unclaimed(row', r) => Unclaimed(row, r) /\ r # me.cur
      BY <2>0, <3>2, Zenon DEF Unclaimed, TypeInv, TypeOK
    <3>7. \A r \in Rows : Unclaimed(row', r) =>
            sends'[r] = 0 /\ tool'[r] # "queued" /\ \A q \in Procs : ~Holds(proc'[q], r)
      BY <3>2, <3>3, <3>5, Zenon DEF SendInv
    <3>8. \A r \in Rows : tool'[r] = "queued" =>
            sends'[r] = 0 /\ \A q \in Procs : ~Holds(proc'[q], r)
      BY <3>2, <3>3, <3>4, Zenon DEF SendInv
    <3>9. \A r \in Rows, q \in Procs : Holds(proc'[q], r) =>
            sends'[r] = 0 /\ \A k \in Procs : Holds(proc'[k], r) => k = q
      BY <3>2, <3>3, <3>4 DEF SendInv
    <3>10. SendInv'
      BY <3>2, <3>7, <3>8, <3>9, Zenon DEF SendInv
    <3>11. /\ \A r \in Rows : outcome'[r] = "not_sent" => outcome[r] = "not_sent" /\ r # me.cur
           /\ \A q \in Procs, r \in Rows : Denies(proc'[q], r) => Denies(proc[q], r)
           /\ \A q \in Procs : Queues(proc'[q]) => Queues(proc[q])
      <4>1. outcome' = [outcome EXCEPT ![me.cur] = "none"]
        BY <1>11, <2>1 DEF MarkExecutionRunningIfPending
      <4>2. Refresh(me, "open").at = "refresh" /\ At(me, "open").at = "open"
        BY <2>0 DEF At, Refresh, Proc
      <4> QED
        BY <2>0, <3>1, <4>1, <4>2, Zenon DEF Become, Denies, Queues, TypeInv, TypeOK
    <3>12. ASSUME NEW r \in Rows, Untouched(r), r # me.cur PROVE Untouched(r)'
      BY <3>2, <3>3, <3>5, <3>12, Zenon DEF Untouched
    <3>13. ~Untouched(me.cur)
      BY <2>1, Zenon DEF Untouched, Unclaimed
    <3>14. DenyInv'
      BY <1>z, <3>2, <3>11, <3>12, <3>13, Zenon DEF DenyInv
    <3> QED
      BY <3>10, <3>14 DEF SafeInv
  <2>2. CASE row[me.cur] # "pending"
    <3>1. \/ Become(p, Idle)
          \/ Become(p, At(Advance(me), "next"))
          \/ Become(p, Fail(me, HaltAt(me.kind)))
      BY <1>11, <2>2 DEF MarkExecutionRunningIfPending
    <3>3. Keeps(At(Advance(me), "next"), me) /\ Keeps(Fail(me, HaltAt(me.kind)), me)
      BY <2>0, Zenon DEF Keeps, Holds, Denies, Queues, Claimed, At, Advance, Fail, HaltAt, Proc
    <3>2. sends' = sends /\ tool' = tool /\ row' = row /\ outcome' = outcome
      BY <1>11, <2>2 DEF MarkExecutionRunningIfPending, dbVars
    <3> QED
      BY <3>1, <3>3, <3>2, <1>z, IdleKeeps, QuietStep, Zenon
  <2> QED
    BY <2>1, <2>2, Zenon
<1>12. ASSUME NEW p \in Procs, OpenConnection(p) PROVE SafeInv'
  <2> DEFINE me == proc[p]
  <2>0. me \in Proc /\ me.at = "open"
    BY <1>12, <1>0, Zenon DEF OpenConnection
  <2>1. \/ Become(p, Got(me, "record", "failed"))
        \/ Become(p, Got(me, "settle", "not_sent"))
        \/ Become(p, At(me, "register"))
    BY <1>12 DEF OpenConnection
  <2>2. /\ Keeps(Got(me, "record", "failed"), me)
        /\ Keeps(Got(me, "settle", "not_sent"), me)
        /\ Keeps(At(me, "register"), me)
    BY <2>0, Zenon DEF Keeps, Holds, Denies, Queues, Claimed, At, Got, Proc
  <2>3. /\ sends' = sends
        /\ \A s \in Rows : tool'[s] = "queued" => tool[s] = "queued"
        /\ \A s \in Rows : Unclaimed(row', s) => Unclaimed(row, s)
        /\ ticketType # "ddl" => \A s \in Rows :
              outcome'[s] = "not_sent" => outcome[s] = "not_sent" \/ Denies(proc[p], s)
    BY <1>12, <2>0 DEF OpenConnection, Unclaimed, TypeInv, TypeOK, ticketVars, rowVars,
       memVars, dbVars, histVars
  <2> QED
    BY <2>1, <2>2, <2>3, <1>z, QuietStep, Zenon
<1>13. ASSUME NEW p \in Procs, RegisterQuery(p) PROVE SafeInv'
  <2> DEFINE me == proc[p]
  <2>0. me \in Proc /\ me.at = "register"
    BY <1>13, <1>0, Zenon DEF RegisterQuery
  <2>1. \/ Become(p, Got(me, "record", "manually_stopped"))
        \/ Become(p, Got(me, "settle", "not_sent"))
        \/ Become(p, At(me, "send"))
    BY <1>13 DEF RegisterQuery
  <2>2. /\ Keeps(Got(me, "record", "manually_stopped"), me)
        /\ Keeps(Got(me, "settle", "not_sent"), me)
        /\ Keeps(At(me, "send"), me)
    BY <2>0, Zenon DEF Keeps, Holds, Denies, Queues, Claimed, At, Got, Proc
  <2>3. /\ sends' = sends
        /\ \A s \in Rows : tool'[s] = "queued" => tool[s] = "queued"
        /\ \A s \in Rows : Unclaimed(row', s) => Unclaimed(row, s)
        /\ ticketType # "ddl" => \A s \in Rows :
              outcome'[s] = "not_sent" => outcome[s] = "not_sent" \/ Denies(proc[p], s)
    BY <1>13, <2>0, Zenon DEF RegisterQuery, Unclaimed, TypeInv, TypeOK, ticketVars, rowVars,
       memVars, dbVars, histVars
  <2> QED
    BY <2>1, <2>2, <2>3, <1>z, QuietStep, Zenon
<1>14. ASSUME NEW p \in Procs, SendStatement(p) PROVE SafeInv'
  <2> DEFINE me == proc[p]
  <2>0. me \in Proc /\ WellFormed(me) /\ me.at = "send" /\ me.cur \in Rows /\ Holds(me, me.cur)
    BY <1>14, <1>0, Zenon DEF SendStatement, WellFormed, RowSteps, Holds, Claimed
  <2>1. PICK m : /\ Become(p, m) /\ ~Queues(m)
                 /\ \A s \in Rows : ~Holds(m, s) /\ ~Denies(m, s)
    <3>1. Become(p, At(me, "await")) \/ Become(p, Got(me, "settle", "outcome_unknown"))
      BY <1>14 DEF SendStatement
    <3>2. /\ At(me, "await").at = "await" /\ Got(me, "settle", "outcome_unknown").at = "settle"
          /\ Got(me, "settle", "outcome_unknown").res = "outcome_unknown"
      BY <2>0, Zenon DEF At, Got, Proc
    <3> QED
      BY <3>1, <3>2, HoldsAt, Zenon DEF Claimed, Denies, Queues
  <2>2. row' = row /\ tool' = tool /\ outcome' = outcome
    BY <1>14, Zenon DEF SendStatement, rowVars
  <2>3. CASE sends' = sends
    BY <2>1, <2>2, <2>3, <1>z, QuietStep, Zenon DEF Keeps
  <2>4. CASE sends' = [sends EXCEPT ![me.cur] = @ + 1]
    <3>1. sends[me.cur] = 0 /\ \A q \in Procs : Holds(proc[q], me.cur) => q = p
      BY <2>0, Zenon DEF SendInv
    <3>2. ~Unclaimed(row, me.cur) /\ tool[me.cur] # "queued"
      BY <2>0 DEF SendInv
    <3>3. \A q \in Procs, r \in Rows : Holds(proc'[q], r) => Holds(proc[q], r) /\ q # p
      BY <2>1, Zenon DEF Become, TypeInv, TypeOK
    <3>4. sends'[me.cur] = 1 /\ \A r \in Rows : r # me.cur => sends'[r] = sends[r]
      BY <2>0, <2>4, <3>1 DEF TypeInv, TypeOK
    <3>5. SendInv'
      BY <2>0, <2>2, <3>1, <3>2, <3>3, <3>4 DEF SendInv
    <3>6. \A r \in Rows : Untouched(r) => Untouched(r)'
      BY <2>0, <2>2, <3>3, <3>4 DEF Untouched
    <3>7. \A q \in Procs : /\ Queues(proc'[q]) => Queues(proc[q])
                           /\ \A r \in Rows : Denies(proc'[q], r) => Denies(proc[q], r)
      BY <2>1, Zenon DEF Become, TypeInv, TypeOK
    <3>8. DenyInv'
      BY <1>z, <2>2, <3>6, <3>7 DEF DenyInv
    <3> QED
      BY <3>5, <3>8 DEF SafeInv
  <2> QED
    BY <1>14, <2>3, <2>4 DEF SendStatement
<1>15. ASSUME NEW p \in Procs, ReceiveAnswer(p) PROVE SafeInv'
  <2> DEFINE me == proc[p]
  <2>0. me \in Proc /\ me.at = "await"
    BY <1>15, <1>0, Zenon DEF ReceiveAnswer
  <2>1. \/ Become(p, Got(me, "settle", "completed"))
        \/ Become(p, Got(me, "settle", "failed"))
        \/ Become(p, Got(me, "settle", "outcome_unknown"))
    BY <1>15 DEF ReceiveAnswer
  <2>2. /\ Keeps(Got(me, "settle", "completed"), me)
        /\ Keeps(Got(me, "settle", "failed"), me)
        /\ Keeps(Got(me, "settle", "outcome_unknown"), me)
    BY <2>0, Zenon DEF Keeps, Holds, Denies, Queues, Claimed, Got, Proc
  <2>3. /\ sends' = sends
        /\ \A s \in Rows : tool'[s] = "queued" => tool[s] = "queued"
        /\ \A s \in Rows : Unclaimed(row', s) => Unclaimed(row, s)
        /\ ticketType # "ddl" => \A s \in Rows :
              outcome'[s] = "not_sent" => outcome[s] = "not_sent" \/ Denies(proc[p], s)
    BY <1>15, <2>0 DEF ReceiveAnswer, Unclaimed, TypeInv, TypeOK, ticketVars, rowVars,
       memVars, dbVars, histVars
  <2> QED
    BY <2>1, <2>2, <2>3, <1>z, QuietStep, Zenon
<1>16. ASSUME NEW p \in Procs, RereadExecution(p) PROVE SafeInv'
  <2> DEFINE me == proc[p]
  <2>0. me \in Proc /\ me.at = "settle" /\ me.cur \in Rows
    BY <1>16, <1>0, Zenon DEF RereadExecution, WellFormed, RowSteps
  <2>1. \/ Become(p, Refresh(me, "idle"))
        \/ Become(p, Fail(me, "commit"))
        \/ Become(p, Refresh(Fail(me, "finish"), "finish"))
        \/ Become(p, At(me, "record"))
    BY <1>16 DEF RereadExecution, AfterStatement
  <2>2. /\ Keeps(Refresh(me, "idle"), me)
        /\ Keeps(Fail(me, "commit"), me)
        /\ Keeps(Refresh(Fail(me, "finish"), "finish"), me)
        /\ Keeps(At(me, "record"), me)
    BY <2>0, Zenon DEF Keeps, Holds, Denies, Queues, Claimed, At, Fail, Refresh, Proc
  <2>3. /\ sends' = sends
        /\ \A s \in Rows : tool'[s] = "queued" => tool[s] = "queued"
        /\ \A s \in Rows : Unclaimed(row', s) => Unclaimed(row, s)
        /\ ticketType # "ddl" => \A s \in Rows :
              outcome'[s] = "not_sent" => outcome[s] = "not_sent" \/ Denies(proc[p], s)
    BY <1>16, <2>0 DEF RereadExecution, Unclaimed, TypeInv, TypeOK, ticketVars, rowVars,
       memVars, dbVars, histVars
  <2> QED
    BY <2>1, <2>2, <2>3, <1>z, QuietStep, Zenon
<1>17. ASSUME NEW p \in Procs, RecordExecution(p) PROVE SafeInv'
  <2> DEFINE me == proc[p]
  <2>0. me \in Proc /\ me.at = "record" /\ me.cur \in Rows
    BY <1>17, <1>0, Zenon DEF RecordExecution, WellFormed, RowSteps
  <2>1. \/ Become(p, Refresh(me, "idle"))
        \/ Become(p, At(Advance(me), "next"))
        \/ Become(p, Refresh(Advance(me), "next"))
        \/ Become(p, Fail(me, "commit"))
        \/ Become(p, Refresh(Fail(me, "finish"), "finish"))
        \/ Become(p, Begin("prepare", RunnerKind(dmlMode), 0))
    BY <1>17 DEF RecordExecution, AfterStatement
  <2>2. /\ Keeps(Refresh(me, "idle"), me)
        /\ Keeps(At(Advance(me), "next"), me)
        /\ Keeps(Refresh(Advance(me), "next"), me)
        /\ Keeps(Fail(me, "commit"), me)
        /\ Keeps(Refresh(Fail(me, "finish"), "finish"), me)
        /\ Keeps(Begin("prepare", RunnerKind(dmlMode), 0), me)
    BY <2>0, Zenon
       DEF Keeps, Holds, Denies, Queues, Claimed, At, Fail, Advance, Refresh, Begin, Proc, Idle
  <2>3. /\ sends' = sends
        /\ \A s \in Rows : tool'[s] = "queued" => tool[s] = "queued"
        /\ \A s \in Rows : Unclaimed(row', s) => Unclaimed(row, s)
        /\ ticketType # "ddl" => \A s \in Rows :
              outcome'[s] = "not_sent" => outcome[s] = "not_sent" \/ Denies(proc[p], s)
    BY <1>17, <2>0 DEF RecordExecution, RowOf, Unclaimed, Denies, TypeInv, TypeOK, ticketVars,
       rowVars, memVars, dbVars, histVars
  <2> QED
    BY <2>1, <2>2, <2>3, <1>z, QuietStep, Zenon
<1>18. ASSUME NEW p \in Procs, RefreshRead(p) PROVE SafeInv'
  <2> DEFINE me == proc[p]
  <2>0. me \in Proc /\ me.at = "refresh"
    BY <1>18, <1>0, Zenon DEF RefreshRead
  <2>1. Become(p, Got(me, "aggregate", AggregateTicketStatusFromCounts(row, runMode)))
    BY <1>18 DEF RefreshRead
  <2>2. Keeps(Got(me, "aggregate", AggregateTicketStatusFromCounts(row, runMode)), me)
    BY <2>0, Zenon DEF Keeps, Holds, Denies, Queues, Claimed, Got, Proc
  <2>3. /\ sends' = sends
        /\ \A s \in Rows : tool'[s] = "queued" => tool[s] = "queued"
        /\ \A s \in Rows : Unclaimed(row', s) => Unclaimed(row, s)
        /\ ticketType # "ddl" => \A s \in Rows :
              outcome'[s] = "not_sent" => outcome[s] = "not_sent" \/ Denies(proc[p], s)
    BY <1>18, <2>0 DEF RefreshRead, Unclaimed, TypeInv, TypeOK, ticketVars, rowVars,
       memVars, dbVars, histVars
  <2> QED
    BY <2>1, <2>2, <2>3, <1>z, QuietStep, Zenon
<1>19. ASSUME NEW p \in Procs, SetExecutionAggregateStatus(p) PROVE SafeInv'
  <2> DEFINE me == proc[p]
  <2>0. me \in Proc /\ me.at = "aggregate"
    BY <1>19, <1>0, Zenon DEF SetExecutionAggregateStatus
  <2>1. \/ Become(p, Idle)
        \/ Become(p, Got(Refresh(me, "idle"), me.ret, "none"))
    BY <1>19, Zenon DEF SetExecutionAggregateStatus
  <2>2. Keeps(Got(Refresh(me, "idle"), me.ret, "none"), me)
    <3> DEFINE m == Got(Refresh(me, "idle"), me.ret, "none")
    <3>1. m.at = me.ret /\ m.cur = me.cur /\ m.ret = "idle" /\ m.res = "none"
      BY <2>0, Zenon DEF Got, Refresh, Proc
    <3>2. \A s \in Rows : ~Denies(m, s) /\ (Holds(m, s) => Holds(me, s))
      BY <2>0, <3>1, Zenon DEF Denies, Holds, Claimed
    <3>3. ~Queues(m)
      BY <1>0, <2>0, <3>1, Zenon DEF WellFormed, Returns, Queues
    <3> QED
      BY <3>2, <3>3 DEF Keeps
  <2>3. /\ sends' = sends
        /\ \A s \in Rows : tool'[s] = "queued" => tool[s] = "queued"
        /\ \A s \in Rows : Unclaimed(row', s) => Unclaimed(row, s)
        /\ ticketType # "ddl" => \A s \in Rows :
              outcome'[s] = "not_sent" => outcome[s] = "not_sent" \/ Denies(proc[p], s)
    BY <1>19, <2>0 DEF SetExecutionAggregateStatus, Unclaimed, TypeInv, TypeOK,
       ticketVars, rowVars, memVars, dbVars, histVars
  <2> QED
    BY <2>1, <2>2, IdleKeeps, <2>3, <1>z, QuietStep, Zenon
<1>20. ASSUME NEW p \in Procs, RecoverTicketExecutionPanic(p) PROVE SafeInv'
  <2> DEFINE me == proc[p]
  <2>0. me \in Proc /\ me.at = "await"
    BY <1>20, <1>0, Zenon DEF RecoverTicketExecutionPanic
  <2>1. \/ Become(p, Refresh(me, "idle"))
        \/ Become(p, Fail(me, "finish"))
    BY <1>20 DEF RecoverTicketExecutionPanic
  <2>2. /\ Keeps(Refresh(me, "idle"), me)
        /\ Keeps(Fail(me, "finish"), me)
    BY <2>0, Zenon DEF Keeps, Holds, Denies, Queues, Claimed, Fail, Refresh, Proc
  <2>3. /\ sends' = sends
        /\ \A s \in Rows : tool'[s] = "queued" => tool[s] = "queued"
        /\ \A s \in Rows : Unclaimed(row', s) => Unclaimed(row, s)
        /\ ticketType # "ddl" => \A s \in Rows :
              outcome'[s] = "not_sent" => outcome[s] = "not_sent" \/ Denies(proc[p], s)
    BY <1>20, <2>0 DEF RecoverTicketExecutionPanic, Unclaimed, TypeInv, TypeOK,
       ticketVars, rowVars, memVars, dbVars, histVars
  <2> QED
    BY <2>1, <2>2, <2>3, <1>z, QuietStep, Zenon
<1>21. ASSUME NEW p \in Procs, RequirePendingRow(p) PROVE SafeInv'
  <2> DEFINE me == proc[p]
  <2>0. me \in Proc /\ me.at = "es_row"
    BY <1>21, <1>0, Zenon DEF RequirePendingRow
  <2>1. \/ Become(p, At(me, "es_claim"))
        \/ Become(p, Idle)
    BY <1>21 DEF RequirePendingRow
  <2>2. Keeps(At(me, "es_claim"), me)
    BY <2>0, Zenon DEF Keeps, Holds, Denies, Queues, Claimed, At, Proc
  <2>3. /\ sends' = sends
        /\ \A s \in Rows : tool'[s] = "queued" => tool[s] = "queued"
        /\ \A s \in Rows : Unclaimed(row', s) => Unclaimed(row, s)
        /\ ticketType # "ddl" => \A s \in Rows :
              outcome'[s] = "not_sent" => outcome[s] = "not_sent" \/ Denies(proc[p], s)
    BY <1>21, <2>0 DEF RequirePendingRow, Unclaimed, TypeInv, TypeOK, ticketVars,
       rowVars, memVars, dbVars, histVars
  <2> QED
    BY <2>1, <2>2, IdleKeeps, <2>3, <1>z, QuietStep, Zenon
<1>22. ASSUME NEW p \in Procs, ClaimManualStatementExecution(p) PROVE SafeInv'
  <2> DEFINE me == proc[p]
  <2>0. me \in Proc /\ me.at = "es_claim"
    BY <1>22, <1>0 DEF ClaimManualStatementExecution
  <2>1. \/ Become(p, At(me, "mark"))
        \/ Become(p, At(me, "es_queue")) /\ ticketType = "ddl"
        \/ Become(p, Idle)
    BY <1>22, Zenon DEF ClaimManualStatementExecution
  <2>2. /\ Keeps(At(me, "mark"), me)
        /\ ticketType = "ddl" => Keeps(At(me, "es_queue"), me)
    BY <2>0, Zenon DEF Keeps, Holds, Denies, Queues, Claimed, At, Proc
  <2>3. /\ sends' = sends
        /\ \A s \in Rows : tool'[s] = "queued" => tool[s] = "queued"
        /\ \A s \in Rows : Unclaimed(row', s) => Unclaimed(row, s)
        /\ ticketType # "ddl" => \A s \in Rows :
              outcome'[s] = "not_sent" => outcome[s] = "not_sent" \/ Denies(proc[p], s)
    BY <1>22, <2>0, Zenon DEF ClaimManualStatementExecution, Unclaimed, TypeInv, TypeOK,
       ticketVars, rowVars, memVars, dbVars, histVars
  <2> QED
    BY <2>1, <2>2, IdleKeeps, <2>3, <1>z, QuietStep, Zenon
<1>23. ASSUME NEW p \in Procs, QueueOnlineDDL(p) PROVE SafeInv'
  <2> DEFINE me == proc[p]
  <2>0. me \in Proc /\ me.at = "es_queue" /\ me.cur \in Rows
    BY <1>23, <1>0, Zenon DEF QueueOnlineDDL, WellFormed, RowSteps
  <2>1. PICK m : Become(p, m) /\ \A s \in Rows : ~Holds(m, s) /\ ~Denies(m, s)
    <3>1. Become(p, Idle) \/ Become(p, At(me, "es_fail"))
      BY <1>23, Zenon DEF QueueOnlineDDL
    <3>2. At(me, "es_fail").at = "es_fail"
      BY <2>0, Zenon DEF At, Proc
    <3> QED
      BY <3>1, <3>2, IdleHolds, HoldsAt DEF Claimed, Denies, Idle
  <2>5. ticketType = "ddl" /\ DenyInv'
    BY <1>z, <2>0, Zenon DEF DenyInv, Queues
  <2>2. sends' = sends
    BY <1>23, Zenon DEF QueueOnlineDDL, dbVars
  <2>3. CASE row' = row /\ tool' = tool
    <3>1. Keeps(m, proc[p])
      BY <2>0, <2>1, <2>5 DEF Keeps, Denies, Queues
    <3> QED
      BY <1>z, <2>1, <2>2, <2>3, <2>5, <3>1, QuietStep, Zenon
  <2>4. CASE /\ row[me.cur] = "pending"
             /\ tool' = [tool EXCEPT ![me.cur] = "queued"]
             /\ row' = [row EXCEPT ![me.cur] = "running"]
    <3>1. sends[me.cur] = 0 /\ \A q \in Procs : ~Holds(proc[q], me.cur)
      BY <2>0, <2>4, Zenon DEF SendInv, Unclaimed
    <3>2. \A q \in Procs, r \in Rows : Holds(proc'[q], r) => Holds(proc[q], r)
      BY <2>1, Zenon DEF Become, TypeInv, TypeOK
    <3>3. \A r \in Rows : Unclaimed(row', r) => Unclaimed(row, r) /\ r # me.cur
      BY <2>0, <2>4, Zenon DEF Unclaimed, TypeInv, TypeOK
    <3>4. \A r \in Rows : tool'[r] = "queued" => tool[r] = "queued" \/ r = me.cur
      BY <2>0, <2>4, Zenon DEF TypeInv, TypeOK
    <3>5. \A r \in Rows : r # me.cur => tool'[r] = tool[r]
      BY <2>0, <2>4, Zenon DEF TypeInv, TypeOK
    <3>6. SendInv'
      BY <2>0, <2>2, <3>1, <3>2, <3>3, <3>4, <3>5 DEF SendInv
    <3> QED
      BY <2>5, <3>6, Zenon DEF SafeInv
  <2> QED
    BY <1>23, <2>3, <2>4, Zenon DEF QueueOnlineDDL
<1>24. ASSUME NEW p \in Procs, MarkQueueFailure(p) PROVE SafeInv'
  <2> DEFINE me == proc[p]
  <2>0. me \in Proc /\ me.at = "es_fail"
    BY <1>24, <1>0, Zenon DEF MarkQueueFailure
  <2>1. Become(p, Refresh(me, "idle"))
    BY <1>24 DEF MarkQueueFailure
  <2>2. Keeps(Refresh(me, "idle"), me)
    BY <2>0, Zenon DEF Keeps, Holds, Denies, Queues, Claimed, Refresh, Proc
  <2>3. /\ sends' = sends
        /\ \A s \in Rows : tool'[s] = "queued" => tool[s] = "queued"
        /\ \A s \in Rows : Unclaimed(row', s) => Unclaimed(row, s)
        /\ ticketType # "ddl" => \A s \in Rows :
              outcome'[s] = "not_sent" => outcome[s] = "not_sent" \/ Denies(proc[p], s)
    BY <1>24, <2>0 DEF MarkQueueFailure, DenyInv, Queues, Unclaimed, TypeInv, TypeOK, ticketVars,
       rowVars, memVars, dbVars, histVars
  <2> QED
    BY <2>1, <2>2, <2>3, <1>z, QuietStep, Zenon
<1>25. ASSUME NEW p \in Procs, Stop(p) PROVE SafeInv'
  <2>1. Become(p, Got(Begin("stop", "request", 0), "stop", runMode))
    BY <1>25 DEF Stop
  <2>2. Keeps(Got(Begin("stop", "request", 0), "stop", runMode), proc[p])
    BY Zenon DEF Keeps, Holds, Denies, Queues, Claimed, Got, Begin, Idle
  <2>3. /\ sends' = sends
        /\ \A s \in Rows : tool'[s] = "queued" => tool[s] = "queued"
        /\ \A s \in Rows : Unclaimed(row', s) => Unclaimed(row, s)
        /\ ticketType # "ddl" => \A s \in Rows :
              outcome'[s] = "not_sent" => outcome[s] = "not_sent" \/ Denies(proc[p], s)
    BY <1>25 DEF Stop, Unclaimed, TypeInv, TypeOK, ticketVars, rowVars, memVars, dbVars,
       histVars
  <2> QED
    BY <2>1, <2>2, <2>3, <1>z, QuietStep, Zenon
<1>26. ASSUME NEW p \in Procs, StopWrite(p) PROVE SafeInv'
  <2>1. Become(p, Idle)
    BY <1>26, Zenon DEF StopWrite
  <2>3. /\ sends' = sends
        /\ \A s \in Rows : tool'[s] = "queued" => tool[s] = "queued"
        /\ \A s \in Rows : Unclaimed(row', s) => Unclaimed(row, s)
        /\ ticketType # "ddl" => \A s \in Rows :
              outcome'[s] = "not_sent" => outcome[s] = "not_sent" \/ Denies(proc[p], s)
    BY <1>26 DEF StopWrite, Unclaimed, TypeInv, TypeOK, ticketVars, rowVars, memVars,
       dbVars, histVars
  <2> QED
    BY <2>1, IdleKeeps, <2>3, <1>z, QuietStep, Zenon
<1>27. ASSUME NEW p \in Procs, CancelAnyOrPending(p) PROVE SafeInv'
  <2> DEFINE me == proc[p]
  <2>0. me \in Proc /\ me.at = "ss_cancel"
    BY <1>27, <1>0, Zenon DEF CancelAnyOrPending
  <2>1. \/ Become(p, At(me, "ss_mark"))
        \/ Become(p, Idle)
    BY <1>27 DEF CancelAnyOrPending
  <2>2. Keeps(At(me, "ss_mark"), me)
    BY <2>0, Zenon DEF Keeps, Holds, Denies, Queues, Claimed, At, Proc
  <2>3. /\ sends' = sends
        /\ \A s \in Rows : tool'[s] = "queued" => tool[s] = "queued"
        /\ \A s \in Rows : Unclaimed(row', s) => Unclaimed(row, s)
        /\ ticketType # "ddl" => \A s \in Rows :
              outcome'[s] = "not_sent" => outcome[s] = "not_sent" \/ Denies(proc[p], s)
    BY <1>27, <2>0 DEF CancelAnyOrPending, Unclaimed, TypeInv, TypeOK, ticketVars,
       rowVars, memVars, dbVars, histVars
  <2> QED
    BY <2>1, <2>2, IdleKeeps, <2>3, <1>z, QuietStep, Zenon
<1>28. ASSUME NEW p \in Procs, MarkExecutionStopped(p) PROVE SafeInv'
  <2> DEFINE me == proc[p]
  <2>0. me \in Proc /\ me.at = "ss_mark"
    BY <1>28, <1>0, Zenon DEF MarkExecutionStopped
  <2>1. Become(p, Refresh(me, "idle"))
    BY <1>28 DEF MarkExecutionStopped
  <2>2. Keeps(Refresh(me, "idle"), me)
    BY <2>0, Zenon DEF Keeps, Holds, Denies, Queues, Claimed, Refresh, Proc
  <2>3. /\ sends' = sends
        /\ \A s \in Rows : tool'[s] = "queued" => tool[s] = "queued"
        /\ \A s \in Rows : Unclaimed(row', s) => Unclaimed(row, s)
        /\ ticketType # "ddl" => \A s \in Rows :
              outcome'[s] = "not_sent" => outcome[s] = "not_sent" \/ Denies(proc[p], s)
    BY <1>28, <2>0 DEF MarkExecutionStopped, Unclaimed, TypeInv, TypeOK, ticketVars,
       rowVars, memVars, dbVars, histVars
  <2> QED
    BY <2>1, <2>2, <2>3, <1>z, QuietStep, Zenon
<1>29. ASSUME NEW p \in Procs, NEW r \in Rows, ExecuteStatement(p, r) PROVE SafeInv'
  <2>1. Become(p, Begin("es_row", "statement", r))
    BY <1>29 DEF ExecuteStatement
  <2>2. Keeps(Begin("es_row", "statement", r), proc[p])
    BY Zenon DEF Keeps, Holds, Denies, Queues, Claimed, Begin, Idle
  <2>3. /\ sends' = sends
        /\ \A s \in Rows : tool'[s] = "queued" => tool[s] = "queued"
        /\ \A s \in Rows : Unclaimed(row', s) => Unclaimed(row, s)
        /\ ticketType # "ddl" => \A s \in Rows :
              outcome'[s] = "not_sent" => outcome[s] = "not_sent" \/ Denies(proc[p], s)
    BY <1>29 DEF ExecuteStatement, Unclaimed, TypeInv, TypeOK, ticketVars, rowVars,
       memVars, dbVars, histVars
  <2> QED
    BY <2>1, <2>2, <2>3, <1>z, QuietStep, Zenon
<1>30. ASSUME NEW p \in Procs, NEW r \in Rows, StopStatement(p, r) PROVE SafeInv'
  <2>1. Become(p, Begin("ss_cancel", "request", r))
    BY <1>30 DEF StopStatement
  <2>2. Keeps(Begin("ss_cancel", "request", r), proc[p])
    BY Zenon DEF Keeps, Holds, Denies, Queues, Claimed, Begin, Idle
  <2>3. /\ sends' = sends
        /\ \A s \in Rows : tool'[s] = "queued" => tool[s] = "queued"
        /\ \A s \in Rows : Unclaimed(row', s) => Unclaimed(row, s)
        /\ ticketType # "ddl" => \A s \in Rows :
              outcome'[s] = "not_sent" => outcome[s] = "not_sent" \/ Denies(proc[p], s)
    BY <1>30 DEF StopStatement, Unclaimed, TypeInv, TypeOK, ticketVars, rowVars,
       memVars, dbVars, histVars
  <2> QED
    BY <2>1, <2>2, <2>3, <1>z, QuietStep, Zenon
<1>31. ASSUME NEW p \in Procs, NEW r \in Rows, FinishToolRun(p, r) PROVE SafeInv'
  <2>1. \/ Become(p, Got(Begin("record", "tool", r), "record", "completed"))
        \/ Become(p, Got(Begin("record", "tool", r), "record", "failed"))
    BY <1>31 DEF FinishToolRun
  <2>2. /\ Keeps(Got(Begin("record", "tool", r), "record", "completed"), proc[p])
        /\ Keeps(Got(Begin("record", "tool", r), "record", "failed"), proc[p])
    BY Zenon DEF Keeps, Holds, Denies, Queues, Claimed, Got, Begin, Idle
  <2>3. /\ sends' = sends
        /\ \A s \in Rows : tool'[s] = "queued" => tool[s] = "queued"
        /\ \A s \in Rows : Unclaimed(row', s) => Unclaimed(row, s)
        /\ ticketType # "ddl" => \A s \in Rows :
              outcome'[s] = "not_sent" => outcome[s] = "not_sent" \/ Denies(proc[p], s)
    BY <1>31 DEF FinishToolRun, Unclaimed, TypeInv, TypeOK, ticketVars, rowVars,
       memVars, dbVars, histVars
  <2> QED
    BY <2>1, <2>2, <2>3, <1>z, QuietStep, Zenon
<1>32. ASSUME NEW p \in Procs, NEW r \in Rows, CancelActiveExecutionsForShutdown(p, r)
      PROVE  SafeInv'
  <2>1. Become(p, Begin("refresh", "request", 0))
    BY <1>32 DEF CancelActiveExecutionsForShutdown
  <2>2. Keeps(Begin("refresh", "request", 0), proc[p])
    BY Zenon DEF Keeps, Holds, Denies, Queues, Claimed, Begin, Idle
  <2>3. /\ sends' = sends
        /\ \A s \in Rows : tool'[s] = "queued" => tool[s] = "queued"
        /\ \A s \in Rows : Unclaimed(row', s) => Unclaimed(row, s)
        /\ ticketType # "ddl" => \A s \in Rows :
              outcome'[s] = "not_sent" => outcome[s] = "not_sent" \/ Denies(proc[p], s)
    BY <1>32 DEF CancelActiveExecutionsForShutdown, Unclaimed, TypeInv, TypeOK,
       ticketVars, rowVars, memVars, dbVars, histVars
  <2> QED
    BY <2>1, <2>2, <2>3, <1>z, QuietStep, Zenon
<1>33. ASSUME NEW r \in Rows, LaunchTool(r) PROVE SafeInv'
  <2>1. sends[r] = 0 /\ (\A q \in Procs : ~Holds(proc[q], r)) /\ ~Unclaimed(row, r)
    BY <1>33 DEF LaunchTool, SendInv
  <2>2. row' = row /\ proc' = proc
    BY <1>33, Zenon DEF LaunchTool
  <2>3. \A s \in Rows : s # r => sends'[s] = sends[s] /\ tool'[s] = tool[s]
    BY <1>33, Zenon DEF LaunchTool, TypeInv, TypeOK
  <2>4. sends'[r] = 1 /\ tool'[r] = "running"
    BY <1>33, <2>1 DEF LaunchTool, TypeInv, TypeOK
  <2>5. SendInv'
    BY <2>1, <2>2, <2>3, <2>4, Zenon DEF SendInv
  <2>6. DenyInv'
    BY <1>z, <1>33 DEF DenyInv, LaunchTool
  <2> QED
    BY <2>5, <2>6, Zenon DEF SafeInv
<1>34. ASSUME ProcessExit PROVE SafeInv'
  <2>1. \A q \in Procs : proc'[q] = Idle
    BY <1>34, Zenon DEF ProcessExit
  <2>2. \A q \in Procs : /\ ~Queues(proc'[q])
                         /\ \A r \in Rows : ~Holds(proc'[q], r) /\ ~Denies(proc'[q], r)
    <3>1. Idle.at = "idle"
      BY DEF Idle
    <3>2. ~Queues(Idle) /\ \A r \in Rows : ~Holds(Idle, r) /\ ~Denies(Idle, r)
      BY <3>1, IdleHolds, Zenon DEF Queues, Denies
    <3> QED
      BY <2>1, <3>2, Zenon
  <2>3. sends' = sends /\ row' = row /\ tool' = tool /\ outcome' = outcome
    BY <1>34 DEF ProcessExit, rowVars
  <2>4. SendInv'
    BY <2>2, <2>3, Zenon DEF SendInv
  <2>5. DenyInv'
    BY <1>z, <2>2, <2>3, Zenon DEF DenyInv, Untouched
  <2> QED
    BY <2>4, <2>5 DEF SafeInv
<1>35. ASSUME RecoverExecutingTickets PROVE SafeInv'
  <2>1. \A r \in Rows : Unclaimed(row', r) => Unclaimed(row, r)
    BY <1>35, Zenon DEF RecoverExecutingTickets, Unclaimed, TypeInv, TypeOK
  <2>2. \A r \in Rows : tool'[r] # "queued"
    BY <1>35, Zenon DEF RecoverExecutingTickets
  <2>3. sends' = sends /\ proc' = proc
    BY <1>35, Zenon DEF RecoverExecutingTickets, dbVars
  <2>4. \A r \in Rows : outcome'[r] = "not_sent" => outcome[r] = "not_sent"
    BY <1>35 DEF RecoverExecutingTickets, TypeInv, TypeOK
  <2>5. SendInv'
    BY <2>1, <2>2, <2>3, Zenon DEF SendInv
  <2>6. DenyInv'
    BY <1>z, <2>1, <2>2, <2>3, <2>4, Zenon DEF DenyInv, Untouched
  <2> QED
    BY <2>5, <2>6 DEF SafeInv
<1>36. ASSUME GetTicket PROVE SafeInv'
  <2>1. \A r \in Rows : Unclaimed(row', r) => Unclaimed(row, r)
    BY <1>36 DEF GetTicket, Unclaimed, NoRows
  <2>2. sends' = sends /\ proc' = proc /\ tool' = tool /\ outcome' = outcome
    BY <1>36 DEF GetTicket, dbVars
  <2>3. SendInv'
    BY <2>1, <2>2, Zenon DEF SendInv
  <2>4. DenyInv'
    BY <1>z, <2>1, <2>2, Zenon DEF DenyInv, Untouched
  <2> QED
    BY <2>3, <2>4 DEF SafeInv
<1>37. CASE \/ (\E r \in Rows : PruneLocked(r)) \/ ScheduleExecution \/ RejectAtExecution
            \/ BeginShutdown \/ UNCHANGED vars
  <2>1. /\ row' = row /\ tool' = tool /\ sends' = sends /\ proc' = proc
        /\ outcome' = outcome
    BY <1>37 DEF PruneLocked, ScheduleExecution, RejectAtExecution, BeginShutdown, vars,
       rowVars, dbVars
  <2> QED
    BY <1>z, <2>1, Zenon DEF SafeInv, SendInv, DenyInv, Untouched, Unclaimed
<1> QED
  BY <1>1, <1>2, <1>3, <1>4, <1>5, <1>6, <1>7, <1>8, <1>9, <1>10, <1>11, <1>12, <1>13,
     <1>14, <1>15, <1>16, <1>17, <1>18, <1>19, <1>20, <1>21, <1>22, <1>23, <1>24, <1>25,
     <1>26, <1>27, <1>28, <1>29, <1>30, <1>31, <1>32, <1>33, <1>34, <1>35, <1>36, <1>37
     DEF Next, Runner

\* Both invariants hold in every state.
LEMMA Safe == Spec => []SafeInv
<1>1. Init => SafeInv
  <2> SUFFICES ASSUME Init PROVE SafeInv
    OBVIOUS
  <2>1. \A p \in Procs : proc[p] = Begin("autostart", "request", 0) \/ proc[p] = Idle
    BY Zenon DEF Init
  <2>2. \A p \in Procs : proc[p].at \in {"autostart", "idle"}
    <3>1. Begin("autostart", "request", 0).at = "autostart" /\ Idle.at = "idle"
      BY DEF Begin, Idle
    <3> QED
      BY <2>1, <3>1
  <2>3. \A p \in Procs : /\ ~Queues(proc[p])
                         /\ \A r \in Rows : ~Holds(proc[p], r) /\ ~Denies(proc[p], r)
    BY <2>2, HoldsAt, Zenon DEF Queues, Denies, Claimed
  <2>4. SendInv
    BY <2>3, Zenon DEF Init, SendInv, NoRows
  <2>5. DenyInv
    BY <2>3 DEF Init, DenyInv
  <2> QED
    BY <2>4, <2>5 DEF SafeInv
<1>2. Init => TypeInv
  BY TypeInit
<1> QED
  BY <1>1, <1>2, SendStep, TypeStep, PTL DEF Spec

\* No statement is sent to the target database twice: runTicketSQL, the whole-ticket and
\* Redis loops, a manual request and an online DDL run can each send a statement only
\* after MarkExecutionRunningIfPending or CreateQueued took its row out of pending, and
\* nothing ever puts a row back.
THEOREM SendAtMostOnce == Spec => []AtMostOnceSend
<1>1. SafeInv => AtMostOnceSend
  <2>1. SafeInv => \A r \in Rows : sends[r] \in {0, 1}
    BY Zenon DEF SafeInv, SendInv
  <2> QED
    BY <2>1 DEF AtMostOnceSend
<1> QED
  BY <1>1, Safe, PTL

\* A statement of a DML or Redis ticket whose row reports it as not sent has not been sent:
\* the process that wrote the report held the row when its attempt ended, so that nobody else
\* had sent the statement, and no row is claimed a second time.
THEOREM NotSentHolds == Spec => [](ticketType # "ddl" => NotSentIsTrue)
<1>1. SafeInv => (ticketType # "ddl" => NotSentIsTrue)
  BY Zenon DEF SafeInv, DenyInv, Untouched, NotSentIsTrue
<1> QED
  BY <1>1, Safe, PTL

=============================================================================
