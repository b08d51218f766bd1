------------------------ MODULE TicketExecutionProofs ------------------------
(***************************************************************************)
(* Machine-checked proof of the type correctness of TicketExecution, for   *)
(* every number of statements and processes and without the bounds on      *)
(* stops and crashes playing a part.                                       *)
(***************************************************************************)
EXTENDS TicketExecution, TLAPS

FullKinds == {"batch", "whole", "redis"}

\* The steps at which a process works on the statement it holds in cur.
RowSteps == {"mark", "claim", "open", "register", "send", "await", "settle", "record",
             "es_row", "es_claim", "es_queue", "es_fail", "ss_cancel", "ss_mark"}

\* Once its rows are listed, a run of the whole ticket has a final status to write.
Decided(m) == m.kind \in FullKinds => m.final # "none"

\* Where a refresh may return to, and what the step there will need.
Returns(m) ==
    \/ m.ret = "idle"
    \/ m.ret = "next" /\ m.cur \in 1..(N + 1) /\ m.kind \in FullKinds
    \/ m.ret = "finish" /\ m.kind \in FullKinds
    \/ m.ret = "open" /\ m.cur \in Rows /\ m.kind = "redis"

\* What the record of a goroutine or request holds at each of its steps.
WellFormed(m) ==
    /\ m.at \in RowSteps => m.cur \in Rows
    /\ m.at \in {"prepare", "list", "next", "commit", "finish"} => m.kind \in FullKinds
    /\ m.at \in {"mark", "claim", "open", "register", "send", "await", "settle"}
         => m.kind \in FullKinds \/ m.kind = "statement"
    /\ m.at = "record" => m.kind \in FullKinds \/ m.kind \in {"statement", "tool"}
    /\ m.at \in {"es_row", "es_claim", "es_queue", "es_fail"} => m.kind = "statement"
    /\ m.at \notin {"prepare", "list"} => Decided(m)
    /\ m.at = "next" => m.cur \in 1..(N + 1)
    /\ m.at \in {"refresh", "aggregate"} => Returns(m)
    /\ m.at \in {"settle", "record"} => m.res \in Outcome
    /\ m.at = "aggregate" => m.res \in TicketStatus

ProcInv == proc \in [Procs -> Proc] /\ \A p \in Procs : WellFormed(proc[p])

TypeInv == TypeOK /\ \A p \in Procs : WellFormed(proc[p])

\* The type invariant without the process records, by groups of variables.
TicketOK ==
    /\ status \in TicketStatus /\ runMode \in RunMode /\ dmlMode \in DMLMode
    /\ scheduled \in BOOLEAN

RowOK ==
    /\ row \in [Rows -> RowStatus]
    /\ outcome \in [Rows -> Outcome]
    /\ tool \in [Rows -> {"none", "queued", "running", "done"}]

MemOK ==
    /\ phase \in {"up", "draining", "down"}
    /\ active \subseteq Rows /\ pendingCancel \subseteq Rows
    /\ ctxDone \subseteq Rows /\ victims \subseteq Rows

DbOK ==
    /\ sends \in [Rows -> Nat]
    /\ effect \in [Rows -> {"none", "tx", "applied", "failed"}]

HistOK == crashes \in Nat /\ stops \in Nat /\ stopAck \in BOOLEAN /\ lapsed \subseteq Rows

DataOK == TicketOK /\ RowOK /\ MemOK /\ DbOK /\ HistOK

LEMMA TypeParts == TypeInv <=> ticketType \in TicketTypes /\ DataOK /\ ProcInv
BY DEF TypeInv, TypeOK, DataOK, ProcInv, TicketOK, RowOK, MemOK, DbOK, HistOK

-----------------------------------------------------------------------------
(* The words of the model, and what each step needs of a process record.   *)

LEMMA Steps ==
  /\ "idle" \in Step /\ "autostart" \in Step /\ "prepare" \in Step /\ "list" \in Step
  /\ "next" \in Step /\ "mark" \in Step /\ "claim" \in Step /\ "open" \in Step
  /\ "register" \in Step /\ "send" \in Step /\ "await" \in Step /\ "settle" \in Step
  /\ "record" \in Step /\ "refresh" \in Step /\ "aggregate" \in Step
  /\ "commit" \in Step /\ "finish" \in Step /\ "es_row" \in Step
  /\ "es_claim" \in Step /\ "es_queue" \in Step /\ "es_fail" \in Step
  /\ "stop" \in Step /\ "ss_cancel" \in Step /\ "ss_mark" \in Step
BY DEF Step

LEMMA Kinds ==
  /\ "batch" \in FullKinds /\ "whole" \in FullKinds /\ "redis" \in FullKinds
  /\ "statement" \notin FullKinds /\ "tool" \notin FullKinds
  /\ "request" \notin FullKinds
  /\ "statement" \in Kind /\ "tool" \in Kind /\ "request" \in Kind
  /\ \A k \in FullKinds : k \in Kind
BY DEF FullKinds, Kind

LEMMA Results ==
  /\ "none" \in Outcome /\ "completed" \in Outcome /\ "failed" \in Outcome
  /\ "not_sent" \in Outcome /\ "outcome_unknown" \in Outcome
  /\ "manually_stopped" \in Outcome
  /\ \A x \in Outcome : x \in Reading
  /\ \A x \in RunMode : x \in Reading
  /\ \A x \in TicketStatus : x \in Reading
BY DEF Outcome, Reading

LEMMA Positions ==
  /\ 0 \in 0..N
  /\ \A x \in Rows : x \in 0..N /\ x + 1 \in 1..(N + 1)
  /\ \A x \in 1..(N + 1) : x > N \/ x \in Rows
BY ExecutionAssumption DEF Rows

LEMMA StartWF ==
  ASSUME NEW m, m.at \in {"prepare", "list"}
  PROVE  WellFormed(m) <=> m.kind \in FullKinds
BY DEF WellFormed, RowSteps

LEMMA NextWF ==
  ASSUME NEW m, m.at = "next"
  PROVE  WellFormed(m) <=> m.kind \in FullKinds /\ Decided(m) /\ m.cur \in 1..(N + 1)
BY DEF WellFormed, RowSteps

LEMMA EndWF ==
  ASSUME NEW m, m.at \in {"commit", "finish"}
  PROVE  WellFormed(m) <=> m.kind \in FullKinds /\ Decided(m)
BY DEF WellFormed, RowSteps

LEMMA RowWF ==
  ASSUME NEW m, m.at \in {"mark", "claim", "open", "register", "send", "await"}
  PROVE  WellFormed(m) <=> m.cur \in Rows /\ (m.kind \in FullKinds \/ m.kind =
                            "statement") /\ Decided(m)
BY DEF WellFormed, RowSteps

LEMMA SettleWF ==
  ASSUME NEW m, m.at = "settle"
  PROVE  WellFormed(m) <=> m.cur \in Rows /\ (m.kind \in FullKinds \/ m.kind =
                            "statement") /\ Decided(m) /\ m.res \in Outcome
BY DEF WellFormed, RowSteps

LEMMA RecordWF ==
  ASSUME NEW m, m.at = "record"
  PROVE  WellFormed(m) <=> m.cur \in Rows /\ (m.kind \in FullKinds \/ m.kind \in
                            {"statement", "tool"}) /\ Decided(m) /\ m.res \in Outcome
BY DEF WellFormed, RowSteps

LEMMA ManualWF ==
  ASSUME NEW m, m.at \in {"es_row", "es_claim", "es_queue", "es_fail"}
  PROVE  WellFormed(m) <=> m.cur \in Rows /\ m.kind = "statement"
BY DEF WellFormed, RowSteps, Decided, FullKinds

LEMMA CancelWF ==
  ASSUME NEW m, m.at \in {"ss_cancel", "ss_mark"}
  PROVE  WellFormed(m) <=> m.cur \in Rows /\ Decided(m)
BY DEF WellFormed, RowSteps

LEMMA RefreshWF ==
  ASSUME NEW m, m.at = "refresh"
  PROVE  WellFormed(m) <=> Returns(m) /\ Decided(m)
BY DEF WellFormed, RowSteps

LEMMA AggregateWF ==
  ASSUME NEW m, m.at = "aggregate"
  PROVE  WellFormed(m) <=> Returns(m) /\ Decided(m) /\ m.res \in TicketStatus
BY DEF WellFormed, RowSteps

LEMMA RequestWF ==
  ASSUME NEW m, m.at \in {"idle", "autostart", "stop"}
  PROVE  WellFormed(m) <=> Decided(m)
BY DEF WellFormed, RowSteps

LEMMA IdleType == Idle \in Proc /\ WellFormed(Idle)
<1>1. N + 1 \in Nat
  BY ExecutionAssumption
<1>2. NoRows \in [Rows -> RowStatus]
  BY DEF NoRows, RowStatus
<1>3. Idle \in Proc
  BY <1>1, <1>2, Steps, Results DEF Idle, Proc, Kind
<1>4. WellFormed(Idle)
  BY RequestWF DEF Idle, Decided, FullKinds
<1> QED
  BY <1>3, <1>4

LEMMA BecomeType ==
  ASSUME ProcInv, NEW p \in Procs, NEW m \in Proc, WellFormed(m), Become(p, m)
  PROVE  ProcInv'
BY DEF ProcInv, Become

LEMMA ProcReset ==
  ASSUME proc' = [q \in Procs |-> Idle]
  PROVE  ProcInv'
BY IdleType DEF ProcInv

LEMMA ProcUnchanged ==
  ASSUME ProcInv, proc' = proc
  PROVE  ProcInv'
BY DEF ProcInv

LEMMA AggregateType ==
  ASSUME NEW rw, NEW mode
  PROVE  AggregateTicketStatusFromCounts(rw, mode) \in TicketStatus
BY DEF AggregateTicketStatusFromCounts, TicketStatus

LEMMA RunnerKindType == \A dm : RunnerKind(dm) \in FullKinds
BY DEF RunnerKind, FullKinds

LEMMA HaltAtType == \A k : HaltAt(k) \in {"commit", "finish"}
BY DEF HaltAt

\* What the constructors of process records return.
LEMMA AtRec ==
  ASSUME NEW m \in Proc, NEW s \in Step
  PROVE  /\ At(m, s) \in Proc
         /\ At(m, s).at = s /\ At(m, s).kind = m.kind /\ At(m, s).cur = m.cur
         /\ At(m, s).final = m.final /\ At(m, s).res = m.res /\ At(m, s).ret = m.ret
BY DEF At, Proc

LEMMA FailRec ==
  ASSUME NEW m \in Proc, NEW s \in Step
  PROVE  /\ Fail(m, s) \in Proc
         /\ Fail(m, s).at = s /\ Fail(m, s).kind = m.kind /\ Fail(m, s).cur = m.cur
         /\ Fail(m, s).final = "failed" /\ Fail(m, s).res = m.res /\ Fail(m, s).ret = m.ret
BY Zenon DEF Fail, Proc

LEMMA GotRec ==
  ASSUME NEW m \in Proc, NEW s \in Step,
         NEW a \in Reading
  PROVE  /\ Got(m, s, a) \in Proc
         /\ Got(m, s, a).at = s /\ Got(m, s, a).kind = m.kind /\ Got(m, s, a).cur = m.cur
         /\ Got(m, s, a).final = m.final /\ Got(m, s, a).res = a /\ Got(m, s, a).ret = m.ret
BY DEF Got, Proc

LEMMA AdvanceRec ==
  ASSUME NEW m \in Proc, m.cur \in 0..N
  PROVE  /\ Advance(m) \in Proc
         /\ Advance(m).at = m.at /\ Advance(m).kind = m.kind /\ Advance(m).cur = m.cur + 1
         /\ Advance(m).final = m.final /\ Advance(m).res = m.res /\ Advance(m).ret = m.ret
BY ExecutionAssumption DEF Advance, Proc

LEMMA RefreshRec ==
  ASSUME NEW m \in Proc, NEW s \in Step
  PROVE  /\ Refresh(m, s) \in Proc
         /\ Refresh(m, s).at = "refresh" /\ Refresh(m, s).kind = m.kind
         /\ Refresh(m, s).cur = m.cur /\ Refresh(m, s).final = m.final
         /\ Refresh(m, s).res = m.res /\ Refresh(m, s).ret = s
BY Zenon DEF Refresh, Proc, Step

LEMMA BeginRec ==
  ASSUME NEW s \in Step, NEW k \in Kind, NEW r \in 0..N
  PROVE  /\ Begin(s, k, r) \in Proc
         /\ Begin(s, k, r).at = s /\ Begin(s, k, r).kind = k /\ Begin(s, k, r).cur = r
         /\ Begin(s, k, r).final = "none" /\ Begin(s, k, r).res = "none"
         /\ Begin(s, k, r).ret = "idle"
<1>1. r \in 0..(N + 1)
  BY ExecutionAssumption
<1>2. Begin(s, k, r) \in Proc
  BY <1>1, IdleType DEF Begin, Proc
<1> QED
  BY <1>2 DEF Begin, Idle

-----------------------------------------------------------------------------
(* The records a process goes on with, one lemma for each kind of step.    *)

LEMMA ToList ==
  ASSUME NEW m \in Proc, m.kind \in FullKinds
  PROVE  At(m, "list") \in Proc /\ WellFormed(At(m, "list"))
<1>1. "list" \in Step
  BY Steps
<1> QED
  BY <1>1, AtRec, StartWF

LEMMA ToPrepare ==
  ASSUME NEW d
  PROVE  /\ Begin("prepare", RunnerKind(d), 0) \in Proc
         /\ WellFormed(Begin("prepare", RunnerKind(d), 0))
<1>1. /\ "prepare" \in Step /\ 0 \in 0..N
     /\ RunnerKind(d) \in Kind /\ RunnerKind(d) \in FullKinds
  BY Steps, Positions, Kinds, RunnerKindType
<1> QED
  BY <1>1, BeginRec, StartWF

LEMMA ToEnd ==
  ASSUME NEW m \in Proc, NEW s \in {"commit", "finish"},
         m.kind \in FullKinds, Decided(m)
  PROVE  At(m, s) \in Proc /\ WellFormed(At(m, s))
<1>1. s \in Step
  BY Steps
<1>2. Decided(At(m, s))
  BY <1>1, AtRec DEF Decided
<1> QED
  BY <1>1, <1>2, AtRec, EndWF

LEMMA FailToEnd ==
  ASSUME NEW m \in Proc, NEW s \in {"commit", "finish"}, m.kind \in FullKinds
  PROVE  Fail(m, s) \in Proc /\ WellFormed(Fail(m, s))
<1>1. s \in Step
  BY Steps
<1>2. Decided(Fail(m, s))
  BY <1>1, FailRec DEF Decided
<1> QED
  BY <1>1, <1>2, FailRec, EndWF

LEMMA ToRow ==
  ASSUME NEW m \in Proc,
         NEW s \in {"mark", "claim", "open", "register", "send", "await"},
         m.cur \in Rows, m.kind \in FullKinds \/ m.kind = "statement", Decided(m)
  PROVE  At(m, s) \in Proc /\ WellFormed(At(m, s))
<1>1. s \in Step
  BY Steps
<1>2. Decided(At(m, s))
  BY <1>1, AtRec DEF Decided
<1> QED
  BY <1>1, <1>2, AtRec, RowWF

LEMMA ToSettle ==
  ASSUME NEW m \in Proc, NEW a \in Outcome,
         m.cur \in Rows, m.kind \in FullKinds \/ m.kind = "statement", Decided(m)
  PROVE  Got(m, "settle", a) \in Proc /\ WellFormed(Got(m, "settle", a))
<1>1. "settle" \in Step /\ a \in Reading
  BY Steps, Results
<1>2. Decided(Got(m, "settle", a))
  BY <1>1, GotRec DEF Decided
<1> QED
  BY <1>1, <1>2, GotRec, SettleWF

LEMMA ToRecord ==
  ASSUME NEW m \in Proc, NEW a \in Outcome, m.cur \in Rows, Decided(m),
         m.kind \in FullKinds \/ m.kind \in {"statement", "tool"}
  PROVE  Got(m, "record", a) \in Proc /\ WellFormed(Got(m, "record", a))
<1>1. "record" \in Step /\ a \in Reading
  BY Steps, Results
<1>2. Decided(Got(m, "record", a))
  BY <1>1, GotRec DEF Decided
<1> QED
  BY <1>1, <1>2, GotRec, RecordWF

LEMMA KeepToRecord ==
  ASSUME NEW m \in Proc, m.res \in Outcome,
         m.cur \in Rows, m.kind \in FullKinds \/ m.kind = "statement", Decided(m)
  PROVE  At(m, "record") \in Proc /\ WellFormed(At(m, "record"))
<1>1. "record" \in Step
  BY Steps
<1>2. Decided(At(m, "record"))
  BY <1>1, AtRec DEF Decided
<1> QED
  BY <1>1, <1>2, AtRec, RecordWF

LEMMA ToNext ==
  ASSUME NEW m \in Proc, m.cur \in Rows, m.kind \in FullKinds, Decided(m)
  PROVE  At(Advance(m), "next") \in Proc /\ WellFormed(At(Advance(m), "next"))
<1>1. "next" \in Step /\ m.cur \in 0..N /\ m.cur + 1 \in 1..(N + 1)
  BY Steps, Positions
<1>2. /\ Advance(m) \in Proc /\ Advance(m).kind = m.kind
     /\ Advance(m).cur = m.cur + 1 /\ Advance(m).final = m.final
  BY <1>1, AdvanceRec
<1>3. Decided(At(Advance(m), "next"))
  BY <1>1, <1>2, AtRec DEF Decided
<1> QED
  BY <1>1, <1>2, <1>3, AtRec, NextWF

LEMMA ToManual ==
  ASSUME NEW m \in Proc, NEW s \in {"es_row", "es_claim", "es_queue", "es_fail"},
         m.cur \in Rows, m.kind = "statement"
  PROVE  At(m, s) \in Proc /\ WellFormed(At(m, s))
<1>1. s \in Step
  BY Steps
<1> QED
  BY <1>1, AtRec, ManualWF

LEMMA ToCancel ==
  ASSUME NEW m \in Proc, m.cur \in Rows, Decided(m)
  PROVE  At(m, "ss_mark") \in Proc /\ WellFormed(At(m, "ss_mark"))
<1>1. "ss_mark" \in Step
  BY Steps
<1>2. Decided(At(m, "ss_mark"))
  BY <1>1, AtRec DEF Decided
<1> QED
  BY <1>1, <1>2, AtRec, CancelWF

LEMMA RefreshThenIdle ==
  ASSUME NEW m \in Proc, Decided(m)
  PROVE  Refresh(m, "idle") \in Proc /\ WellFormed(Refresh(m, "idle"))
<1>1. "idle" \in Step
  BY Steps
<1>2. Decided(Refresh(m, "idle"))
  BY <1>1, RefreshRec DEF Decided
<1>3. Returns(Refresh(m, "idle"))
  BY <1>1, RefreshRec DEF Returns
<1> QED
  BY <1>1, <1>2, <1>3, RefreshRec, RefreshWF

LEMMA RefreshThenOpen ==
  ASSUME NEW m \in Proc, m.cur \in Rows, m.kind = "redis", Decided(m)
  PROVE  Refresh(m, "open") \in Proc /\ WellFormed(Refresh(m, "open"))
<1>1. "open" \in Step
  BY Steps
<1>2. Decided(Refresh(m, "open"))
  BY <1>1, RefreshRec DEF Decided
<1>3. Returns(Refresh(m, "open"))
  BY <1>1, RefreshRec DEF Returns
<1> QED
  BY <1>1, <1>2, <1>3, RefreshRec, RefreshWF

LEMMA RefreshThenNext ==
  ASSUME NEW m \in Proc, m.cur \in Rows, m.kind \in FullKinds, Decided(m)
  PROVE  Refresh(Advance(m), "next") \in Proc /\ WellFormed(Refresh(Advance(m), "next"))
<1>1. "next" \in Step /\ m.cur \in 0..N /\ m.cur + 1 \in 1..(N + 1)
  BY Steps, Positions
<1>2. /\ Advance(m) \in Proc /\ Advance(m).kind = m.kind
     /\ Advance(m).cur = m.cur + 1 /\ Advance(m).final = m.final
  BY <1>1, AdvanceRec
<1>3. Decided(Refresh(Advance(m), "next"))
  BY <1>1, <1>2, RefreshRec DEF Decided
<1>4. Returns(Refresh(Advance(m), "next"))
  BY <1>1, <1>2, RefreshRec DEF Returns
<1> QED
  BY <1>1, <1>2, <1>3, <1>4, RefreshRec, RefreshWF

LEMMA RefreshThenFinish ==
  ASSUME NEW m \in Proc, m.kind \in FullKinds
  PROVE  /\ Refresh(Fail(m, "finish"), "finish") \in Proc
         /\ WellFormed(Refresh(Fail(m, "finish"), "finish"))
<1>1. "finish" \in Step
  BY Steps
<1>2. /\ Fail(m, "finish") \in Proc /\ Fail(m, "finish").kind = m.kind
     /\ Fail(m, "finish").final = "failed"
  BY <1>1, FailRec
<1>3. Decided(Refresh(Fail(m, "finish"), "finish"))
  BY <1>1, <1>2, RefreshRec DEF Decided
<1>4. Returns(Refresh(Fail(m, "finish"), "finish"))
  BY <1>1, <1>2, RefreshRec DEF Returns
<1> QED
  BY <1>1, <1>2, <1>3, <1>4, RefreshRec, RefreshWF

LEMMA ReturnWF ==
  ASSUME NEW m, NEW to, Returns(m), m.ret # "idle", Decided(to),
         to.at = m.ret, to.kind = m.kind, to.cur = m.cur
  PROVE  WellFormed(to)
<1>1. CASE m.ret = "next"
  <2>1. m.cur \in 1..(N + 1) /\ m.kind \in FullKinds
    BY <1>1 DEF Returns
  <2> QED
    BY <1>1, <2>1, NextWF
<1>2. CASE m.ret = "finish"
  <2>1. m.kind \in FullKinds
    BY <1>2 DEF Returns
  <2> QED
    BY <1>2, <2>1, EndWF
<1>3. CASE m.ret = "open"
  <2>1. m.cur \in Rows /\ m.kind \in FullKinds
    BY <1>3, Kinds DEF Returns
  <2> QED
    BY <1>3, <2>1, RowWF
<1> QED
  BY <1>1, <1>2, <1>3 DEF Returns

LEMMA RefreshReturns ==
  ASSUME NEW m \in Proc, Returns(m), m.ret # "idle", Decided(m)
  PROVE  /\ Got(Refresh(m, "idle"), m.ret, "none") \in Proc
         /\ WellFormed(Got(Refresh(m, "idle"), m.ret, "none"))
<1>1. "idle" \in Step /\ m.ret \in Step /\ "none" \in Reading
  BY Steps, Results DEF Proc
<1>2. /\ Refresh(m, "idle") \in Proc /\ Refresh(m, "idle").kind = m.kind
     /\ Refresh(m, "idle").cur = m.cur /\ Refresh(m, "idle").final = m.final
  BY <1>1, RefreshRec
<1>3. PICK to : to = Got(Refresh(m, "idle"), m.ret, "none")
  OBVIOUS
<1>4. /\ to \in Proc /\ to.at = m.ret /\ to.kind = m.kind
     /\ to.cur = m.cur /\ to.final = m.final
  BY <1>1, <1>2, <1>3, GotRec
<1>5. Decided(to)
  BY <1>4 DEF Decided
<1>6. WellFormed(to)
  BY <1>4, <1>5, ReturnWF
<1> QED
  BY <1>3, <1>4, <1>6

-----------------------------------------------------------------------------
(* The process records, action by action.                                  *)

LEMMA ExecuteProc ==
  ASSUME DataOK, ProcInv, NEW p \in Procs, Execute(p)
  PROVE  ProcInv'
<1>1. Become(p, Begin("prepare", RunnerKind(dmlMode'), 0))
  BY DEF Execute, StartExecution
<1>2. /\ Begin("prepare", RunnerKind(dmlMode'), 0) \in Proc
      /\ WellFormed(Begin("prepare", RunnerKind(dmlMode'), 0))
  BY ToPrepare
<1> QED
  BY <1>1, <1>2, IdleType, BecomeType

LEMMA RunSchedulerProc ==
  ASSUME DataOK, ProcInv, NEW p \in Procs, RunScheduler(p)
  PROVE  ProcInv'
<1>1. Become(p, Begin("prepare", RunnerKind(dmlMode'), 0))
  BY DEF RunScheduler, StartExecution
<1>2. /\ Begin("prepare", RunnerKind(dmlMode'), 0) \in Proc
      /\ WellFormed(Begin("prepare", RunnerKind(dmlMode'), 0))
  BY ToPrepare
<1> QED
  BY <1>1, <1>2, IdleType, BecomeType

LEMMA StartWorkflowAutoExecutionProc ==
  ASSUME DataOK, ProcInv, NEW p \in Procs, StartWorkflowAutoExecution(p)
  PROVE  ProcInv'
<1>1. \/ Become(p, Begin("prepare", RunnerKind(dmlMode'), 0))
      \/ Become(p, Idle)
  BY DEF StartWorkflowAutoExecution, StartExecution
<1>2. /\ Begin("prepare", RunnerKind(dmlMode'), 0) \in Proc
      /\ WellFormed(Begin("prepare", RunnerKind(dmlMode'), 0))
  BY ToPrepare
<1> QED
  BY <1>1, <1>2, IdleType, BecomeType

LEMMA PrepareRowsProc ==
  ASSUME DataOK, ProcInv, NEW p \in Procs, PrepareRows(p)
  PROVE  ProcInv'
<1> DEFINE me == proc[p]
<1>0. me \in Proc /\ WellFormed(me)
  BY DEF ProcInv
<1>1. me.at = "prepare"
  BY DEF PrepareRows
<1>2. me.kind \in FullKinds
  BY <1>0, <1>1, StartWF
<1>3. Become(p, At(me, "list"))
  BY DEF PrepareRows
<1>4. At(me, "list") \in Proc /\ WellFormed(At(me, "list"))
  BY <1>0, <1>2, ToList
<1> QED
  BY <1>3, <1>4, IdleType, BecomeType

LEMMA FinishStartFailureProc ==
  ASSUME DataOK, ProcInv, NEW p \in Procs, FinishStartFailure(p)
  PROVE  ProcInv'
<1>1. Become(p, Idle)
  BY DEF FinishStartFailure
<1> QED
  BY <1>1, IdleType, BecomeType

LEMMA ListExecutionsProc ==
  ASSUME DataOK, ProcInv, NEW p \in Procs, ListExecutions(p)
  PROVE  ProcInv'
<1> DEFINE me == proc[p]
<1>0. me \in Proc /\ WellFormed(me)
  BY DEF ProcInv
<1>1. me.at = "list"
  BY DEF ListExecutions
<1>2. me.kind \in FullKinds
  BY <1>0, <1>1, StartWF
<1> DEFINE first == [me EXCEPT !.at = "next", !.snap = row, !.cur = 1,
                               !.final = "completed"]
<1>3. Become(p, first)
  BY DEF ListExecutions
<1>4. "next" \in Step /\ row \in [Rows -> RowStatus] /\ 1 \in 0..(N + 1) /\ 1 \in 1..(N + 1)
  BY Steps, ExecutionAssumption DEF DataOK, RowOK
<1>5. first \in Proc
  BY <1>0, <1>4, Zenon DEF Proc
<1>6. first.at = "next" /\ first.kind = me.kind /\ first.cur = 1
      /\ first.final = "completed"
  BY <1>0 DEF Proc
<1> HIDE DEF first
<1>7. Decided(first)
  BY <1>6 DEF Decided
<1>8. WellFormed(first)
  BY <1>2, <1>4, <1>6, <1>7, NextWF
<1> QED
  BY <1>3, <1>5, <1>8, BecomeType

LEMMA NextStatementProc ==
  ASSUME DataOK, ProcInv, NEW p \in Procs, NextStatement(p)
  PROVE  ProcInv'
<1> DEFINE me == proc[p]
<1>0. me \in Proc /\ WellFormed(me)
  BY DEF ProcInv
<1>1. me.at = "next"
  BY DEF NextStatement
<1>2. me.kind \in FullKinds /\ Decided(me) /\ me.cur \in 1..(N + 1)
  BY <1>0, <1>1, NextWF
<1>3. \/ Become(p, At(me, HaltAt(me.kind)))
      \/ Become(p, Fail(me, HaltAt(me.kind)))
      \/ Become(p, Fail(me, "commit"))
      \/ Become(p, Idle)
      \/ me.cur \in Rows /\ Become(p, Advance(me))
      \/ me.cur \in Rows /\ Become(p, At(me, "mark"))
      \/ me.cur \in Rows /\ Become(p, At(me, "claim"))
  BY <1>2, Positions DEF NextStatement
<1>4. At(me, HaltAt(me.kind)) \in Proc /\ WellFormed(At(me, HaltAt(me.kind)))
  BY <1>0, <1>2, HaltAtType, ToEnd
<1>5. Fail(me, HaltAt(me.kind)) \in Proc /\ WellFormed(Fail(me, HaltAt(me.kind)))
  BY <1>0, <1>2, HaltAtType, FailToEnd
<1>6. Fail(me, "commit") \in Proc /\ WellFormed(Fail(me, "commit"))
  BY <1>0, <1>2, FailToEnd
<1>7. ASSUME me.cur \in Rows
      PROVE  Advance(me) \in Proc /\ WellFormed(Advance(me))
  <2>1. me.cur \in 0..N /\ me.cur + 1 \in 1..(N + 1)
    BY <1>7, Positions
  <2>2. /\ Advance(me) \in Proc /\ Advance(me).at = "next"
        /\ Advance(me).cur \in 1..(N + 1)
        /\ Advance(me).kind = me.kind /\ Advance(me).final = me.final
    BY <1>0, <1>1, <2>1, AdvanceRec
  <2>3. Decided(Advance(me))
    BY <1>2, <2>2 DEF Decided
  <2> QED
    BY <1>2, <2>2, <2>3, NextWF
<1>8. ASSUME me.cur \in Rows
      PROVE  At(me, "mark") \in Proc /\ WellFormed(At(me, "mark"))
  BY <1>0, <1>2, <1>8, ToRow
<1>9. ASSUME me.cur \in Rows
      PROVE  At(me, "claim") \in Proc /\ WellFormed(At(me, "claim"))
  BY <1>0, <1>2, <1>9, ToRow
<1> QED
  BY <1>3, <1>4, <1>5, <1>6, <1>7, <1>8, <1>9, IdleType, BecomeType

LEMMA CommitTxProc ==
  ASSUME DataOK, ProcInv, NEW p \in Procs, CommitTx(p)
  PROVE  ProcInv'
<1> DEFINE me == proc[p]
<1>0. me \in Proc /\ WellFormed(me)
  BY DEF ProcInv
<1>1. me.at = "commit"
  BY DEF CommitTx
<1>2. me.kind \in FullKinds /\ Decided(me)
  BY <1>0, <1>1, EndWF
<1>3. \/ Become(p, At(me, "finish"))
      \/ Become(p, Fail(me, "finish"))
  BY DEF CommitTx
<1>4. At(me, "finish") \in Proc /\ WellFormed(At(me, "finish"))
  BY <1>0, <1>2, ToEnd
<1>5. Fail(me, "finish") \in Proc /\ WellFormed(Fail(me, "finish"))
  BY <1>0, <1>2, FailToEnd
<1> QED
  BY <1>3, <1>4, <1>5, IdleType, BecomeType

LEMMA FinishTicketProc ==
  ASSUME DataOK, ProcInv, NEW p \in Procs, FinishTicket(p)
  PROVE  ProcInv'
<1>1. Become(p, Idle)
  BY DEF FinishTicket
<1> QED
  BY <1>1, IdleType, BecomeType

LEMMA MarkTicketExecutingProc ==
  ASSUME DataOK, ProcInv, NEW p \in Procs, MarkTicketExecuting(p)
  PROVE  ProcInv'
<1> DEFINE me == proc[p]
<1>0. me \in Proc /\ WellFormed(me)
  BY DEF ProcInv
<1>1. me.at = "mark"
  BY DEF MarkTicketExecuting
<1>2. me.cur \in Rows /\ (me.kind \in FullKinds \/ me.kind = "statement") /\ Decided(me)
  BY <1>0, <1>1, RowWF
<1>3. Become(p, At(me, "claim"))
  BY DEF MarkTicketExecuting
<1>4. At(me, "claim") \in Proc /\ WellFormed(At(me, "claim"))
  BY <1>0, <1>2, ToRow, Zenon
<1> QED
  BY <1>3, <1>4, IdleType, BecomeType

LEMMA MarkExecutionRunningIfPendingProc ==
  ASSUME DataOK, ProcInv, NEW p \in Procs, MarkExecutionRunningIfPending(p)
  PROVE  ProcInv'
<1> DEFINE me == proc[p]
<1>0. me \in Proc /\ WellFormed(me)
  BY DEF ProcInv
<1>1. me.at = "claim"
  BY DEF MarkExecutionRunningIfPending
<1>2. me.cur \in Rows /\ (me.kind \in FullKinds \/ me.kind = "statement") /\ Decided(me)
  <2>1. me.at \in {"mark", "claim", "open", "register", "send", "await"}
    BY <1>1
  <2> QED
    BY <1>0, <2>1, RowWF
<1>3. \/ me.kind = "redis" /\ Become(p, Refresh(me, "open"))
      \/ Become(p, At(me, "open"))
      \/ Become(p, Idle)
      \/ me.kind = "redis" /\ Become(p, At(Advance(me), "next"))
      \/ me.kind # "statement" /\ Become(p, Fail(me, HaltAt(me.kind)))
  BY Zenon DEF MarkExecutionRunningIfPending
<1>4. ASSUME me.kind = "redis"
      PROVE  Refresh(me, "open") \in Proc /\ WellFormed(Refresh(me, "open"))
  BY <1>0, <1>2, <1>4, RefreshThenOpen
<1>5. At(me, "open") \in Proc /\ WellFormed(At(me, "open"))
  BY <1>0, <1>2, ToRow
<1>6. ASSUME me.kind = "redis"
      PROVE  At(Advance(me), "next") \in Proc /\ WellFormed(At(Advance(me), "next"))
  BY <1>0, <1>2, <1>6, ToNext, Kinds
<1>7. ASSUME me.kind # "statement"
      PROVE  Fail(me, HaltAt(me.kind)) \in Proc /\ WellFormed(Fail(me, HaltAt(me.kind)))
  BY <1>0, <1>2, <1>7, HaltAtType, FailToEnd
<1> QED
  BY <1>3, <1>4, <1>5, <1>6, <1>7, IdleType, BecomeType, Zenon

LEMMA OpenConnectionProc ==
  ASSUME DataOK, ProcInv, NEW p \in Procs, OpenConnection(p)
  PROVE  ProcInv'
<1> DEFINE me == proc[p]
<1>0. me \in Proc /\ WellFormed(me)
  BY DEF ProcInv
<1>1. me.at = "open"
  BY DEF OpenConnection
<1>2. me.cur \in Rows /\ (me.kind \in FullKinds \/ me.kind = "statement") /\ Decided(me)
  BY <1>0, <1>1, RowWF
<1>3. \/ me.kind = "redis" /\ Become(p, Got(me, "record", "failed"))
      \/ Become(p, Got(me, "settle", "not_sent"))
      \/ Become(p, At(me, "register"))
  BY DEF OpenConnection
<1>4. ASSUME me.kind = "redis"
      PROVE  /\ Got(me, "record", "failed") \in Proc
             /\ WellFormed(Got(me, "record", "failed"))
  BY <1>0, <1>2, <1>4, ToRecord, Results
<1>5. Got(me, "settle", "not_sent") \in Proc /\ WellFormed(Got(me, "settle", "not_sent"))
  BY <1>0, <1>2, ToSettle, Results
<1>6. At(me, "register") \in Proc /\ WellFormed(At(me, "register"))
  BY <1>0, <1>2, ToRow
<1> QED
  BY <1>3, <1>4, <1>5, <1>6, IdleType, BecomeType

LEMMA RegisterQueryProc ==
  ASSUME DataOK, ProcInv, NEW p \in Procs, RegisterQuery(p)
  PROVE  ProcInv'
<1> DEFINE me == proc[p]
<1>0. me \in Proc /\ WellFormed(me)
  BY DEF ProcInv
<1>1. me.at = "register"
  BY DEF RegisterQuery
<1>2. me.cur \in Rows /\ (me.kind \in FullKinds \/ me.kind = "statement") /\ Decided(me)
  BY <1>0, <1>1, RowWF
<1>3. \/ me.kind = "redis" /\ Become(p, Got(me, "record", "manually_stopped"))
      \/ Become(p, Got(me, "settle", "not_sent"))
      \/ Become(p, At(me, "send"))
  BY DEF RegisterQuery
<1>4. ASSUME me.kind = "redis"
      PROVE  /\ Got(me, "record", "manually_stopped") \in Proc
             /\ WellFormed(Got(me, "record", "manually_stopped"))
  BY <1>0, <1>2, <1>4, ToRecord, Results
<1>5. Got(me, "settle", "not_sent") \in Proc /\ WellFormed(Got(me, "settle", "not_sent"))
  BY <1>0, <1>2, ToSettle, Results
<1>6. At(me, "send") \in Proc /\ WellFormed(At(me, "send"))
  BY <1>0, <1>2, ToRow
<1> QED
  BY <1>3, <1>4, <1>5, <1>6, IdleType, BecomeType

LEMMA SendStatementProc ==
  ASSUME DataOK, ProcInv, NEW p \in Procs, SendStatement(p)
  PROVE  ProcInv'
<1> DEFINE me == proc[p]
<1>0. me \in Proc /\ WellFormed(me)
  BY DEF ProcInv
<1>1. me.at = "send"
  BY DEF SendStatement
<1>2. me.cur \in Rows /\ (me.kind \in FullKinds \/ me.kind = "statement") /\ Decided(me)
  BY <1>0, <1>1, RowWF
<1>3. \/ Become(p, At(me, "await"))
      \/ Become(p, Got(me, "settle", "outcome_unknown"))
  BY DEF SendStatement
<1>4. At(me, "await") \in Proc /\ WellFormed(At(me, "await"))
  BY <1>0, <1>2, ToRow
<1>5. /\ Got(me, "settle", "outcome_unknown") \in Proc
      /\ WellFormed(Got(me, "settle", "outcome_unknown"))
  BY <1>0, <1>2, ToSettle, Results
<1> QED
  BY <1>3, <1>4, <1>5, IdleType, BecomeType

LEMMA ReceiveAnswerProc ==
  ASSUME DataOK, ProcInv, NEW p \in Procs, ReceiveAnswer(p)
  PROVE  ProcInv'
<1> DEFINE me == proc[p]
<1>0. me \in Proc /\ WellFormed(me)
  BY DEF ProcInv
<1>1. me.at = "await"
  BY DEF ReceiveAnswer
<1>2. me.cur \in Rows /\ (me.kind \in FullKinds \/ me.kind = "statement") /\ Decided(me)
  BY <1>0, <1>1, RowWF
<1>3. \/ Become(p, Got(me, "settle", "completed"))
      \/ Become(p, Got(me, "settle", "failed"))
      \/ Become(p, Got(me, "settle", "outcome_unknown"))
  BY DEF ReceiveAnswer
<1>4. /\ Got(me, "settle", "completed") \in Proc
      /\ WellFormed(Got(me, "settle", "completed"))
  BY <1>0, <1>2, ToSettle, Results
<1>5. Got(me, "settle", "failed") \in Proc /\ WellFormed(Got(me, "settle", "failed"))
  BY <1>0, <1>2, ToSettle, Results
<1>6. /\ Got(me, "settle", "outcome_unknown") \in Proc
      /\ WellFormed(Got(me, "settle", "outcome_unknown"))
  BY <1>0, <1>2, ToSettle, Results
<1> QED
  BY <1>3, <1>4, <1>5, <1>6, IdleType, BecomeType

LEMMA RereadExecutionProc ==
  ASSUME DataOK, ProcInv, NEW p \in Procs, RereadExecution(p)
  PROVE  ProcInv'
<1> DEFINE me == proc[p]
<1>0. me \in Proc /\ WellFormed(me)
  BY DEF ProcInv
<1>1. me.at = "settle"
  BY DEF RereadExecution
<1>2. me.cur \in Rows /\ (me.kind \in FullKinds \/ me.kind = "statement") /\ Decided(me) /\ me.res \in Outcome
  BY <1>0, <1>1, SettleWF, Zenon
<1>3. \/ Become(p, Refresh(me, "idle"))
      \/ me.kind \in FullKinds /\ Become(p, Fail(me, "commit"))
      \/ me.kind \in FullKinds /\ Become(p, Refresh(Fail(me, "finish"), "finish"))
      \/ Become(p, At(me, "record"))
  BY <1>2 DEF RereadExecution, AfterStatement
<1>4. Refresh(me, "idle") \in Proc /\ WellFormed(Refresh(me, "idle"))
  BY <1>0, <1>2, RefreshThenIdle
<1>5. ASSUME me.kind \in FullKinds
      PROVE  Fail(me, "commit") \in Proc /\ WellFormed(Fail(me, "commit"))
  BY <1>0, <1>2, <1>5, FailToEnd
<1>6. ASSUME me.kind \in FullKinds
      PROVE  /\ Refresh(Fail(me, "finish"), "finish") \in Proc
             /\ WellFormed(Refresh(Fail(me, "finish"), "finish"))
  BY <1>0, <1>2, <1>6, RefreshThenFinish
<1>7. At(me, "record") \in Proc /\ WellFormed(At(me, "record"))
  BY <1>0, <1>2, KeepToRecord
<1> QED
  BY <1>3, <1>4, <1>5, <1>6, <1>7, IdleType, BecomeType, Zenon

LEMMA RecordExecutionProc ==
  ASSUME DataOK, ProcInv, NEW p \in Procs, RecordExecution(p)
  PROVE  ProcInv'
<1> DEFINE me == proc[p]
<1>0. me \in Proc /\ WellFormed(me)
  BY DEF ProcInv
<1>1. me.at = "record"
  BY DEF RecordExecution
<1>2. /\ me.cur \in Rows /\ (me.kind \in FullKinds \/ me.kind \in {"statement", "tool"})
      /\ Decided(me) /\ me.res \in Outcome
  BY <1>0, <1>1, RecordWF, Zenon
<1>3. \/ Become(p, Refresh(me, "idle"))
      \/ me.kind \in FullKinds /\ Become(p, At(Advance(me), "next"))
      \/ me.kind \in FullKinds /\ Become(p, Refresh(Advance(me), "next"))
      \/ me.kind \in FullKinds /\ Become(p, Fail(me, "commit"))
      \/ me.kind \in FullKinds /\ Become(p, Refresh(Fail(me, "finish"), "finish"))
      \/ Become(p, Begin("prepare", RunnerKind(dmlMode), 0))
  BY <1>2, Zenon DEF RecordExecution, AfterStatement
<1>4. Refresh(me, "idle") \in Proc /\ WellFormed(Refresh(me, "idle"))
  BY <1>0, <1>2, RefreshThenIdle
<1>5. ASSUME me.kind \in FullKinds
      PROVE  At(Advance(me), "next") \in Proc /\ WellFormed(At(Advance(me), "next"))
  BY <1>0, <1>2, <1>5, ToNext
<1>6. ASSUME me.kind \in FullKinds
      PROVE  /\ Refresh(Advance(me), "next") \in Proc
             /\ WellFormed(Refresh(Advance(me), "next"))
  BY <1>0, <1>2, <1>6, RefreshThenNext
<1>7. ASSUME me.kind \in FullKinds
      PROVE  Fail(me, "commit") \in Proc /\ WellFormed(Fail(me, "commit"))
  BY <1>0, <1>2, <1>7, FailToEnd
<1>8. ASSUME me.kind \in FullKinds
      PROVE  /\ Refresh(Fail(me, "finish"), "finish") \in Proc
             /\ WellFormed(Refresh(Fail(me, "finish"), "finish"))
  BY <1>0, <1>2, <1>8, RefreshThenFinish
<1>9. /\ Begin("prepare", RunnerKind(dmlMode), 0) \in Proc
      /\ WellFormed(Begin("prepare", RunnerKind(dmlMode), 0))
  BY <1>0, <1>2, ToPrepare
<1> QED
  BY <1>3, <1>4, <1>5, <1>6, <1>7, <1>8, <1>9, IdleType, BecomeType, Zenon

LEMMA RefreshReadProc ==
  ASSUME DataOK, ProcInv, NEW p \in Procs, RefreshRead(p)
  PROVE  ProcInv'
<1> DEFINE me == proc[p]
<1>0. me \in Proc /\ WellFormed(me)
  BY DEF ProcInv
<1>1. me.at = "refresh"
  BY DEF RefreshRead
<1>2. Returns(me) /\ Decided(me)
  BY <1>0, <1>1, RefreshWF
<1> DEFINE agg == AggregateTicketStatusFromCounts(row, runMode)
           read == Got(me, "aggregate", agg)
<1>3. Become(p, read)
  BY DEF RefreshRead
<1>4. "aggregate" \in Step /\ agg \in TicketStatus /\ agg \in Reading
  BY Steps, AggregateType, Results, Zenon
<1> HIDE DEF agg
<1>5. /\ read \in Proc /\ read.at = "aggregate" /\ read.res = agg /\ read.kind = me.kind
      /\ read.cur = me.cur /\ read.final = me.final /\ read.ret = me.ret
  BY <1>0, <1>4, GotRec
<1> HIDE DEF read
<1>6. Decided(read)
  BY <1>2, <1>5, Zenon DEF Decided
<1>7. Returns(read)
  BY <1>2, <1>5 DEF Returns
<1>8. WellFormed(read)
  BY <1>4, <1>5, <1>6, <1>7, AggregateWF
<1> QED
  BY <1>3, <1>5, <1>8, BecomeType, Zenon

LEMMA SetExecutionAggregateStatusProc ==
  ASSUME DataOK, ProcInv, NEW p \in Procs, SetExecutionAggregateStatus(p)
  PROVE  ProcInv'
<1> DEFINE me == proc[p]
<1>0. me \in Proc /\ WellFormed(me)
  BY DEF ProcInv
<1>1. me.at = "aggregate"
  BY DEF SetExecutionAggregateStatus
<1>2. Returns(me) /\ Decided(me) /\ me.res \in TicketStatus
  BY <1>0, <1>1, AggregateWF
<1> DEFINE back == Got(Refresh(me, "idle"), me.ret, "none")
<1>3. Become(p, Idle) \/ (me.ret # "idle" /\ Become(p, back))
  BY Zenon DEF SetExecutionAggregateStatus
<1>4. ASSUME me.ret # "idle" PROVE back \in Proc /\ WellFormed(back)
  BY <1>0, <1>2, <1>4, RefreshReturns, Zenon
<1> QED
  BY <1>3, <1>4, IdleType, BecomeType

LEMMA RecoverTicketExecutionPanicProc ==
  ASSUME DataOK, ProcInv, NEW p \in Procs, RecoverTicketExecutionPanic(p)
  PROVE  ProcInv'
<1> DEFINE me == proc[p]
<1>0. me \in Proc /\ WellFormed(me)
  BY DEF ProcInv
<1>1. me.at = "await"
  BY Zenon DEF RecoverTicketExecutionPanic
<1>2. me.cur \in Rows /\ (me.kind \in FullKinds \/ me.kind = "statement") /\ Decided(me)
  BY <1>0, <1>1, RowWF
<1>3. \/ Become(p, Refresh(me, "idle"))
      \/ me.kind # "statement" /\ Become(p, Fail(me, "finish"))
  BY DEF RecoverTicketExecutionPanic
<1>4. Refresh(me, "idle") \in Proc /\ WellFormed(Refresh(me, "idle"))
  BY <1>0, <1>2, RefreshThenIdle
<1>5. ASSUME me.kind # "statement"
      PROVE  Fail(me, "finish") \in Proc /\ WellFormed(Fail(me, "finish"))
  BY <1>0, <1>2, <1>5, FailToEnd
<1> QED
  BY <1>3, <1>4, <1>5, IdleType, BecomeType, Zenon

LEMMA RequirePendingRowProc ==
  ASSUME DataOK, ProcInv, NEW p \in Procs, RequirePendingRow(p)
  PROVE  ProcInv'
<1> DEFINE me == proc[p]
<1>0. me \in Proc /\ WellFormed(me)
  BY DEF ProcInv
<1>1. me.at = "es_row"
  BY DEF RequirePendingRow
<1>2. me.cur \in Rows /\ me.kind = "statement"
  BY <1>0, <1>1, ManualWF
<1>3. \/ Become(p, At(me, "es_claim"))
      \/ Become(p, Idle)
  BY DEF RequirePendingRow
<1>4. At(me, "es_claim") \in Proc /\ WellFormed(At(me, "es_claim"))
  BY <1>0, <1>2, ToManual
<1> QED
  BY <1>3, <1>4, IdleType, BecomeType

LEMMA ClaimManualStatementExecutionProc ==
  ASSUME DataOK, ProcInv, NEW p \in Procs, ClaimManualStatementExecution(p)
  PROVE  ProcInv'
<1> DEFINE me == proc[p]
<1>0. me \in Proc /\ WellFormed(me)
  BY DEF ProcInv
<1>1. me.at = "es_claim"
  BY DEF ClaimManualStatementExecution
<1>2. me.cur \in Rows /\ me.kind = "statement"
  BY <1>0, <1>1, ManualWF
<1>3. \/ Become(p, At(me, "mark"))
      \/ Become(p, At(me, "es_queue"))
      \/ Become(p, Idle)
  BY DEF ClaimManualStatementExecution
<1>4. At(me, "mark") \in Proc /\ WellFormed(At(me, "mark"))
  BY <1>0, <1>2, ToRow, Kinds DEF Decided
<1>5. At(me, "es_queue") \in Proc /\ WellFormed(At(me, "es_queue"))
  BY <1>0, <1>2, ToManual
<1> QED
  BY <1>3, <1>4, <1>5, IdleType, BecomeType, Zenon

LEMMA QueueOnlineDDLProc ==
  ASSUME DataOK, ProcInv, NEW p \in Procs, QueueOnlineDDL(p)
  PROVE  ProcInv'
<1> DEFINE me == proc[p]
<1>0. me \in Proc /\ WellFormed(me)
  BY DEF ProcInv
<1>1. me.at = "es_queue"
  BY Zenon DEF QueueOnlineDDL
<1>2. me.cur \in Rows /\ me.kind = "statement"
  <2>1. me.at \in {"es_row", "es_claim", "es_queue", "es_fail"}
    BY <1>1
  <2> QED
    BY <1>0, <2>1, ManualWF
<1>3. \/ Become(p, Idle)
      \/ Become(p, At(me, "es_fail"))
  BY DEF QueueOnlineDDL
<1>4. At(me, "es_fail") \in Proc /\ WellFormed(At(me, "es_fail"))
  BY <1>0, <1>2, ToManual
<1> QED
  BY <1>3, <1>4, IdleType, BecomeType, Zenon

LEMMA MarkQueueFailureProc ==
  ASSUME DataOK, ProcInv, NEW p \in Procs, MarkQueueFailure(p)
  PROVE  ProcInv'
<1> DEFINE me == proc[p]
<1>0. me \in Proc /\ WellFormed(me)
  BY DEF ProcInv
<1>1. me.at = "es_fail"
  BY DEF MarkQueueFailure
<1>2. me.cur \in Rows /\ me.kind = "statement"
  BY <1>0, <1>1, ManualWF
<1>3. Become(p, Refresh(me, "idle"))
  BY DEF MarkQueueFailure
<1>4. Refresh(me, "idle") \in Proc /\ WellFormed(Refresh(me, "idle"))
  BY <1>0, <1>2, RefreshThenIdle, Kinds DEF Decided
<1> QED
  BY <1>3, <1>4, IdleType, BecomeType

LEMMA StopProc ==
  ASSUME DataOK, ProcInv, NEW p \in Procs, Stop(p)
  PROVE  ProcInv'
<1> DEFINE fresh == Begin("stop", "request", 0)
           asked == Got(fresh, "stop", runMode)
<1>1. Become(p, asked)
  BY DEF Stop
<1>2. "stop" \in Step /\ "request" \in Kind /\ 0 \in 0..N /\ runMode \in Reading
  BY Steps, Kinds, Positions, Results DEF DataOK, TicketOK
<1>3. fresh \in Proc /\ fresh.kind = "request"
  BY <1>2, BeginRec
<1> HIDE DEF fresh
<1>4. asked \in Proc /\ asked.at = "stop" /\ asked.kind = "request"
  BY <1>2, <1>3, GotRec
<1> HIDE DEF asked
<1>5. Decided(asked)
  BY <1>4, Kinds DEF Decided
<1>6. WellFormed(asked)
  <2>1. asked.at \in {"idle", "autostart", "stop"}
    BY <1>4
  <2> QED
    BY <1>5, <2>1, RequestWF
<1> QED
  BY <1>1, <1>4, <1>6, BecomeType

LEMMA StopWriteProc ==
  ASSUME DataOK, ProcInv, NEW p \in Procs, StopWrite(p)
  PROVE  ProcInv'
<1>1. Become(p, Idle)
  BY DEF StopWrite
<1> QED
  BY <1>1, IdleType, BecomeType

LEMMA CancelAnyOrPendingProc ==
  ASSUME DataOK, ProcInv, NEW p \in Procs, CancelAnyOrPending(p)
  PROVE  ProcInv'
<1> DEFINE me == proc[p]
<1>0. me \in Proc /\ WellFormed(me)
  BY DEF ProcInv
<1>1. me.at = "ss_cancel"
  BY DEF CancelAnyOrPending
<1>2. me.cur \in Rows /\ Decided(me)
  BY <1>0, <1>1, CancelWF
<1>3. \/ Become(p, At(me, "ss_mark"))
      \/ Become(p, Idle)
  BY DEF CancelAnyOrPending
<1>4. At(me, "ss_mark") \in Proc /\ WellFormed(At(me, "ss_mark"))
  BY <1>0, <1>2, ToCancel
<1> QED
  BY <1>3, <1>4, IdleType, BecomeType

LEMMA MarkExecutionStoppedProc ==
  ASSUME DataOK, ProcInv, NEW p \in Procs, MarkExecutionStopped(p)
  PROVE  ProcInv'
<1> DEFINE me == proc[p]
<1>0. me \in Proc /\ WellFormed(me)
  BY DEF ProcInv
<1>1. me.at = "ss_mark"
  BY DEF MarkExecutionStopped
<1>2. me.cur \in Rows /\ Decided(me)
  BY <1>0, <1>1, CancelWF
<1>3. Become(p, Refresh(me, "idle"))
  BY DEF MarkExecutionStopped
<1>4. Refresh(me, "idle") \in Proc /\ WellFormed(Refresh(me, "idle"))
  BY <1>0, <1>2, RefreshThenIdle
<1> QED
  BY <1>3, <1>4, IdleType, BecomeType

LEMMA ExecuteStatementProc ==
  ASSUME DataOK, ProcInv, NEW p \in Procs, NEW r \in Rows, ExecuteStatement(p, r)
  PROVE  ProcInv'
<1> DEFINE fresh == Begin("es_row", "statement", r)
<1>1. Become(p, fresh)
  BY DEF ExecuteStatement
<1>2. "es_row" \in Step /\ "statement" \in Kind /\ r \in 0..N
  BY Steps, Kinds, Positions
<1>3. /\ fresh \in Proc /\ fresh.at = "es_row" /\ fresh.kind = "statement" /\ fresh.cur = r
      /\ fresh.ret = "idle"
  BY <1>2, BeginRec
<1> HIDE DEF fresh
<1>4. WellFormed(fresh)
  BY <1>3, ManualWF
<1> QED
  BY <1>1, <1>3, <1>4, BecomeType

LEMMA StopStatementProc ==
  ASSUME DataOK, ProcInv, NEW p \in Procs, NEW r \in Rows, StopStatement(p, r)
  PROVE  ProcInv'
<1> DEFINE fresh == Begin("ss_cancel", "request", r)
<1>1. Become(p, fresh)
  BY DEF StopStatement
<1>2. "ss_cancel" \in Step /\ "request" \in Kind /\ r \in 0..N
  BY Steps, Kinds, Positions
<1>3. /\ fresh \in Proc /\ fresh.at = "ss_cancel" /\ fresh.kind = "request" /\ fresh.cur = r
      /\ fresh.ret = "idle"
  BY <1>2, BeginRec
<1> HIDE DEF fresh
<1>4. Decided(fresh)
  BY <1>3, Kinds DEF Decided
<1>5. WellFormed(fresh)
  BY <1>3, <1>4, CancelWF
<1> QED
  BY <1>1, <1>3, <1>5, BecomeType

LEMMA FinishToolRunProc ==
  ASSUME DataOK, ProcInv, NEW p \in Procs, NEW r \in Rows, FinishToolRun(p, r)
  PROVE  ProcInv'
<1> DEFINE fresh == Begin("record", "tool", r)
<1>1. \E a \in {"completed", "failed"} : Become(p, Got(fresh, "record", a))
  BY DEF FinishToolRun
<1>2. "record" \in Step /\ "tool" \in Kind /\ r \in 0..N
  BY Steps, Kinds, Positions
<1>3. fresh \in Proc /\ fresh.kind = "tool" /\ fresh.cur = r
  BY <1>2, BeginRec
<1> HIDE DEF fresh
<1>4. Decided(fresh)
  BY <1>3, Kinds DEF Decided
<1>5. \A a \in Outcome : Got(fresh, "record", a) \in Proc
                        /\ WellFormed(Got(fresh, "record", a))
  BY <1>3, <1>4, ToRecord
<1> QED
  BY <1>1, <1>5, Results, BecomeType

LEMMA CancelActiveExecutionsForShutdownProc ==
  ASSUME DataOK, ProcInv, NEW p \in Procs, NEW r \in Rows, CancelActiveExecutionsForShutdown(p, r)
  PROVE  ProcInv'
<1> DEFINE fresh == Begin("refresh", "request", 0)
<1>1. Become(p, fresh)
  BY DEF CancelActiveExecutionsForShutdown
<1>2. "refresh" \in Step /\ "request" \in Kind /\ 0 \in 0..N
  BY Steps, Kinds, Positions
<1>3. /\ fresh \in Proc /\ fresh.at = "refresh" /\ fresh.kind = "request" /\ fresh.cur = 0
      /\ fresh.ret = "idle"
  BY <1>2, BeginRec
<1> HIDE DEF fresh
<1>4. Decided(fresh)
  BY <1>3, Kinds DEF Decided
<1>5. Returns(fresh)
  BY <1>3, Kinds DEF Returns
<1>6. WellFormed(fresh)
  BY <1>3, <1>4, <1>5, RefreshWF
<1> QED
  BY <1>1, <1>3, <1>6, BecomeType

\* Every step of a goroutine or request leaves all process records well formed.
LEMMA ProcStep ==
  ASSUME DataOK, ProcInv, NEW p \in Procs, Runner(p) \/ Execute(p) \/ RunScheduler(p)
           \/ StartWorkflowAutoExecution(p) \/ Stop(p)
           \/ \E r \in Rows : \/ ExecuteStatement(p, r) \/ StopStatement(p, r)
                              \/ FinishToolRun(p, r)
                              \/ CancelActiveExecutionsForShutdown(p, r)
  PROVE  ProcInv'
<1>1. ASSUME Runner(p) PROVE ProcInv'
  BY <1>1, PrepareRowsProc, FinishStartFailureProc, ListExecutionsProc,
     NextStatementProc, CommitTxProc, FinishTicketProc, MarkTicketExecutingProc,
     MarkExecutionRunningIfPendingProc, OpenConnectionProc, RegisterQueryProc,
     SendStatementProc, ReceiveAnswerProc, RereadExecutionProc, RecordExecutionProc,
     RefreshReadProc, SetExecutionAggregateStatusProc, RecoverTicketExecutionPanicProc,
     RequirePendingRowProc, ClaimManualStatementExecutionProc, QueueOnlineDDLProc,
     MarkQueueFailureProc, StopWriteProc, CancelAnyOrPendingProc,
     MarkExecutionStoppedProc DEF Runner
<1> QED
  BY <1>1, ExecuteProc, RunSchedulerProc, StartWorkflowAutoExecutionProc, StopProc,
     ExecuteStatementProc, StopStatementProc, FinishToolRunProc,
     CancelActiveExecutionsForShutdownProc, Zenon

-----------------------------------------------------------------------------
(* Everything else, action by action.                                      *)

\* A group of variables that a step leaves alone stays well typed.
LEMMA SameData ==
  ASSUME DataOK
  PROVE  /\ UNCHANGED ticketVars => TicketOK'
         /\ UNCHANGED rowVars => RowOK'
         /\ UNCHANGED memVars => MemOK'
         /\ UNCHANGED dbVars => DbOK'
         /\ UNCHANGED histVars => HistOK'
<1>1. UNCHANGED ticketVars => TicketOK'
  BY DEF DataOK, TicketOK, ticketVars
<1>2. UNCHANGED rowVars => RowOK'
  BY DEF DataOK, RowOK, rowVars
<1>3. UNCHANGED memVars => MemOK'
  BY DEF DataOK, MemOK, memVars
<1>4. UNCHANGED dbVars => DbOK'
  BY DEF DataOK, DbOK, dbVars
<1>5. UNCHANGED histVars => HistOK'
  BY DEF DataOK, HistOK, histVars
<1> QED
  BY <1>1, <1>2, <1>3, <1>4, <1>5

LEMMA StartExecutionData ==
  ASSUME DataOK, NEW p \in Procs, NEW mode \in RunMode, NEW dml \in DMLMode,
         StartExecution(p, mode, dml)
  PROVE  DataOK'
<1>1. UNCHANGED <<rowVars, memVars, dbVars>>
  BY DEF StartExecution
<1>2. "executing" \in TicketStatus
  BY DEF TicketStatus
<1>3. TicketOK'
  BY <1>2 DEF StartExecution, DataOK, TicketOK
<1>4. HistOK'
  BY Zenon DEF StartExecution, DataOK, HistOK
<1> QED
  BY <1>1, <1>3, <1>4, SameData DEF DataOK

LEMMA Modes ==
  /\ "batch" \in RunMode /\ "whole_ticket" \in RunMode /\ "workflow_auto" \in RunMode
  /\ "none" \in DMLMode /\ "per_statement" \in DMLMode /\ "whole_ticket" \in DMLMode
BY DEF RunMode, DMLMode

LEMMA ExecuteData ==
  ASSUME DataOK, NEW p \in Procs, Execute(p)
  PROVE  DataOK'
BY Modes, StartExecutionData DEF Execute

LEMMA RunSchedulerData ==
  ASSUME DataOK, NEW p \in Procs, RunScheduler(p)
  PROVE  DataOK'
BY Modes, StartExecutionData DEF RunScheduler

LEMMA StartWorkflowAutoExecutionData ==
  ASSUME DataOK, NEW p \in Procs, StartWorkflowAutoExecution(p)
  PROVE  DataOK'
<1>1. CASE StartExecution(p, "workflow_auto", "none")
  BY <1>1, Modes, StartExecutionData
<1>2. CASE UNCHANGED <<ticketVars, rowVars, memVars, dbVars, histVars>>
  BY <1>2, SameData DEF DataOK
<1> QED
  BY <1>1, <1>2 DEF StartWorkflowAutoExecution

LEMMA PrepareRowsData ==
  ASSUME DataOK, NEW p \in Procs, PrepareRows(p)
  PROVE  DataOK'
<1>1. UNCHANGED <<ticketVars, memVars, dbVars, histVars>>
  BY DEF PrepareRows
<1>2. RowOK'
  BY DEF PrepareRows, EnsureExecutions, RowStatus, DataOK, RowOK
<1> QED
  BY <1>1, <1>2, SameData DEF DataOK

LEMMA FinishStartFailureData ==
  ASSUME DataOK, NEW p \in Procs, FinishStartFailure(p)
  PROVE  DataOK'
<1>1. UNCHANGED <<rowVars, memVars, dbVars, histVars>>
  BY DEF FinishStartFailure
<1>2. TicketOK'
  BY DEF FinishStartFailure, TicketStatus, DataOK, TicketOK
<1> QED
  BY <1>1, <1>2, SameData DEF DataOK

LEMMA ListExecutionsData ==
  ASSUME DataOK, NEW p \in Procs, ListExecutions(p)
  PROVE  DataOK'
<1>1. UNCHANGED <<ticketVars, rowVars, memVars, dbVars, histVars>>
  BY Zenon DEF ListExecutions
<1> QED
  BY <1>1, SameData DEF DataOK

LEMMA NextStatementData ==
  ASSUME DataOK, NEW p \in Procs, NextStatement(p)
  PROVE  DataOK'
<1>1. UNCHANGED <<ticketVars, rowVars, memVars, dbVars, histVars>>
  BY DEF NextStatement
<1> QED
  BY <1>1, SameData DEF DataOK

LEMMA CommitTxData ==
  ASSUME DataOK, NEW p \in Procs, CommitTx(p)
  PROVE  DataOK'
<1>1. UNCHANGED <<ticketVars, rowVars, memVars, histVars>>
  BY Zenon DEF CommitTx
<1>2. DbOK'
  BY DEF CommitTx, DataOK, DbOK
<1> QED
  BY <1>1, <1>2, SameData, Zenon DEF DataOK

LEMMA FinishTicketData ==
  ASSUME DataOK, ProcInv, NEW p \in Procs, FinishTicket(p)
  PROVE  DataOK'
<1>0. proc[p] \in Proc /\ WellFormed(proc[p])
  BY Zenon DEF ProcInv
<1>1. proc[p].final \in {"completed", "failed"}
  <2>1. proc[p].at = "finish"
    BY Zenon DEF FinishTicket
  <2>2. proc[p].at \in {"commit", "finish"}
    BY <2>1
  <2>3. proc[p].final # "none"
    BY <1>0, <2>2, EndWF DEF Decided
  <2> QED
    BY <1>0, <2>3 DEF Proc
<1>2. UNCHANGED <<rowVars, memVars, dbVars, histVars>>
  BY Zenon DEF FinishTicket
<1>3. TicketOK'
  BY <1>1 DEF FinishTicket, TicketStatus, DataOK, TicketOK
<1> QED
  BY <1>2, <1>3, SameData DEF DataOK

LEMMA MarkTicketExecutingData ==
  ASSUME DataOK, NEW p \in Procs, MarkTicketExecuting(p)
  PROVE  DataOK'
<1>1. UNCHANGED <<rowVars, memVars, dbVars, histVars>>
  BY DEF MarkTicketExecuting
<1>2. TicketOK'
  BY Zenon DEF MarkTicketExecuting, TicketStatus, RunMode, DataOK, TicketOK
<1> QED
  BY <1>1, <1>2, SameData DEF DataOK

LEMMA MarkExecutionRunningIfPendingData ==
  ASSUME DataOK, NEW p \in Procs, MarkExecutionRunningIfPending(p)
  PROVE  DataOK'
<1>1. UNCHANGED <<ticketVars, memVars, dbVars, histVars>>
  BY Zenon DEF MarkExecutionRunningIfPending
<1>2. RowOK'
  BY Results DEF MarkExecutionRunningIfPending, RowStatus, DataOK, RowOK
<1> QED
  BY <1>1, <1>2, SameData DEF DataOK

LEMMA OpenConnectionData ==
  ASSUME DataOK, NEW p \in Procs, OpenConnection(p)
  PROVE  DataOK'
<1>1. UNCHANGED <<ticketVars, memVars, dbVars, histVars>>
  BY Zenon DEF OpenConnection
<1>2. RowOK'
  BY DEF OpenConnection, Outcome, DataOK, RowOK
<1> QED
  BY <1>1, <1>2, SameData DEF DataOK

LEMMA RegisterQueryData ==
  ASSUME DataOK, ProcInv, NEW p \in Procs, RegisterQuery(p)
  PROVE  DataOK'
<1>0. proc[p] \in Proc /\ WellFormed(proc[p])
  BY DEF ProcInv
<1>1. proc[p].cur \in Rows
  <2>1. proc[p].at = "register"
    BY Zenon DEF RegisterQuery
  <2>2. proc[p].at \in {"mark", "claim", "open", "register", "send", "await"}
    BY <2>1
  <2> QED
    BY <1>0, <2>2, RowWF
<1>2. UNCHANGED <<ticketVars, rowVars, dbVars, histVars>>
  BY Zenon DEF RegisterQuery
<1>3. MemOK'
  BY <1>1 DEF RegisterQuery, DataOK, MemOK
<1> QED
  BY <1>2, <1>3, SameData, Zenon DEF DataOK

LEMMA SendStatementData ==
  ASSUME DataOK, NEW p \in Procs, SendStatement(p)
  PROVE  DataOK'
<1>1. UNCHANGED <<ticketVars, rowVars, histVars>>
  BY Zenon DEF SendStatement
<1>2. MemOK'
  BY Zenon DEF SendStatement, DataOK, MemOK
<1>3. DbOK'
  BY DEF SendStatement, DataOK, DbOK
<1> QED
  BY <1>1, <1>2, <1>3, SameData, Zenon DEF DataOK

LEMMA ReceiveAnswerData ==
  ASSUME DataOK, NEW p \in Procs, ReceiveAnswer(p)
  PROVE  DataOK'
<1>1. UNCHANGED <<ticketVars, rowVars, histVars>>
  BY Zenon DEF ReceiveAnswer
<1>2. MemOK'
  BY Zenon DEF ReceiveAnswer, DataOK, MemOK
<1>3. DbOK'
  BY Zenon DEF ReceiveAnswer, EffectOf, DataOK, DbOK
<1> QED
  BY <1>1, <1>2, <1>3, SameData DEF DataOK

LEMMA RereadExecutionData ==
  ASSUME DataOK, NEW p \in Procs, RereadExecution(p)
  PROVE  DataOK'
<1>1. UNCHANGED <<ticketVars, rowVars, memVars, dbVars, histVars>>
  BY Zenon DEF RereadExecution
<1> QED
  BY <1>1, SameData DEF DataOK

LEMMA RecordExecutionData ==
  ASSUME DataOK, ProcInv, NEW p \in Procs, RecordExecution(p)
  PROVE  DataOK'
<1>0. proc[p] \in Proc /\ WellFormed(proc[p])
  BY DEF ProcInv
<1>1. proc[p].res \in Outcome
  BY <1>0, RecordWF DEF RecordExecution
<1>2. UNCHANGED <<ticketVars, memVars, dbVars, histVars>>
  BY Zenon DEF RecordExecution
<1>3. RowOK'
  BY <1>1, Results DEF RecordExecution, RowOf, RowStatus, DataOK, RowOK
<1> QED
  BY <1>2, <1>3, SameData, Zenon DEF DataOK

LEMMA RefreshReadData ==
  ASSUME DataOK, NEW p \in Procs, RefreshRead(p)
  PROVE  DataOK'
<1>1. UNCHANGED <<ticketVars, rowVars, memVars, dbVars, histVars>>
  BY Zenon DEF RefreshRead
<1> QED
  BY <1>1, SameData DEF DataOK

LEMMA SetExecutionAggregateStatusData ==
  ASSUME DataOK, ProcInv, NEW p \in Procs, SetExecutionAggregateStatus(p)
  PROVE  DataOK'
<1>0. proc[p] \in Proc /\ WellFormed(proc[p])
  BY DEF ProcInv
<1>1. proc[p].res \in TicketStatus
  BY <1>0, AggregateWF, Zenon DEF SetExecutionAggregateStatus
<1>2. UNCHANGED <<rowVars, memVars, dbVars, histVars>>
  BY Zenon DEF SetExecutionAggregateStatus
<1>3. TicketOK'
  BY <1>1 DEF SetExecutionAggregateStatus, DataOK, TicketOK
<1> QED
  BY <1>2, <1>3, SameData DEF DataOK

LEMMA RecoverTicketExecutionPanicData ==
  ASSUME DataOK, NEW p \in Procs, RecoverTicketExecutionPanic(p)
  PROVE  DataOK'
<1>1. UNCHANGED <<ticketVars, histVars>>
  BY Zenon DEF RecoverTicketExecutionPanic
<1>2. RowOK'
  BY Results DEF RecoverTicketExecutionPanic, RowStatus, DataOK, RowOK
<1>3. MemOK'
  BY Zenon DEF RecoverTicketExecutionPanic, DataOK, MemOK
<1>4. DbOK'
  BY Zenon DEF RecoverTicketExecutionPanic, DataOK, DbOK
<1> QED
  BY <1>1, <1>2, <1>3, <1>4, SameData, Zenon DEF DataOK

LEMMA RequirePendingRowData ==
  ASSUME DataOK, NEW p \in Procs, RequirePendingRow(p)
  PROVE  DataOK'
<1>1. UNCHANGED <<ticketVars, rowVars, memVars, dbVars, histVars>>
  BY DEF RequirePendingRow
<1> QED
  BY <1>1, SameData DEF DataOK

LEMMA ClaimManualStatementExecutionData ==
  ASSUME DataOK, NEW p \in Procs, ClaimManualStatementExecution(p)
  PROVE  DataOK'
<1>1. UNCHANGED <<rowVars, memVars, dbVars, histVars>>
  BY Zenon DEF ClaimManualStatementExecution
<1>2. TicketOK'
  BY Zenon DEF ClaimManualStatementExecution, TicketStatus, RunMode, DataOK, TicketOK
<1> QED
  BY <1>1, <1>2, SameData DEF DataOK

LEMMA QueueOnlineDDLData ==
  ASSUME DataOK, NEW p \in Procs, QueueOnlineDDL(p)
  PROVE  DataOK'
<1>1. UNCHANGED <<ticketVars, memVars, dbVars, histVars>>
  BY Zenon DEF QueueOnlineDDL
<1>2. RowOK'
  BY Zenon DEF QueueOnlineDDL, RowStatus, DataOK, RowOK
<1> QED
  BY <1>1, <1>2, SameData DEF DataOK

LEMMA MarkQueueFailureData ==
  ASSUME DataOK, NEW p \in Procs, MarkQueueFailure(p)
  PROVE  DataOK'
<1>1. UNCHANGED <<ticketVars, memVars, dbVars, histVars>>
  BY Zenon DEF MarkQueueFailure
<1>2. RowOK'
  BY Results, Zenon DEF MarkQueueFailure, RowStatus, DataOK, RowOK
<1> QED
  BY <1>1, <1>2, SameData DEF DataOK

LEMMA StopData ==
  ASSUME DataOK, NEW p \in Procs, Stop(p)
  PROVE  DataOK'
<1>1. UNCHANGED <<ticketVars, rowVars, memVars, dbVars>>
  BY DEF Stop
<1>2. HistOK'
  BY DEF Stop, DataOK, HistOK
<1> QED
  BY <1>1, <1>2, SameData DEF DataOK

LEMMA StopWriteData ==
  ASSUME DataOK, NEW p \in Procs, StopWrite(p)
  PROVE  DataOK'
<1>1. UNCHANGED <<rowVars, memVars, dbVars>>
  BY Zenon DEF StopWrite
<1>2. TicketOK'
  BY DEF StopWrite, TicketStatus, DataOK, TicketOK
<1>3. HistOK'
  BY Zenon DEF StopWrite, DataOK, HistOK
<1> QED
  BY <1>1, <1>2, <1>3, SameData DEF DataOK

LEMMA CancelAnyOrPendingData ==
  ASSUME DataOK, ProcInv, NEW p \in Procs, CancelAnyOrPending(p)
  PROVE  DataOK'
<1>0. proc[p] \in Proc /\ WellFormed(proc[p])
  BY DEF ProcInv
<1>1. proc[p].cur \in Rows
  <2>1. proc[p].at = "ss_cancel"
    BY Zenon DEF CancelAnyOrPending
  <2>2. proc[p].at \in {"ss_cancel", "ss_mark"}
    BY <2>1
  <2> QED
    BY <1>0, <2>2, CancelWF
<1>2. UNCHANGED <<ticketVars, rowVars, dbVars, histVars>>
  BY Zenon DEF CancelAnyOrPending
<1>3. MemOK'
  BY <1>1, Zenon DEF CancelAnyOrPending, DataOK, MemOK
<1> QED
  BY <1>2, <1>3, SameData DEF DataOK

LEMMA MarkExecutionStoppedData ==
  ASSUME DataOK, NEW p \in Procs, MarkExecutionStopped(p)
  PROVE  DataOK'
<1>1. UNCHANGED <<ticketVars, memVars, dbVars, histVars>>
  BY Zenon DEF MarkExecutionStopped
<1>2. RowOK'
  BY Results DEF MarkExecutionStopped, RowStatus, DataOK, RowOK
<1> QED
  BY <1>1, <1>2, SameData DEF DataOK

LEMMA ExecuteStatementData ==
  ASSUME DataOK, NEW p \in Procs, NEW r \in Rows, ExecuteStatement(p, r)
  PROVE  DataOK'
<1>1. UNCHANGED <<ticketVars, rowVars, memVars, dbVars, histVars>>
  BY DEF ExecuteStatement
<1> QED
  BY <1>1, SameData DEF DataOK

LEMMA StopStatementData ==
  ASSUME DataOK, NEW p \in Procs, NEW r \in Rows, StopStatement(p, r)
  PROVE  DataOK'
<1>1. UNCHANGED <<ticketVars, rowVars, memVars, dbVars>>
  BY DEF StopStatement
<1>2. HistOK'
  BY DEF StopStatement, DataOK, HistOK
<1> QED
  BY <1>1, <1>2, SameData DEF DataOK

LEMMA FinishToolRunData ==
  ASSUME DataOK, NEW p \in Procs, NEW r \in Rows, FinishToolRun(p, r)
  PROVE  DataOK'
<1>1. UNCHANGED <<ticketVars, memVars, histVars>>
  BY Zenon DEF FinishToolRun
<1>2. RowOK'
  BY Zenon DEF FinishToolRun, DataOK, RowOK
<1>3. DbOK'
  BY Zenon DEF FinishToolRun, DataOK, DbOK
<1> QED
  BY <1>1, <1>2, <1>3, SameData DEF DataOK

LEMMA CancelActiveExecutionsForShutdownData ==
  ASSUME DataOK, NEW p \in Procs, NEW r \in Rows, CancelActiveExecutionsForShutdown(p, r)
  PROVE  DataOK'
<1>1. UNCHANGED <<ticketVars, dbVars, histVars>>
  BY Zenon DEF CancelActiveExecutionsForShutdown
<1>2. RowOK'
  BY DEF CancelActiveExecutionsForShutdown, RowStatus, Outcome, DataOK, RowOK
<1>3. MemOK'
  BY DEF CancelActiveExecutionsForShutdown, DataOK, MemOK
<1> QED
  BY <1>1, <1>2, <1>3, SameData DEF DataOK

LEMMA LaunchToolData ==
  ASSUME DataOK, NEW r \in Rows, LaunchTool(r)
  PROVE  DataOK'
<1>1. UNCHANGED <<ticketVars, memVars, histVars>>
  BY Zenon DEF LaunchTool
<1>2. RowOK'
  BY Zenon DEF LaunchTool, DataOK, RowOK
<1>3. DbOK'
  BY DEF LaunchTool, DataOK, DbOK
<1> QED
  BY <1>1, <1>2, <1>3, SameData DEF DataOK

LEMMA PruneLockedData ==
  ASSUME DataOK, NEW r \in Rows, PruneLocked(r)
  PROVE  DataOK'
<1>1. UNCHANGED <<ticketVars, rowVars, dbVars>>
  BY DEF PruneLocked
<1>2. MemOK'
  BY DEF PruneLocked, DataOK, MemOK
<1>3. HistOK'
  BY DEF PruneLocked, DataOK, HistOK
<1> QED
  BY <1>1, <1>2, <1>3, SameData DEF DataOK

LEMMA ScheduleExecutionData ==
  ASSUME DataOK, ScheduleExecution
  PROVE  DataOK'
<1>1. UNCHANGED <<rowVars, memVars, dbVars, histVars>>
  BY DEF ScheduleExecution
<1>2. TicketOK'
  BY DEF ScheduleExecution, DataOK, TicketOK
<1> QED
  BY <1>1, <1>2, SameData DEF DataOK

LEMMA RejectAtExecutionData ==
  ASSUME DataOK, RejectAtExecution
  PROVE  DataOK'
<1>1. UNCHANGED <<rowVars, memVars, dbVars, histVars>>
  BY DEF RejectAtExecution
<1>2. TicketOK'
  BY DEF RejectAtExecution, TicketStatus, DataOK, TicketOK
<1> QED
  BY <1>1, <1>2, SameData DEF DataOK

LEMMA GetTicketData ==
  ASSUME DataOK, GetTicket
  PROVE  DataOK'
<1>1. UNCHANGED <<ticketVars, memVars, dbVars, histVars>>
  BY DEF GetTicket
<1>2. RowOK'
  BY DEF GetTicket, EnsureExecutions, RowStatus, DataOK, RowOK
<1> QED
  BY <1>1, <1>2, SameData DEF DataOK

LEMMA BeginShutdownData ==
  ASSUME DataOK, BeginShutdown
  PROVE  DataOK'
<1>1. UNCHANGED <<ticketVars, rowVars, dbVars, histVars>>
  BY DEF BeginShutdown
<1>2. MemOK'
  BY DEF BeginShutdown, DataOK, MemOK
<1> QED
  BY <1>1, <1>2, SameData DEF DataOK

LEMMA ProcessExitData ==
  ASSUME DataOK, ProcessExit
  PROVE  DataOK'
<1>1. UNCHANGED <<ticketVars, rowVars>>
  BY Zenon DEF ProcessExit
<1>2. MemOK'
  BY Zenon DEF ProcessExit, DataOK, MemOK
<1>3. DbOK'
  BY Zenon DEF ProcessExit, DataOK, DbOK
<1>4. HistOK'
  BY DEF ProcessExit, DataOK, HistOK
<1> QED
  BY <1>1, <1>2, <1>3, <1>4, SameData, Zenon DEF DataOK

LEMMA RecoverExecutingTicketsData ==
  ASSUME DataOK, RecoverExecutingTickets
  PROVE  DataOK'
<1>1. UNCHANGED <<dbVars, histVars>>
  BY Zenon DEF RecoverExecutingTickets
<1>2. TicketOK'
  BY AggregateType, Zenon DEF RecoverExecutingTickets, TicketStatus, DataOK, TicketOK
<1>3. RowOK'
  BY Results, Zenon DEF RecoverExecutingTickets, RowStatus, DataOK, RowOK
<1>4. MemOK'
  BY Zenon DEF RecoverExecutingTickets, DataOK, MemOK
<1> QED
  BY <1>1, <1>2, <1>3, <1>4, SameData, Zenon DEF DataOK

\* Every step of the system leaves the ticket, its rows and the registry well typed.
LEMMA DataStep ==
  ASSUME DataOK, ProcInv, Next
  PROVE  DataOK'
<1>1. ASSUME NEW p \in Procs, Runner(p) PROVE DataOK'
  BY <1>1, PrepareRowsData, FinishStartFailureData, ListExecutionsData,
     NextStatementData, CommitTxData, FinishTicketData, MarkTicketExecutingData,
     MarkExecutionRunningIfPendingData, OpenConnectionData, RegisterQueryData,
     SendStatementData, ReceiveAnswerData, RereadExecutionData, RecordExecutionData,
     RefreshReadData, SetExecutionAggregateStatusData, RecoverTicketExecutionPanicData,
     RequirePendingRowData, ClaimManualStatementExecutionData, QueueOnlineDDLData,
     MarkQueueFailureData, StopWriteData, CancelAnyOrPendingData,
     MarkExecutionStoppedData DEF Runner
<1> QED
  BY <1>1, ExecuteData, RunSchedulerData, StartWorkflowAutoExecutionData, StopData,
     ExecuteStatementData, StopStatementData, FinishToolRunData,
     CancelActiveExecutionsForShutdownData, LaunchToolData, PruneLockedData,
     ScheduleExecutionData, RejectAtExecutionData, GetTicketData, BeginShutdownData,
     ProcessExitData, RecoverExecutingTicketsData, Zenon DEF Next

-----------------------------------------------------------------------------
LEMMA TypeStep == TypeInv /\ [Next]_vars => TypeInv'
<1> SUFFICES ASSUME TypeInv, [Next]_vars PROVE TypeInv'
  OBVIOUS
<1>0. ticketType \in TicketTypes /\ DataOK /\ ProcInv
  BY TypeParts, Zenon
<1>1. CASE UNCHANGED vars
  BY <1>1, Zenon DEF TypeInv, TypeOK, vars, ticketVars, rowVars, memVars, dbVars, histVars
<1>2. CASE Next
  <2>1. DataOK'
    BY <1>0, <1>2, DataStep
  <2>2. ASSUME proc' = proc PROVE ProcInv'
    BY <1>0, <2>2, ProcUnchanged
  <2>3. ASSUME ProcessExit PROVE ProcInv'
    <3>1. proc' = [q \in Procs |-> Idle]
      BY <2>3, Zenon DEF ProcessExit
    <3> QED
      BY <3>1, ProcReset, Zenon
  <2>4. ASSUME NEW r \in Rows, LaunchTool(r) \/ PruneLocked(r) PROVE ProcInv'
    BY <2>2, <2>4 DEF LaunchTool, PruneLocked
  <2>5. ASSUME \/ ScheduleExecution \/ RejectAtExecution \/ GetTicket
               \/ BeginShutdown \/ RecoverExecutingTickets
        PROVE  ProcInv'
    <3>1. proc' = proc
      BY <2>5, Zenon DEF ScheduleExecution, RejectAtExecution, GetTicket, BeginShutdown,
         RecoverExecutingTickets
    <3> QED
      BY <2>2, <3>1, Zenon
  <2>6. ASSUME NEW p \in Procs,
               \/ Runner(p) \/ Execute(p) \/ RunScheduler(p)
               \/ StartWorkflowAutoExecution(p) \/ Stop(p)
               \/ \E r \in Rows : \/ ExecuteStatement(p, r) \/ StopStatement(p, r)
                                  \/ FinishToolRun(p, r)
                                  \/ CancelActiveExecutionsForShutdown(p, r)
        PROVE  ProcInv'
    BY <1>0, <2>6, ProcStep, Zenon
  <2>7. ProcInv'
    BY <1>2, <2>3, <2>4, <2>5, <2>6, Zenon DEF Next
  <2>8. (ticketType \in TicketTypes)'
    BY <1>0, <1>2, Zenon DEF Next
  <2> QED
    BY <2>1, <2>7, <2>8 DEF TypeInv, TypeOK, DataOK, ProcInv, TicketOK, RowOK,
       MemOK, DbOK, HistOK
<1> QED
  BY <1>1, <1>2

\* The initial state is well typed.
LEMMA TypeInit == Init => TypeInv
<1> SUFFICES ASSUME Init PROVE TypeInv
  OBVIOUS
<1> DEFINE auto == Begin("autostart", "request", 0)
<1>1. "autostart" \in Step /\ "request" \in Kind /\ 0 \in 0..N
  BY Steps, Kinds, Positions, Zenon
<1>2. auto \in Proc /\ WellFormed(auto)
  BY <1>1, BeginRec, RequestWF, Kinds DEF Decided
<1>3. proc \in [Procs -> Proc] /\ \A p \in Procs : WellFormed(proc[p])
  BY <1>2, IdleType DEF Init
<1> QED
  BY <1>3 DEF Init, TypeInv, TypeOK, NoRows, TicketStatus, RunMode, DMLMode, RowStatus,
     Outcome

\* Type correctness of the execution model: in every reachable state the ticket, its rows,
\* the registry and every goroutine hold values the code could have written.
THEOREM TypeCorrect == Spec => []TypeOK
BY TypeInit, TypeStep, PTL DEF Spec, TypeInv

=============================================================================
