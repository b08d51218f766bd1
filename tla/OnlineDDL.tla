------------------------------ MODULE OnlineDDL ------------------------------
(***************************************************************************)
(* Online schema change: a statement of a DDL ticket is queued as a run, a *)
(* dispatcher claims it, and a goroutine starts gh-ost or pt-osc on the    *)
(* target, follows it, verifies what it left behind and writes the result. *)
(* Users pause, resume, tune and cancel a run while its tool works.        *)
(* Modelled are the run rows, the statement rows, the dispatcher, one      *)
(* goroutine per claimed run, the control requests step by step, the lock  *)
(* on the target server, shutdown, crash and restart.                      *)
(***************************************************************************)
EXTENDS Naturals, FiniteSets

CONSTANTS
    Runs,           \* the statements that can be run online, one run each
    Conn, Host,     \* the connection of a run; the server of a connection
    Hidden,         \* the runs whose ALTER leaves SHOW CREATE TABLE as it was, AUTO_INCREMENT aside
    Reqs, About,    \* bound: control requests; the run each of them is about
    MaxConcurrent,  \* runner.maxConcurrent
    MaxTrouble      \* bound: failing calls, panics, shutdowns and crashes together

ASSUME OnlineAssumption ==
    /\ MaxConcurrent \in Nat \ {0} /\ MaxTrouble \in Nat
    /\ DOMAIN Conn = Runs /\ \A r \in Runs : Conn[r] \in DOMAIN Host
    /\ About \in [Reqs -> Runs] /\ Hidden \subseteq Runs

VARIABLES
    run, exec,               \* Meta DB: the run rows and their statement rows
    active, go, ctl, lock,   \* process memory: runner, goroutines, Controller, TargetLocks
    req, phase,              \* control requests in progress; "up", "draining" or "down"
    tool, target,            \* the external processes, and what they did to the table
    foreign,                 \* the runs whose table someone else altered since the baseline
    faults, exits

vars == <<run, exec, active, go, ctl, lock, req, phase, tool, target, foreign, faults, exits>>
outside == <<phase, exits, foreign>>

-----------------------------------------------------------------------------
Active   == {"queued", "running", "paused", "cancel_requested"}
Live     == Active \ {"queued"}
Terminal == {"completed", "failed", "interrupted", "completed_after_cancel", "cancelled",
             "cancelled_with_artifacts", "outcome_unknown"}

None == "none"
Base == "base"   \* the parameters the run was queued with; a tuning q replaces them by q
NoRun  == [st |-> None, ver |-> 0, key |-> None, eff |-> Base, why |-> ""]
NoGo   == [at |-> None, hb |-> FALSE, panic |-> FALSE, cancelling |-> FALSE, out |-> None]
NoCtl  == [reg |-> FALSE, cancelling |-> FALSE, mu |-> None]
NoTool == [st |-> None, stopping |-> FALSE, paused |-> FALSE, par |-> Base]
NoReq  == [op |-> None, run |-> None, ver |-> 0, at |-> "idle", old |-> Base]
Answered == [NoReq EXCEPT !.at = "done"]

Exits   == {"done", "quiet", "error"}   \* success marker; exit 0 without it; anything else
Targets == {"original", "artifacts", "applied"}
Holding == {"baseline", "start", "register", "work", "verify"}   \* steps with the server's lock

HostOf(r) == Host[Conn[r]]
Hosts == {HostOf(r) : r \in Runs}

Goes(r, at)  == go' = [go EXCEPT ![r].at = at]
Leaves(r)    == go' = [go EXCEPT ![r] = NoGo] /\ active' = active \ {r}
Step(q, at)  == req' = [req EXCEPT ![q].at = at]
Answer(q)    == req' = [req EXCEPT ![q] = Answered]
Fault        == faults + exits < MaxTrouble /\ faults' = faults + 1
Alive        == phase # "down"

\* The context of r's goroutine is cancelled: server shutdown or a lost heartbeat.
Cancelled(r) == phase = "draining" \/ go[r].hb

Init ==
    /\ run = [r \in Runs |-> NoRun] /\ exec = [r \in Runs |-> "pending"]
    /\ active = {} /\ go = [r \in Runs |-> NoGo] /\ ctl = [r \in Runs |-> NoCtl]
    /\ lock = [h \in Hosts |-> None]
    /\ req = [q \in Reqs |-> NoReq] /\ phase = "up"
    /\ tool = [r \in Runs |-> NoTool] /\ target = [r \in Runs |-> "original"]
    /\ foreign = {} /\ faults = 0 /\ exits = 0

-----------------------------------------------------------------------------
(* Queueing and dispatch.                                                  *)

\* CreateQueued: the unique active_connection_id refuses a second active run.
Queue(r) ==
    /\ phase = "up" /\ run[r] = NoRun /\ exec[r] = "pending"
    /\ \A s \in Runs : run[s].key # Conn[r]
    /\ run' = [run EXCEPT ![r] = [NoRun EXCEPT !.st = "queued", !.ver = 1, !.key = Conn[r]]]
    /\ exec' = [exec EXCEPT ![r] = "running"]
    /\ UNCHANGED <<active, go, ctl, lock, req, tool, target, faults, outside>>

\* No plan for the statement, or the connection already has an active run.
QueueFails(r) ==
    /\ phase = "up" /\ run[r] = NoRun /\ exec[r] = "pending"
    /\ exec' = [exec EXCEPT ![r] = "failed"]
    /\ UNCHANGED <<run, active, go, ctl, lock, req, tool, target, faults, outside>>

\* StopStatement marks a running statement, also one whose run is still queued, and cannot
\* reach a tool.
StopStatement(r) ==
    /\ phase = "up" /\ exec[r] = "running"
    /\ exec' = [exec EXCEPT ![r] = "stopped"]
    /\ UNCHANGED <<run, active, go, ctl, lock, req, tool, target, faults, outside>>

\* dispatch: reserve a slot and the connection, then Claim; release both if that fails.
\* Only the dispatcher takes a row out of queued, so its list is never stale.
Dispatch(r) ==
    /\ phase = "up" /\ run[r].st = "queued"
    /\ Cardinality(active) < MaxConcurrent
    /\ \A s \in active : Conn[s] # Conn[r]
    /\ \/ /\ run' = [run EXCEPT ![r].st = "running", ![r].ver = @ + 1]
          /\ active' = active \cup {r} /\ Goes(r, "resolve") /\ UNCHANGED faults
       \/ Fault /\ UNCHANGED <<run, active, go>>
    /\ UNCHANGED <<exec, ctl, lock, req, tool, target, outside>>

-----------------------------------------------------------------------------
(* The goroutine of a claimed run.                                         *)

Fails(r) == go' = [go EXCEPT ![r].at = "finish", ![r].out = "failed"]

\* ResolveExecution up to the lock: the statement, the tool or the connection may have changed.
Resolve(r) ==
    /\ Alive /\ go[r].at = "resolve"
    /\ Goes(r, "acquire") \/ Fails(r)
    /\ UNCHANGED <<run, exec, active, ctl, lock, req, tool, target, faults, outside>>

\* TargetLocks.Acquire waits until the server is free or the context ends.
Acquire(r) ==
    /\ Alive /\ go[r].at = "acquire"
    /\ \/ /\ lock[HostOf(r)] = None
          /\ Goes(r, "baseline") /\ lock' = [lock EXCEPT ![HostOf(r)] = r]
       \/ Cancelled(r) /\ Fails(r) /\ UNCHANGED lock
    /\ UNCHANGED <<run, exec, active, ctl, req, tool, target, faults, outside>>

\* Mutant: a failing path after the lock forgets to release it.
BaselineLeaksLock(r) ==
    /\ Alive /\ go[r].at = "baseline"
    /\ Goes(r, "start") \/ Fails(r)
    /\ UNCHANGED <<run, exec, active, ctl, lock, req, tool, target, faults, outside>>

Freed(r) == lock' = [lock EXCEPT ![HostOf(r)] = IF @ = r THEN None ELSE @]

\* The rest of ResolveExecution: the target is opened and the definition of the table is
\* read, or one of them fails and releases the lock.
Baseline(r) ==
    /\ Alive /\ go[r].at = "baseline"
    /\ \/ Goes(r, "start") /\ UNCHANGED lock
       \/ Fails(r) /\ Freed(r)
    /\ UNCHANGED <<run, exec, active, ctl, req, tool, target, faults, outside>>

\* The tool process starts, or the deferred Cleanup releases the lock.
Start(r) ==
    /\ Alive /\ go[r].at = "start"
    /\ \/ /\ Goes(r, "register") /\ tool' = [tool EXCEPT ![r].st = "running", ![r].par = run[r].eff]
          /\ UNCHANGED lock
       \/ Fails(r) /\ Freed(r) /\ UNCHANGED tool
    /\ UNCHANGED <<run, exec, active, ctl, req, target, faults, outside>>

Register(r) ==
    /\ Alive /\ go[r].at = "register"
    /\ Goes(r, "work") /\ ctl' = [ctl EXCEPT ![r] = [NoCtl EXCEPT !.reg = TRUE]]
    /\ UNCHANGED <<run, exec, active, lock, req, tool, target, faults, outside>>

\* The tool has ended: was it cancelled?  A tuning in progress is waited for.
Collect(r) ==
    /\ Alive /\ go[r].at = "work" /\ tool[r].st \in Exits /\ ctl[r].mu = None
    /\ go' = [go EXCEPT ![r].at = "verify", ![r].cancelling = ctl[r].cancelling]
    /\ UNCHANGED <<run, exec, active, ctl, lock, req, tool, target, faults, outside>>

\* onlineDDLCreateHash, compared with the baseline: it does not see every change, and it sees
\* the changes of others.
Differs(r) == (target[r] = "applied" /\ r \notin Hidden) \/ r \in foreign

\* Whether any of the tables and triggers a tool works with is still there.
HasArtifacts(r) == target[r] = "artifacts"

\* verify of the plan: a marked success that nobody cancelled is believed; otherwise the
\* table and the tool's tables and triggers are read.
Evidence(r) ==
    IF tool[r].st = "done" /\ ~go[r].cancelling
    THEN [cancel |-> FALSE, ok |-> TRUE, applied |-> TRUE, unchanged |-> FALSE, artifacts |-> FALSE]
    ELSE [cancel |-> go[r].cancelling, ok |-> tool[r].st = "done",
          applied |-> Differs(r), unchanged |-> ~Differs(r),
          artifacts |-> HasArtifacts(r)]

\* Evidence that could be read is complete: VerificationComplete is TRUE.
ClassifyOutcome(e) ==
    IF e.cancel
    THEN IF e.applied THEN "completed_after_cancel"
         ELSE IF ~e.unchanged THEN "outcome_unknown"
         ELSE IF e.artifacts THEN "cancelled_with_artifacts" ELSE "cancelled"
    ELSE IF e.applied THEN "completed"
         ELSE IF e.ok \/ ~e.unchanged \/ e.artifacts THEN "outcome_unknown" ELSE "failed"

\* Mutant: a tool that exits with 0 has succeeded.
ExitCodeOutcome(r) == IF tool[r].st = "quiet" /\ ~go[r].cancelling THEN "completed"
                      ELSE ClassifyOutcome(Evidence(r))

\* What Execute makes of it, given the tool's own completion marker.
Outcome(r) ==
    LET e == Evidence(r)
    IN  IF e.cancel \/ tool[r].st = "done" THEN ClassifyOutcome(e)
        ELSE IF tool[r].st = "error" /\ e.unchanged THEN "failed" ELSE "outcome_unknown"

Gone   == [NoTool EXCEPT !.st = "gone"]     \* nobody looks at the process any more
Orphan == [NoTool EXCEPT !.st = "orphan"]   \* it works, and nobody looks at it any more

\* Verification, which may fail; then Unregister and the plan's Cleanup.
Verify(r) ==
    /\ Alive /\ go[r].at = "verify"
    /\ \E out \in {Outcome(r), "outcome_unknown"} :
          go' = [go EXCEPT ![r].at = "finish", ![r].out = out]
    /\ ctl' = [ctl EXCEPT ![r] = NoCtl] /\ Freed(r) /\ tool' = [tool EXCEPT ![r] = Gone]
    /\ UNCHANGED <<run, exec, active, req, target, faults, outside>>

\* Shutdown, a panic and a lost heartbeat come before what Execute returned.
Final(r) ==
    IF phase = "draining" THEN [st |-> "interrupted", why |-> "server_shutdown"]
    ELSE IF go[r].panic THEN [st |-> "failed", why |-> "worker_panic"]
    ELSE IF go[r].hb THEN [st |-> "failed", why |-> "heartbeat_failed"]
    ELSE [st |-> go[r].out, why |-> ""]

\* FinishRunning and FinishOutcome on a live row.
Finish(r, f) ==
    [run EXCEPT ![r].st = f.st, ![r].why = f.why, ![r].key = None, ![r].ver = @ + 1]

\* A row that is not live, or a failing update, ends the goroutine without HandleTerminal.
FinishRun(r) ==
    /\ Alive /\ go[r].at = "finish"
    /\ \/ /\ run[r].st \in Live /\ run' = Finish(r, Final(r))
          /\ Goes(r, "terminal") /\ UNCHANGED <<active, faults>>
       \/ Leaves(r) /\ UNCHANGED run /\ IF run[r].st \in Live THEN Fault ELSE UNCHANGED faults
    /\ UNCHANGED <<exec, ctl, lock, req, tool, target, outside>>

\* The statement row follows the run; the slot is free when this returns.
HandleTerminal(r) ==
    /\ Alive /\ go[r].at = "terminal" /\ Leaves(r)
    /\ \/ /\ exec' = [exec EXCEPT ![r] = IF run[r].st \in {"completed", "completed_after_cancel"}
                                         THEN "completed" ELSE "failed"]
          /\ UNCHANGED faults
       \/ Fault /\ UNCHANGED exec
    /\ UNCHANGED <<run, ctl, lock, req, tool, target, outside>>

\* The heartbeat update fails and cancels the context.
HeartbeatFails(r) ==
    /\ Alive /\ go[r].at \in Holding \cup {"resolve", "acquire"} /\ ~go[r].hb /\ Fault
    /\ go' = [go EXCEPT ![r].hb = TRUE]
    /\ UNCHANGED <<run, exec, active, ctl, lock, req, tool, target, outside>>

\* A panic under Execute.  Once the plan is there the deferred Unregister and Cleanup run;
\* before that the function that releases the lock is lost, and the server stays locked.
\* Nobody waits for a tool that was started.
WorkerPanic(r) ==
    /\ Alive /\ go[r].at \in Holding \cup {"resolve"} /\ Fault
    /\ go' = [go EXCEPT ![r].at = "finish", ![r].panic = TRUE]
    /\ ctl' = [ctl EXCEPT ![r] = NoCtl]
    /\ IF go[r].at = "baseline" THEN lock' = [lock EXCEPT ![HostOf(r)] = "lost"] ELSE Freed(r)
    /\ tool' = [tool EXCEPT ![r] = IF @.st \in Exits THEN Gone
                                   ELSE IF @.st = "running" THEN Orphan ELSE @]
    /\ UNCHANGED <<run, exec, active, req, target, outside>>

\* DryRun takes the lock of the server only if it is free.
DryRun(h) ==
    /\ phase = "up" /\ lock[h] = None /\ lock' = [lock EXCEPT ![h] = "dry"]
    /\ UNCHANGED <<run, exec, active, go, ctl, req, tool, target, faults, outside>>

DryRunEnds(h) ==
    /\ Alive /\ lock[h] = "dry" /\ lock' = [lock EXCEPT ![h] = None]
    /\ UNCHANGED <<run, exec, active, go, ctl, req, tool, target, faults, outside>>

-----------------------------------------------------------------------------
(* Control requests.  A request that carries another version than the row  *)
(* it loads is refused at once, so one that goes on has the row's version. *)

\* onlineDDLControl and TuneOnlineDDL load the run.
Control(q, op) ==
    LET r == About[q]
    IN  /\ phase = "up" /\ req[q] = NoReq /\ run[r].st # None
        /\ req' = [req EXCEPT ![q] = [NoReq EXCEPT !.op = op, !.run = r, !.ver = run[r].ver,
                                      !.at = IF op = "cancel" THEN "save" ELSE "control"]]
        /\ UNCHANGED <<run, exec, active, go, ctl, lock, tool, target, faults, outside>>

\* Controller.Pause and Resume: a tool already in the wanted state is not told again.
Throttle(q) ==
    LET r == req[q].run
        want == req[q].op = "pause"
    IN  /\ Alive /\ req[q].op \in {"pause", "resume"} /\ req[q].at = "control" /\ ctl[r].mu = None
        /\ IF ~ctl[r].reg THEN Answer(q) /\ UNCHANGED <<tool, faults>>
           ELSE IF tool[r].paused = want THEN Step(q, "save") /\ UNCHANGED <<tool, faults>>
           ELSE \/ /\ tool[r].st = "running" /\ tool' = [tool EXCEPT ![r].paused = want]
                   /\ Step(q, "save") /\ UNCHANGED faults
                \/ /\ IF tool[r].st = "running" THEN Fault ELSE UNCHANGED faults
                   /\ Answer(q) /\ UNCHANGED tool
        /\ UNCHANGED <<run, exec, active, go, ctl, lock, target, outside>>

\* SetPaused compares status and version; when it changes nothing, or fails, the tool is put
\* back.
SetPaused(q) ==
    LET r == req[q].run
        from == IF req[q].op = "pause" THEN "running" ELSE "paused"
        to   == IF req[q].op = "pause" THEN "paused" ELSE "running"
        ok   == run[r].st = from /\ run[r].ver = req[q].ver
    IN  /\ Alive /\ req[q].op \in {"pause", "resume"} /\ req[q].at = "save"
        /\ \/ /\ ok /\ run' = [run EXCEPT ![r].st = to, ![r].ver = @ + 1]
              /\ Answer(q) /\ UNCHANGED faults
           \/ /\ IF ok THEN Fault ELSE UNCHANGED faults
              /\ Step(q, "undo") /\ UNCHANGED run
        /\ UNCHANGED <<exec, active, go, ctl, lock, tool, target, outside>>

\* The opposite command, which has no effect on a tool that is gone or already so.
UndoThrottle(q) ==
    LET r == req[q].run
        back == req[q].op # "pause"
    IN  /\ Alive /\ req[q].op \in {"pause", "resume"} /\ req[q].at = "undo" /\ ctl[r].mu = None
        /\ Answer(q)
        /\ IF ctl[r].reg /\ tool[r].st = "running" /\ tool[r].paused # back
           THEN \/ tool' = [tool EXCEPT ![r].paused = back] /\ UNCHANGED faults
                \/ Fault /\ UNCHANGED tool
           ELSE UNCHANGED <<tool, faults>>
        /\ UNCHANGED <<run, exec, active, go, ctl, lock, target, outside>>

\* The row first; a stale request changes nothing.
RequestCancel(q) ==
    LET r == req[q].run
    IN  /\ Alive /\ req[q].op = "cancel" /\ req[q].at = "save"
        /\ IF run[r].st \in {"running", "paused"} /\ run[r].ver = req[q].ver
           THEN run' = [run EXCEPT ![r].st = "cancel_requested", ![r].ver = @ + 1] /\ Step(q, "control")
           ELSE Answer(q) /\ UNCHANGED run
        /\ UNCHANGED <<exec, active, go, ctl, lock, tool, target, faults, outside>>

\* Controller.Cancel marks the process; one that is not registered is not waited for.
CancelProcess(q) ==
    LET r == req[q].run
    IN  /\ Alive /\ req[q].op = "cancel" /\ req[q].at = "control" /\ ctl[r].mu = None
        /\ IF ctl[r].reg /\ ~ctl[r].cancelling
           THEN ctl' = [ctl EXCEPT ![r].cancelling = TRUE] /\ Step(q, "ask")
           ELSE Answer(q) /\ UNCHANGED ctl
        /\ UNCHANGED <<run, exec, active, go, lock, tool, target, faults, outside>>

\* CancelGracefully, and Terminate after the grace period: either way the tool is on its way
\* out.  If the request cannot be delivered the mark is taken back.
AskToStop(q) ==
    LET r == req[q].run
    IN  /\ Alive /\ req[q].op = "cancel" /\ req[q].at = "ask" /\ Answer(q)
        /\ \/ /\ tool' = [tool EXCEPT ![r].stopping = tool[r].st = "running"]
              /\ UNCHANGED <<ctl, faults>>
           \/ /\ IF tool[r].st = "running" THEN Fault ELSE UNCHANGED faults
              /\ ctl' = [ctl EXCEPT ![r].cancelling = FALSE] /\ UNCHANGED tool
        /\ UNCHANGED <<run, exec, active, go, lock, target, outside>>

Released(q) == ctl' = [ctl EXCEPT ![req[q].run].mu = IF @ = q THEN None ELSE @]

\* WithTuning holds the process's mutex from here on; the row is read under it.
BeginTune(q) ==
    LET r == req[q].run
    IN  /\ Alive /\ req[q].op = "tune" /\ req[q].at = "control" /\ ctl[r].mu = None
        /\ IF /\ ctl[r].reg /\ ~ctl[r].cancelling
              /\ run[r].st \in {"running", "paused"} /\ run[r].ver = req[q].ver
           THEN /\ ctl' = [ctl EXCEPT ![r].mu = q]
                /\ req' = [req EXCEPT ![q].at = "apply", ![q].old = run[r].eff]
           ELSE Answer(q) /\ UNCHANGED ctl
        /\ UNCHANGED <<run, exec, active, go, lock, tool, target, faults, outside>>

TuneTool(q) ==
    LET r == req[q].run
    IN  /\ Alive /\ req[q].op = "tune" /\ req[q].at = "apply"
        /\ \/ /\ tool[r].st = "running" /\ tool' = [tool EXCEPT ![r].par = q]
              /\ Step(q, "save") /\ UNCHANGED <<ctl, faults>>
           \/ /\ IF tool[r].st = "running" THEN Fault ELSE UNCHANGED faults
              /\ Answer(q) /\ Released(q) /\ UNCHANGED tool
        /\ UNCHANGED <<run, exec, active, go, lock, target, outside>>

UpdateEffectiveParameters(q) ==
    LET r == req[q].run
        ok == run[r].st \in {"running", "paused"} /\ run[r].ver = req[q].ver
    IN  /\ Alive /\ req[q].op = "tune" /\ req[q].at = "save"
        /\ \/ /\ ok /\ run' = [run EXCEPT ![r].eff = q, ![r].ver = @ + 1]
              /\ Answer(q) /\ Released(q) /\ UNCHANGED faults
           \/ /\ IF ok THEN Fault ELSE UNCHANGED faults
              /\ Step(q, "undo") /\ UNCHANGED <<run, ctl>>
        /\ UNCHANGED <<exec, active, go, lock, tool, target, outside>>

RollbackTune(q) ==
    LET r == req[q].run
    IN  /\ Alive /\ req[q].op = "tune" /\ req[q].at = "undo" /\ Answer(q) /\ Released(q)
        /\ IF tool[r].st = "running"
           THEN \/ tool' = [tool EXCEPT ![r].par = req[q].old] /\ UNCHANGED faults
                \/ Fault /\ UNCHANGED tool
           ELSE UNCHANGED <<tool, faults>>
        /\ UNCHANGED <<run, exec, active, go, lock, target, outside>>

-----------------------------------------------------------------------------
(* The tool and the process.                                               *)

\* The context of the tool ends: shutdown or a lost heartbeat.
Terminate(r) ==
    /\ Alive /\ tool[r].st = "running" /\ ~tool[r].stopping /\ Cancelled(r)
    /\ tool' = [tool EXCEPT ![r].stopping = TRUE]
    /\ UNCHANGED <<run, exec, active, go, ctl, lock, req, target, faults, outside>>

\* A tool ends by itself, when told to, or when its 24 hours are over.  It prints its success
\* marker only after the table is altered, and does not alter the table while it is paused.
ToolEnds(r) ==
    /\ Alive /\ tool[r].st = "running"
    /\ \E exit \in Exits, t \in Targets :
          /\ exit = "done" => t = "applied"
          /\ tool[r].paused => t # "applied" /\ exit = "error"
          /\ target' = [target EXCEPT ![r] = t]
          /\ tool' = [tool EXCEPT ![r] = [NoTool EXCEPT !.st = exit, !.paused = tool[r].paused]]
    /\ UNCHANGED <<run, exec, active, go, ctl, lock, req, faults, outside>>

\* A tool that outlived the goroutine or the process that started it.
OrphanEnds(r) ==
    /\ tool[r].st = "orphan" /\ tool' = [tool EXCEPT ![r] = Gone]
    /\ \E t \in Targets : target' = [target EXCEPT ![r] = t]
    /\ UNCHANGED <<run, exec, active, go, ctl, lock, req, faults, outside>>

\* Another session alters the table of a run at work.
OtherSessionAlters(r) ==
    /\ go[r].at \in Holding \ {"baseline"} /\ Fault
    /\ foreign' = foreign \cup {r}
    /\ UNCHANGED <<run, exec, active, go, ctl, lock, req, phase, tool, target, exits>>

\* SIGTERM: the runner's context is cancelled, nothing is claimed, requests are drained.
Shutdown ==
    /\ phase = "up" /\ faults + exits < MaxTrouble /\ phase' = "draining" /\ exits' = exits + 1
    /\ UNCHANGED <<run, exec, active, go, ctl, lock, req, tool, target, foreign, faults>>

\* The process ends: after shutdown has waited for the runner or for ten seconds, or at once.
ProcessExit ==
    /\ \/ phase = "draining" /\ exits' = exits
       \/ phase = "up" /\ faults + exits < MaxTrouble /\ exits' = exits + 1
    /\ phase' = "down" /\ active' = {}
    /\ go' = [r \in Runs |-> NoGo] /\ ctl' = [r \in Runs |-> NoCtl]
    /\ lock' = [h \in Hosts |-> None]
    /\ req' = [q \in Reqs |-> IF req[q] = NoReq THEN NoReq ELSE Answered]
    /\ tool' = [r \in Runs |-> IF tool[r].st = "running" THEN Orphan
                               ELSE IF tool[r].st \in Exits THEN Gone ELSE tool[r]]
    /\ UNCHANGED <<run, exec, target, foreign, faults>>

\* Startup: InterruptActive; the ticket recovery fails the running statements of those tickets
\* that are still executing.
InterruptActive ==
    /\ phase = "down" /\ phase' = "up"
    /\ run' = [r \in Runs |-> IF run[r].st \notin Active THEN run[r]
                              ELSE [run[r] EXCEPT !.st = "interrupted", !.why = "server_restarted",
                                                  !.key = None, !.ver = @ + 1]]
    /\ \E executing \in SUBSET Runs :
          exec' = [r \in Runs |-> IF exec[r] = "running" /\ r \in executing THEN "failed"
                                  ELSE exec[r]]
    /\ UNCHANGED <<active, go, ctl, lock, req, tool, target, foreign, faults, exits>>

-----------------------------------------------------------------------------
Ops == {"pause", "resume", "cancel", "tune"}

Goroutine(r) ==
    \/ Resolve(r) \/ Acquire(r) \/ Baseline(r) \/ Start(r) \/ Register(r) \/ Collect(r) \/ Verify(r)
    \/ FinishRun(r) \/ HandleTerminal(r)

Request(q) ==
    \/ Throttle(q) \/ SetPaused(q) \/ UndoThrottle(q)
    \/ RequestCancel(q) \/ CancelProcess(q) \/ AskToStop(q)
    \/ BeginTune(q) \/ TuneTool(q) \/ UpdateEffectiveParameters(q) \/ RollbackTune(q)

Next ==
    \/ \E r \in Runs : \/ Queue(r) \/ QueueFails(r) \/ StopStatement(r) \/ Dispatch(r)
                       \/ Goroutine(r) \/ HeartbeatFails(r) \/ WorkerPanic(r)
                       \/ Terminate(r) \/ ToolEnds(r) \/ OrphanEnds(r) \/ OtherSessionAlters(r)
    \/ \E h \in Hosts : DryRun(h) \/ DryRunEnds(h)
    \/ \E q \in Reqs : Request(q) \/ \E op \in Ops : Control(q, op)
    \/ Shutdown \/ ProcessExit \/ InterruptActive

Spec == Init /\ [][Next]_vars

-----------------------------------------------------------------------------
(* Properties.                                                             *)

\* A run has the lock of its server exactly while it works there, and a tool that somebody
\* waits for belongs to such a run: two runs never work on one server at once, whichever
\* connections they use, none does while a dry run has the server, and no failing path or
\* cancelled wait leaves a server locked.  A panic before the plan is returned does (the lock
\* is then lost, not the run's), and a panic or a crash may leave a tool working on its own.
LockHeldWhileWorking ==
    \A r \in Runs : /\ lock[HostOf(r)] = r <=> go[r].at \in Holding
                    /\ tool[r].st = "running" => lock[HostOf(r)] = r

\* What a finished run and its statement claim is what happened to the table, unless the
\* heartbeat or the worker broke: those are recorded as failed without saying.  Only completed
\* rests on the tool's own marker.  Every other result rests on the comparison of two SHOW
\* CREATE TABLE, and holds for an alteration that shows there on a table nobody else altered.
StatusHonest ==
    \A r \in Runs :
      /\ run[r].st = "completed" => target[r] = "applied"
      /\ r \notin Hidden \cup foreign =>
           /\ run[r].st = "completed_after_cancel" => target[r] = "applied"
           /\ run[r].st = "cancelled" => target[r] = "original"
           /\ run[r].st = "cancelled_with_artifacts" => target[r] = "artifacts"
           /\ run[r].st = "failed" /\ run[r].why = "" => target[r] # "applied"
           /\ exec[r] = "completed" => target[r] = "applied"

=============================================================================
