---------------------------- MODULE TicketWorkflow ----------------------------
(***************************************************************************)
(* The review of a ticket, from its creation to the start of its execution *)
(* or the end of the access it granted.  Every HTTP request is a process:  *)
(* it reads the ticket, checks the user against the workflow resolution,   *)
(* and writes with an update that is conditional on the status it read.    *)
(* Between two steps other requests, an administrator editing the rules,   *)
(* and failures of a request may come.  Execution itself is the subject of *)
(* TicketExecution: here a ticket that is executing stays so.              *)
(***************************************************************************)
EXTENDS WorkflowRules

CONSTANTS
    Procs,          \* bound: requests in progress at the same time
    Conns,          \* connections
    Docs,           \* tickets that may be submitted: [type, by, conn, sens]
    FirstRules, NewRules,  \* rule lists in force at the start; lists an administrator may save
    Bypasses,       \* bypass settings: [review, execute, multi], sets of users
    Productions,    \* deployments, as values of APP_ENV = "production"
    MaxRequests,    \* bound: requests on the ticket after its creation
    MaxChanges,     \* bound: changes of rules and accounts
    MaxFaults       \* bound: requests that fail half way

\* A list of rules with the fields the code reads.
IsRuleList(l) == \A i \in DOMAIN l :
    /\ {"id", "priority", "approval", "auto", "type", "conn", "sens", "enabled"} \subseteq DOMAIN l[i]
    /\ l[i].approval \in BOOLEAN /\ l[i].auto \in BOOLEAN

\* Account ids are no reserved words.
ASSUME WorkflowAssumption ==
    /\ Users \cap {None, "system"} = {}
    /\ Productions \subseteq BOOLEAN
    /\ \A l \in FirstRules \cup NewRules : IsRuleList(l)

VARIABLES
    production, bypass,  \* configuration
    list, active, conns, \* the saved list of rules; the active accounts; the connections
    doc, ticket,         \* the ticket: what never changes and what does
    items, snapshot,     \* its query access items, and the stored resolution
    grants,              \* access rules made for the ticket: its own, manual ones in their
                         \* place, and rules that are no longer in force
    export,              \* approver of the export request made for the ticket
    req,                 \* the requests in progress
    waived, first,       \* history: a rule without review let the ticket pass; the list
                         \* this server found when it started
    requests, changes, faults

conf == <<production, bypass, first>>
vars == <<production, bypass, list, active, conns, doc, ticket, items, snapshot, grants,
          export, req, waived, first, requests, changes, faults>>

-----------------------------------------------------------------------------
NoDoc    == [type |-> None, by |-> None, conn |-> None, sens |-> None]
NoTicket == [st |-> None, reviewer |-> None, executor |-> None]
NoRes    == Resolution(None, FALSE, FALSE, {}, {})
NoReq    == [op |-> None, at |-> "idle", user |-> None, seen |-> NoTicket, res |-> NoRes]

Rules == StoredRules(list)

CanTransition(from, to) == <<from, to>> \in
    {<<"pending_review", s>> : s \in {"approved", "rejected", "withdrawn", "needs_admin_attention"}}
    \cup {<<"needs_admin_attention", s>> : s \in {"pending_review", "approved"}}
    \cup {<<"approved", s>> : s \in {"pending_execution", "rejected"}}
    \cup {<<"pending_execution", s>> : s \in {"rejected", "executing", "stopped"}}
    \cup {<<"executing", s>> : s \in {"completed", "failed", "stopped", "interrupted"}}

(* The request p goes on at a step, or has answered. *)
Goes(p, at)     == req' = [req EXCEPT ![p].at = at]
Carries(p, at, res) == req' = [req EXCEPT ![p].at = at, ![p].res = res]
Answers(p)      == req' = [req EXCEPT ![p] = NoReq]
At(p, op, at)   == req[p].op \in op /\ req[p].at = at

\* Mutant: the update does not compare the status.
UpdateAnyStatus(from, to, reviewer) ==
    ticket' = [ticket EXCEPT !.st = to, !.reviewer = IF reviewer = None THEN @ ELSE reviewer]

(* UpdateStatus: the row changes only if it still has the expected status. *)
UpdateStatus(from, to, reviewer) ==
    ticket' = IF ticket.st # from THEN ticket
              ELSE [ticket EXCEPT !.st = to, !.reviewer = IF reviewer = None THEN @ ELSE reviewer]

Excluded(res) ==
    ExcludeSubmitter(doc.type, doc.by, res, doc.by \in bypass.review, doc.by \in bypass.execute)

ResolveTicketWorkflow == Excluded(ResolveWorkflow(Rules, active, doc.type, doc.conn, doc.sens))

\* The snapshot decides once there is one, with the bypass settings of today.
TicketWorkflowResolution == IF snapshot = NoRes THEN ResolveTicketWorkflow ELSE Excluded(snapshot)

-----------------------------------------------------------------------------
(* Who may do what, judged on the copy of the ticket the request has read *)

CanReview(u, res) ==
    /\ doc.by = u => u \in bypass.review
    /\ ReviewPermission(doc.type) \in Perms[u]
    /\ res.err = "" /\ res.approval
    /\ "admin" \in MemberOf[u] \/ u \in res.approvers

\* Mutant: the reviewer of the ticket is not looked at.
CanExecuteOwnReview(u, seen, res) ==
    /\ doc.type \in Executable /\ seen.st \in {"pending_execution", "executing"}
    /\ doc.by = u => u \in bypass.execute
    /\ "tickets.execute" \in Perms[u]
    /\ res.err = "" /\ u \in res.executors

CanExecute(u, seen, res) ==
    /\ doc.type \in Executable /\ seen.st \in {"pending_execution", "executing"}
    /\ doc.by = u => u \in bypass.execute
    /\ seen.reviewer = u => u \in bypass.multi
    /\ "tickets.execute" \in Perms[u]
    /\ res.err = "" /\ u \in res.executors

CanReject(u, seen, res) ==
    \/ CanReview(u, res)
    \/ seen.st \in {"approved", "pending_execution"} /\ CanExecute(u, seen, res)

CanWithdraw(u, seen) ==
    "tickets.apply" \in Perms[u] /\ doc.by = u /\ seen.st = "pending_review"

CanRevoke(u, seen) ==
    /\ doc.type \in {"query_access", "sensitive_query_access"} /\ seen.st = "approved"
    /\ (IF doc.type = "query_access" THEN "tickets.review" ELSE "sensitive.review") \in Perms[u]

-----------------------------------------------------------------------------
(* Creating a ticket *)

Shared == UNCHANGED <<conf, list, active, conns, doc, changes>>
Keeps  == Shared /\ UNCHANGED <<items, snapshot, grants, export, waived, requests, faults>>

\* The new row, and the request that made it goes on.
CreateWithScopes(p, d, at) ==
    /\ ticket.st = None /\ req[p] = NoReq /\ d.by \in active /\ d.conn \in conns
    /\ doc' = d
    /\ ticket' = [NoTicket EXCEPT !.st = "pending_review"]
    /\ req' = [req EXCEPT ![p] = [NoReq EXCEPT !.op = "create", !.user = d.by, !.at = at]]
    /\ UNCHANGED <<conf, list, active, conns, items, snapshot, grants, export, waived,
                   requests, changes, faults>>

\* The ticket page: changes of data and structure, and query access with its items.
Create(p, d) ==
    /\ d.type \in Executable \cup {"query_access"} /\ "tickets.apply" \in Perms[d.by]
    /\ CreateWithScopes(p, d, IF d.type = "query_access" THEN "items" ELSE "resolve")

\* The SQL editor: an export, whose sensitivity the token of the executed query tells.
CreateExport(p, d) ==
    /\ d.type = "sql_export" /\ "sql_editor.export" \in Perms[d.by]
    /\ d.sens \in Sensitivities
    /\ CreateWithScopes(p, d, "resolve")

\* The SQL editor: plain text of sensitive columns for a while.
CreateSensitiveAccessTicket(p, d) ==
    /\ d.type = "sensitive_query_access" /\ "sensitive.apply" \in Perms[d.by]
    /\ CreateWithScopes(p, d, "resolve")

\* The items are stored one by one; another one is to come, or this was the last.
CreateTicketItems(p) ==
    /\ At(p, {"create"}, "items")
    /\ items' = TRUE
    /\ Goes(p, "items") \/ Goes(p, "resolve")
    /\ Shared /\ UNCHANGED <<ticket, snapshot, grants, export, waived, requests, faults>>

\* Storing an item failed: the ticket row is deleted again, whatever was decided meanwhile.
DeleteTicket(p) ==
    /\ At(p, {"create"}, "items") /\ faults < MaxFaults
    /\ faults' = faults + 1
    /\ ticket' = [NoTicket EXCEPT !.st = "deleted"] /\ Answers(p)
    /\ Shared /\ UNCHANGED <<items, snapshot, grants, export, waived, requests>>

\* Create takes the snapshot if there is one; a retry always resolves by the rules of now.
Resolve(p) ==
    /\ At(p, {"create", "retry"}, "resolve")
    /\ Carries(p, "save", IF req[p].op = "create" THEN TicketWorkflowResolution
                                                  ELSE ResolveTicketWorkflow)
    /\ Keeps /\ UNCHANGED ticket

SaveWorkflowSnapshot(p) ==
    /\ At(p, {"create", "retry"}, "save")
    /\ snapshot' = req[p].res /\ Goes(p, "route")
    /\ Shared /\ UNCHANGED <<ticket, items, grants, export, waived, requests, faults>>

\* After the snapshot: to the administrators, past the review, or to the reviewers.  The
\* editor's sensitive access tickets have no way past the review.
ApplyWorkflowAfterCreate(p) ==
    LET res == req[p].res
        waive == res.err = "" /\ ~res.approval /\ doc.type # "sensitive_query_access"
        taken == ticket.st = "pending_review"
    IN  /\ At(p, {"create"}, "route")
        /\ IF res.err # "" THEN UpdateStatus("pending_review", "needs_admin_attention", None)
           ELSE IF waive THEN UpdateStatus("pending_review", "approved", None)
           ELSE UNCHANGED ticket
        /\ waived' = (waived \/ (waive /\ taken))
        /\ IF waive /\ (taken \/ doc.type # "sql_export")
             THEN Goes(p, IF doc.type = "sql_export" THEN "ready" ELSE "finish")
             ELSE Answers(p)
        /\ Shared /\ UNCHANGED <<items, snapshot, grants, export, requests, faults>>

\* RetryWorkflowResolution and each ticket of RetryWorkflowResolutionBatch.
RouteRetried(p) ==
    LET res == req[p].res
        taken == ticket.st = "needs_admin_attention" /\ res.err = ""
    IN  /\ At(p, {"retry"}, "route")
        /\ IF res.err # "" THEN UNCHANGED ticket
           ELSE UpdateStatus("needs_admin_attention",
                             IF res.approval THEN "pending_review" ELSE "approved", None)
        /\ waived' = (waived \/ (taken /\ ~res.approval))
        /\ IF taken /\ ~res.approval THEN Goes(p, "finish") ELSE Answers(p)
        /\ Shared /\ UNCHANGED <<items, snapshot, grants, export, requests, faults>>

ShouldAutoExecuteAfterApproval(res) == ~production /\ res.auto /\ doc.type \in Executable

\* Mutant: a ticket without review is queued only when it runs by itself.
FinishAutomatic(p) ==
    /\ At(p, {"create", "retry"}, "finish")
    /\ IF ~ShouldAutoExecuteAfterApproval(req[p].res)
         THEN UNCHANGED ticket /\ Answers(p)
         ELSE /\ UpdateStatus("approved", "pending_execution", None)
              /\ IF ticket.st = "approved" THEN Goes(p, "auto") ELSE Answers(p)
    /\ Keeps

\* finishNoApprovalWorkflow with moveApprovedTicketToPendingExecution.
FinishNoApprovalWorkflow(p) ==
    /\ At(p, {"create", "retry"}, "finish")
    /\ IF doc.type \notin Executable
         THEN UNCHANGED ticket /\ Answers(p)
         ELSE /\ UpdateStatus("approved", "pending_execution", None)
              /\ IF ticket.st = "approved" /\ ShouldAutoExecuteAfterApproval(req[p].res)
                   THEN Goes(p, "auto") ELSE Answers(p)
    /\ Keeps

\* startWorkflowAutoExecution: the system takes the ticket, if nobody else has.
StartWorkflowAutoExecution(p) ==
    /\ req[p].at = "auto"
    /\ ticket' = IF ticket.st # "pending_execution" THEN ticket
                 ELSE [ticket EXCEPT !.st = "executing", !.executor = "system"]
    /\ Answers(p) /\ Keeps

-----------------------------------------------------------------------------
(* Requests on an existing ticket *)

\* execute with a date in the future is schedule, and of a single statement is statement.
Starts    == {"execute", "schedule", "statement"}
Decisions == {"approve", "reject"} \cup Starts
CardActions == {"approve", "reject", "execute"}

\* A web request reads the ticket.
Request(p, u, op) ==
    /\ requests < MaxRequests /\ u \in active /\ req[p] = NoReq
    /\ ticket.st \notin {None, "deleted"}
    /\ requests' = requests + 1
    /\ req' = [req EXCEPT ![p] = [NoReq EXCEPT !.op = op, !.user = u, !.seen = ticket,
                  !.at = CASE op \in Decisions -> "check"
                           [] op = "retry" -> "resolve"
                           [] OTHER -> op]]
    /\ op = "withdraw" => CanWithdraw(u, ticket)
    /\ op = "revoke" => CanRevoke(u, ticket)
    /\ op = "retry" => "settings.write" \in Perms[u] /\ ticket.st = "needs_admin_attention"
    /\ Shared /\ UNCHANGED <<ticket, items, snapshot, grants, export, waived, faults>>

\* A button of a Lark card: the stage of the card is compared with the ticket, then the
\* handler behind the web page runs for the operator of the card.
LarkCardAction(p, u, op) ==
    /\ CASE op = "approve" -> ticket.st = "pending_review"
         [] op = "reject"  -> ticket.st \in {"pending_review", "pending_execution"}
         [] op = "execute" -> ticket.st = "pending_execution"
    /\ Request(p, u, op)

\* The permission check reads the snapshot; the transition is checked on the copy.  A single
\* statement can also be started on a ticket that executes: that changes nothing here.
Check(p) ==
    LET r == req[p] res == TicketWorkflowResolution
        allowed == CASE r.op \in Starts -> CanExecute(r.user, r.seen, res)
                     [] OTHER -> CanReject(r.user, r.seen, res)
        legal == CASE r.op = "approve" -> CanTransition(r.seen.st, "approved")
                   [] r.op = "reject"  -> CanTransition(r.seen.st, "rejected")
                   [] OTHER -> /\ r.seen.st = "pending_execution"
                               /\ r.op = "statement" => doc.type # "redis_command"
    IN  /\ At(p, Decisions, "check")
        /\ IF allowed /\ legal THEN Goes(p, "write") ELSE Answers(p)
        /\ Keeps /\ UNCHANGED ticket

\* Approve: one update, for query access in one transaction with the access rules, which
\* fails when the ticket has no items.
Approve(p) ==
    LET r == req[p]
        fits == ticket.st = r.seen.st /\ (doc.type = "query_access" => items)
    IN  /\ At(p, {"approve"}, "write")
        /\ IF fits THEN UpdateStatus(r.seen.st, "approved", r.user) ELSE UNCHANGED ticket
        /\ grants' = IF fits /\ doc.type = "query_access" THEN {"ticket"} ELSE grants
        /\ IF ~fits THEN Answers(p)
           ELSE CASE doc.type = "sql_export"  -> Goes(p, "ready")
                  [] doc.type \in Executable -> Goes(p, "queue")
                  [] OTHER                   -> Answers(p)
        /\ Shared /\ UNCHANGED <<items, snapshot, export, waived, requests, faults>>

\* ensureReadyExportRequest: made once; a first approver is filled in later if missing.
EnsureReadyExportRequest(p) ==
    LET approver == IF req[p].op = "approve" THEN req[p].user ELSE "nobody"
    IN  /\ req[p].at = "ready"
        /\ export' = IF export \in {None, "nobody"} THEN approver ELSE export
        /\ Answers(p)
        /\ Shared /\ UNCHANGED <<ticket, items, snapshot, grants, waived, requests, faults>>

\* The second update of Approve, then the resolution is read again for the execution mode.
QueueApproved(p) ==
    /\ At(p, {"approve"}, "queue")
    /\ UpdateStatus("approved", "pending_execution", req[p].user)
    /\ IF ticket.st = "approved" THEN Goes(p, "mode") ELSE Answers(p)
    /\ Keeps

ChooseMode(p) ==
    /\ At(p, {"approve"}, "mode")
    /\ IF ShouldAutoExecuteAfterApproval(TicketWorkflowResolution)
         THEN Goes(p, "auto") ELSE Answers(p)
    /\ Keeps /\ UNCHANGED ticket

\* Reject in the execution stage leaves the reviewer and names the person as executor.
Reject(p) ==
    LET r == req[p]
        late == r.seen.st \in {"approved", "pending_execution"}
    IN  /\ At(p, {"reject"}, "write")
        /\ UpdateStatus(r.seen.st, "rejected", IF late THEN None ELSE r.user)
        /\ IF late /\ ticket.st = r.seen.st THEN Goes(p, "taken") ELSE Answers(p)
        /\ Keeps

SetExecutorIfEmpty(p) ==
    /\ At(p, {"reject"}, "taken")
    /\ ticket' = IF ticket.st = "deleted" \/ ticket.executor # None THEN ticket
                 ELSE [ticket EXCEPT !.executor = req[p].user]
    /\ Answers(p) /\ Keeps

\* SetScheduled: executor and date, if the ticket still waits; no row changed is no error.
SetScheduled(p) ==
    /\ At(p, {"schedule"}, "write")
    /\ ticket' = IF ticket.st # "pending_execution" THEN ticket
                 ELSE [ticket EXCEPT !.executor = req[p].user]
    /\ Answers(p) /\ Keeps

\* runScheduler reads the waiting tickets whose date has come: those with an executor, which
\* is stored with the date.
GetDueScheduled(p) ==
    /\ req[p] = NoReq /\ ticket.st = "pending_execution" /\ ticket.executor \in Users
    /\ req' = [req EXCEPT ![p] = [NoReq EXCEPT !.op = "due", !.user = ticket.executor,
                                               !.seen = ticket, !.at = "write"]]
    /\ Keeps /\ UNCHANGED ticket

\* StartExecution by a person, or by the scheduler for the executor of the copy it has read.
StartExecution(p) ==
    /\ At(p, {"execute", "due"}, "write")
    /\ ticket' = IF ticket.st # "pending_execution" THEN ticket
                 ELSE [ticket EXCEPT !.st = "executing", !.executor = req[p].user]
    /\ Answers(p) /\ Keeps

\* ClaimManualStatementExecution: whoever has scheduled the ticket stays its executor.
ClaimManualStatementExecution(p) ==
    /\ At(p, {"statement"}, "write")
    /\ ticket' = IF ticket.st # "pending_execution" THEN ticket
                 ELSE [ticket EXCEPT !.st = "executing",
                                     !.executor = IF @ = None THEN req[p].user ELSE @]
    /\ Answers(p) /\ Keeps

Withdraw(p) ==
    /\ At(p, {"withdraw"}, "withdraw")
    /\ UpdateStatus(req[p].seen.st, "withdrawn", None)
    /\ Answers(p) /\ Keeps

\* Mutant: only the ticket is updated.
RevokeTicketOnly(p) ==
    LET fits == ticket.st = "approved" /\ (doc.type = "query_access" => "ticket" \in grants)
    IN  /\ At(p, {"revoke"}, "revoke")
        /\ ticket' = IF fits THEN [ticket EXCEPT !.st = "stopped"] ELSE ticket
        /\ Answers(p)
        /\ Shared /\ UNCHANGED <<items, snapshot, grants, export, waived, requests, faults>>

\* Revoke: for query access the rules of the ticket go first, and without one that is
\* still in force the ticket is not revocable; both changes are one transaction.
Revoke(p) ==
    LET fits == ticket.st = "approved" /\ (doc.type = "query_access" => "ticket" \in grants)
    IN  /\ At(p, {"revoke"}, "revoke")
        /\ ticket' = IF fits THEN [ticket EXCEPT !.st = "stopped"] ELSE ticket
        /\ grants' = IF fits /\ doc.type = "query_access"
                     THEN (grants \ {"ticket"}) \cup {"ended"} ELSE grants
        /\ Answers(p)
        /\ Shared /\ UNCHANGED <<items, snapshot, export, waived, requests, faults>>

-----------------------------------------------------------------------------
(* The administrator, and failures *)

\* Settings page: the whole list is replaced in one transaction, after it was found valid
\* with the accounts that were active then, at most all of them.
ReplaceWorkflowRules(l) ==
    /\ changes < MaxChanges /\ changes' = changes + 1
    /\ l # list
    /\ ValidRules(l, Users, production)
    /\ \A i \in DOMAIN l : l[i].conn \in conns \cup {Any}
    /\ list' = l
    /\ UNCHANGED <<conf, active, conns, doc, ticket, items, snapshot, grants, export, req, waived,
                   requests, faults>>

\* A connection is deleted: its access rules go, and its workflow rules become rules for
\* every connection.
DeleteConnection(c) ==
    /\ changes < MaxChanges /\ changes' = changes + 1
    /\ c \in conns /\ conns' = conns \ {c}
    /\ list' = [i \in DOMAIN list |->
                   IF list[i].conn = c THEN [list[i] EXCEPT !.conn = Any] ELSE list[i]]
    /\ grants' = IF c = doc.conn /\ grants # {} THEN {"ended"} ELSE grants
    /\ UNCHANGED <<conf, active, doc, ticket, items, snapshot, export, req, waived, requests,
                   faults>>

SetUserActive(u) ==
    /\ changes < MaxChanges /\ changes' = changes + 1
    /\ active' = IF u \in active THEN active \ {u} ELSE active \cup {u}
    /\ UNCHANGED <<conf, list, conns, doc, ticket, items, snapshot, grants, export, req, waived,
                   requests, faults>>

\* Query access page: a rule is revoked, or replaced by a manual one without a ticket.
EditAccessRule(rule, replacement) ==
    /\ changes < MaxChanges /\ changes' = changes + 1
    /\ rule \in grants
    /\ grants' = (grants \ {rule}) \cup replacement \cup {"ended"}
    /\ UNCHANGED <<conf, list, active, conns, doc, ticket, items, snapshot, export, req, waived,
                   requests, faults>>

\* A request ends half way: a Meta DB error, a closed connection, or the process dying.
Fail(p) ==
    /\ req[p] # NoReq /\ faults < MaxFaults
    /\ faults' = faults + 1 /\ Answers(p)
    /\ Shared /\ UNCHANGED <<ticket, items, snapshot, grants, export, waived, requests>>

\* The rules of the start come from the migrations, or were saved by a server that may have
\* run in another environment: nothing checks them again.
Init ==
    /\ production \in Productions /\ bypass \in Bypasses
    /\ active = Users /\ conns = Conns
    /\ list \in FirstRules /\ first = list
    /\ doc = NoDoc /\ ticket = NoTicket /\ items = FALSE /\ snapshot = NoRes
    /\ grants = {} /\ export = None /\ waived = FALSE
    /\ req = [p \in Procs |-> NoReq]
    /\ requests = 0 /\ changes = 0 /\ faults = 0

Handle(p) ==
    \/ CreateTicketItems(p) \/ Resolve(p) \/ SaveWorkflowSnapshot(p)
    \/ ApplyWorkflowAfterCreate(p) \/ RouteRetried(p) \/ FinishNoApprovalWorkflow(p)
    \/ StartWorkflowAutoExecution(p) \/ Check(p) \/ Approve(p) \/ EnsureReadyExportRequest(p)
    \/ QueueApproved(p) \/ ChooseMode(p) \/ Reject(p) \/ SetExecutorIfEmpty(p)
    \/ SetScheduled(p) \/ GetDueScheduled(p) \/ StartExecution(p)
    \/ ClaimManualStatementExecution(p) \/ Withdraw(p) \/ Revoke(p)

Next ==
    \/ \E p \in Procs :
          \/ Handle(p) \/ DeleteTicket(p) \/ Fail(p)
          \/ \E d \in Docs : Create(p, d) \/ CreateExport(p, d) \/ CreateSensitiveAccessTicket(p, d)
          \/ \E u \in Users : \/ \E op \in Decisions \cup {"withdraw", "revoke", "retry"} : Request(p, u, op)
                              \/ \E op \in CardActions : LarkCardAction(p, u, op)
    \/ \E l \in NewRules : ReplaceWorkflowRules(l)
    \/ \E u \in Users : SetUserActive(u)
    \/ \E c \in Conns : DeleteConnection(c)
    \/ \E rule \in {"ticket", "manual"}, new \in {{}, {"manual"}} : EditAccessRule(rule, new)

Spec == Init /\ [][Next]_vars

-----------------------------------------------------------------------------
(* Properties *)

Decision ==
    IF ticket.st \in {"rejected", "withdrawn"} THEN "refused"
    ELSE IF ticket.reviewer # None THEN "reviewed"
    ELSE IF waived THEN "waived" ELSE "open"

Life == INSTANCE TicketLifeCycle WITH stage <- ticket.st, decision <- Decision

\* Every history of requests, rule changes and failures is a life of the ticket as the
\* transition table and the documents describe it: decided once, executed only after a
\* decision, final once ended.
FollowsLifeCycle == Life!LifeSpec

\* Separation of duties: nobody reviews a ticket of their own, executes one of their own,
\* or executes what they have reviewed, unless the settings name them for that bypass;
\* this holds although each check is made on a copy of the ticket read earlier.
FourEyes ==
    /\ ticket.reviewer = doc.by /\ doc.by # None => doc.by \in bypass.review
    /\ ticket.st = "executing" /\ ticket.executor = doc.by => doc.by \in bypass.execute
    /\ ticket.st = "executing" /\ ticket.executor = ticket.reviewer
         => ticket.reviewer \in bypass.multi

\* The list has a rule without review for tickets like this one, for some connection.
Waiving(l, type, sens) == \E i \in DOMAIN l :
    ~l[i].approval /\ l[i].enabled /\ l[i].type = type /\ SensitivityMatches(l[i], sens)

\* What is approved, queued or executing in production was reviewed by a person, and a
\* person started it, whatever is edited while requests are in progress.  The environment
\* is checked when rules are saved and never when they match, so there is one exception: a
\* kind of ticket for which the list had a rule without review when the server started.
ProductionIsReviewed ==
    production /\ ticket.st \in {"approved", "pending_execution", "executing"}
        => /\ ticket.reviewer # None \/ (waived /\ Waiving(first, doc.type, doc.sens))
           /\ ticket.st = "executing" => ticket.executor \in Users

\* Access rules come from a review.  None exists for a ticket nobody reviewed (a ticket that
\* was approved between two of its items is deleted if the second cannot be stored, and its
\* rules stay); revoking the ticket leaves none of its rules in force; and of the approved
\* requests exactly those whose review was waived never had a rule.
GrantsFromReview ==
    /\ grants # {} => ticket.reviewer # None \/ ticket.st = "deleted"
    /\ ticket.st = "stopped" => "ticket" \notin grants
    /\ doc.type = "query_access" /\ ticket.st = "approved" => (grants = {} <=> waived)

\* An executable ticket never rests in approved: some request is about to queue it, unless
\* a request failed on the way.
NoStrandedApproval ==
    doc.type \in Executable /\ ticket.st = "approved" /\ faults = 0
        => \E p \in Procs : req[p].at \in {"queue", "finish"}

\* The page has rules of equal priority in the order of their ids, new ones last, and gives
\* every rule a priority.
InOrder(page) ==
    /\ \A i \in DOMAIN page : page[i].priority # 0
    /\ \A i, j \in DOMAIN page :
          i < j /\ page[i].priority = page[j].priority
             => page[j].id = 0 \/ page[i].id \in 1..(page[j].id - 1)

\* The settings page previews a list before it is saved: the rules it calls effective are
\* the ones that decide tickets after saving, although the preview breaks ties by the ids
\* of the old rules and saving numbers the rules anew.  That needs a page in order: the
\* preview knows neither the new numbers nor the priority that 0 stands for.  It says
\* nothing of the ticket, so the states before there is one are enough.
PreviewShowsWhatSavingDoes ==
    doc = NoDoc => \A page \in PageLists :
        InOrder(page) => PreviewEffective(page) = SavedEffective(page)

=============================================================================
