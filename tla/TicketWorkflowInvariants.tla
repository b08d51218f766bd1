---------------------- MODULE TicketWorkflowInvariants ----------------------
(***************************************************************************)
(* What each step of TicketWorkflow does, field by field, and the          *)
(* inductive invariant.  A handler of internal/handler/ticket and the      *)
(* repository calls under it rewrite one ticket row and one request in     *)
(* flight; the first lemmas say, once per action, when it may happen and   *)
(* what it leaves in the row, the request and the rest, so that the proofs *)
(* of the invariants need not open the records again.  They assume the     *)
(* type invariant Types, which TypesStep shows to be kept.                 *)
(*                                                                         *)
(* None of the properties of the workflow is inductive alone: a request    *)
(* acts on a copy of the row it has read steps ago, so that what is true   *)
(* of the row after its write depends on what the request knew and on how  *)
(* far the row may have moved since.  Pending and Duty say that of every   *)
(* request; Row says what each status implies of the other columns;        *)
(* Guarded says that in production nothing that waives the review is in    *)
(* force, stored or on its way, but for the kinds of ticket the first list *)
(* let pass.  PendingStep shows that each step keeps Pending; the others   *)
(* are proved in TicketWorkflowProofs.                                     *)
(***************************************************************************)
EXTENDS TicketWorkflow, TLAPS

\* The values of the columns and of a request's control point.
Statuses == {None, "pending_review", "needs_admin_attention", "approved", "rejected", "withdrawn",
             "pending_execution", "executing", "stopped", "deleted"}
\* The points between two database calls at which a request may be interrupted.
Steps == {"idle", "items", "resolve", "save", "route", "finish", "ready", "auto", "check",
         "write",
          "queue", "mode", "taken", "withdraw", "revoke"}
\* What a request was sent to do.
Ops == {None, "create", "withdraw", "revoke", "retry", "due"} \cup Decisions
\* What the resolution of the workflow may answer.
Errors == {"", None, "no_matching_rule", "no_approvers", "no_executors"}

\* A row, a resolution, and a request with the copy of the row it has read.
Ticket == [st : Statuses, reviewer : Users \cup {None}, executor : Users \cup {None, "system"}]
Res    == [err : Errors, approval : BOOLEAN, auto : BOOLEAN,
           approvers : SUBSET Users, executors : SUBSET Users]
Req    == [op : Ops, at : Steps, user : Users \cup {None}, seen : Ticket, res : Res]

\* The type invariant.
Types ==
    /\ production \in BOOLEAN /\ active \subseteq Users
    /\ IsRuleList(list)
    /\ ticket \in Ticket /\ req \in [Procs -> Req] /\ snapshot \in Res
    /\ items \in BOOLEAN /\ waived \in BOOLEAN /\ faults \in Nat

-----------------------------------------------------------------------------
\* The words the code keeps for no one and for the workflow itself name no user.
LEMMA Words == None = "none" /\ None \notin Users /\ "system" \notin Users
BY WorkflowAssumption DEF None

\* The absent ticket, the resolution not yet made and the idle request are of their types.
LEMMA Nothing == NoTicket \in Ticket /\ NoRes \in Res /\ NoReq \in Req
<1>1. NoTicket \in Ticket
  BY DEF NoTicket, Ticket, Statuses
<1>2. NoRes \in Res
  <2>1. FALSE \in BOOLEAN /\ {} \in SUBSET Users /\ None \in Errors
    BY Zenon DEF Errors
  <2> QED
    BY <2>1 DEF NoRes, Resolution, Res
<1>3. NoReq \in Req
  BY <1>1, <1>2 DEF NoReq, Req, Ops, Steps
<1> QED
  BY <1>1, <1>2, <1>3

\* What ResolveWorkflow says of the review comes from a rule of the list, or it fails: the
\* answer asks for a review unless the list has a rule that waives it for such a ticket.
LEMMA Resolving ==
  ASSUME Types, NEW type, NEW conn, NEW sens
  PROVE  LET res == ResolveWorkflow(Rules, active, type, conn, sens)
         IN  /\ res \in Res
             /\ ~Waiving(list, type, sens) => res.approval
<1> DEFINE match == MatchWorkflowRule(Rules, type, conn, sens)
           rule  == CHOOSE r \in match : TRUE
           approvers == ResolveWorkflowUsers(active, rule.approvers, ReviewPermission(type))
           executors == IF rule.auto THEN {}
                        ELSE ResolveWorkflowUsers(active, rule.executors, "tickets.execute")
           err == MissingUsers(type, rule.approval, rule.auto, approvers, executors)
<1>1. CASE match = {}
  <2>1. ResolveWorkflow(Rules, active, type, conn, sens)
          = Resolution("no_matching_rule", TRUE, FALSE, {}, {})
    BY <1>1 DEF ResolveWorkflow
  <2>2. TRUE \in BOOLEAN /\ FALSE \in BOOLEAN /\ {} \in SUBSET Users
    BY Zenon
  <2> QED
    BY <2>1, <2>2 DEF Resolution, Res, Errors
<1>2. CASE match # {}
  <2>1. ResolveWorkflow(Rules, active, type, conn, sens)
          = Resolution(err, rule.approval, rule.auto, approvers, executors)
    BY <1>2, Zenon DEF ResolveWorkflow
  <2>2. rule \in match
    BY <1>2
  <2>3. PICK i \in DOMAIN list : rule = [list[i] EXCEPT !.id = i,
        !.priority = IF @ = 0 THEN 100 ELSE @]
    BY <2>2, Zenon DEF MatchWorkflowRule, Rules, StoredRules
  <2>4. /\ {"id", "priority", "approval", "auto", "type", "conn", "sens", "enabled"}
             \subseteq DOMAIN list[i]
        /\ list[i].approval \in BOOLEAN /\ list[i].auto \in BOOLEAN
    BY Zenon DEF Types, IsRuleList
  <2>5. /\ rule.approval = list[i].approval /\ rule.auto = list[i].auto
        /\ rule.type = list[i].type /\ rule.sens = list[i].sens /\ rule.enabled = list[i].enabled
    <3> HIDE DEF rule
    <3> QED
      BY <2>3, <2>4, SMT
  <2>8. rule.enabled /\ rule.type = type /\ SensitivityMatches(rule, sens)
    BY <2>2, Zenon DEF MatchWorkflowRule, Applies
  <2>9. ~Waiving(list, type, sens) => list[i].approval
    BY <2>5, <2>8, Zenon DEF Waiving, SensitivityMatches
  <2>6. approvers \in SUBSET Users /\ executors \in SUBSET Users
    BY DEF ResolveWorkflowUsers, Types
  <2>7. err \in Errors
    BY DEF MissingUsers, Errors
  <2> QED
    BY <2>1, <2>4, <2>5, <2>6, <2>7, <2>9 DEF Resolution, Res
<1> QED
  BY <1>1, <1>2

\* Taking the submitter out of the approvers keeps what the rule says of the review, and
\* never turns a failed resolution into a successful one.
LEMMA Excluding ==
  ASSUME Types, NEW r \in Res
  PROVE  /\ Excluded(r) \in Res
         /\ Excluded(r).approval = r.approval
         /\ Excluded(r).err = "" => r.err = ""
BY Zenon DEF Excluded, ExcludeSubmitter, MissingUsers, Resolution, Res, Errors, Types

\* The resolutions that let nothing pass without review.
Strict == {res \in Res : res.err = "" => res.approval}

\* Both ways in which the handlers obtain a resolution (from the rules, or from the snapshot
\* when there is one) give one that lets nothing pass unreviewed, if the list waives no review
\* of such a ticket and the snapshot lets nothing pass.
LEMMA Resolutions ==
  ASSUME Types
  PROVE  /\ ResolveTicketWorkflow \in Res /\ TicketWorkflowResolution \in Res
         /\ ~Waiving(list, doc.type, doc.sens) => ResolveTicketWorkflow \in Strict
         /\ ~Waiving(list, doc.type, doc.sens) /\ snapshot \in Strict
              => TicketWorkflowResolution \in Strict
<1>1. ResolveWorkflow(Rules, active, doc.type, doc.conn, doc.sens) \in Res
  BY Resolving
<1>2. ~Waiving(list, doc.type, doc.sens)
        => ResolveWorkflow(Rules, active, doc.type, doc.conn, doc.sens).approval
  BY Resolving
<1>3. snapshot \in Res
  BY DEF Types
<1> QED
  BY <1>1, <1>2, <1>3, Excluding, Zenon
     DEF ResolveTicketWorkflow, TicketWorkflowResolution, Strict

-----------------------------------------------------------------------------
\* Only the request of p changes, and it stays a request.
Others(p) == req' \in [Procs -> Req] /\ \A q \in Procs \ {p} : req'[q] = req[q]

\* The request of p keeps its operation, its user and the copy of the row it has read.
Same(p) == /\ req'[p].op = req[p].op /\ req'[p].user = req[p].user /\ req'[p].seen = req[p].seen

\* Goes moves the control point of one request and nothing else of it.
LEMMA GoesOn ==
  ASSUME Types, NEW p \in Procs, NEW at \in Steps, Goes(p, at)
  PROVE  Others(p) /\ Same(p) /\ req'[p].at = at /\ req'[p].res = req[p].res
<1>1. req[p] \in Req /\ req \in [Procs -> Req]
  BY DEF Types
<1> DEFINE m == [req[p] EXCEPT !.at = at]
<1>2. m \in Req /\ m.op = req[p].op /\ m.user = req[p].user /\ m.seen = req[p].seen
      /\ m.at = at /\ m.res = req[p].res
  BY <1>1 DEF Req
<1>3. req' = [req EXCEPT ![p] = m]
  BY DEF Goes
<1> HIDE DEF m
<1> QED
  BY <1>1, <1>2, <1>3 DEF Others, Same

\* Carries moves the control point of one request and gives it a resolution.
LEMMA CarriesOn ==
  ASSUME Types, NEW p \in Procs, NEW at \in Steps, NEW res \in Res, Carries(p, at, res)
  PROVE  Others(p) /\ Same(p) /\ req'[p].at = at /\ req'[p].res = res
<1>1. req[p] \in Req /\ req \in [Procs -> Req]
  BY DEF Types
<1> DEFINE m == [req[p] EXCEPT !.at = at, !.res = res]
<1>2. m \in Req /\ m.op = req[p].op /\ m.user = req[p].user /\ m.seen = req[p].seen
      /\ m.at = at /\ m.res = res
  BY <1>1, Zenon DEF Req
<1>3. req' = [req EXCEPT ![p] = m]
  BY <1>1, Zenon DEF Carries
<1> HIDE DEF m
<1> QED
  BY <1>1, <1>2, <1>3 DEF Others, Same

\* Answers leaves the idle request behind.
LEMMA AnswersOff ==
  ASSUME Types, NEW p \in Procs, Answers(p)
  PROVE  Others(p) /\ req'[p] = NoReq
BY Nothing DEF Answers, Others, Types

\* UpdateTicketStatus is a compare-and-set: it writes the status, and the reviewer if one is
\* given, when the row has the expected status, and nothing otherwise.
LEMMA Updates ==
  ASSUME Types, NEW from, NEW to \in Statuses, NEW u \in Users \cup {None}, UpdateStatus(from,
         to, u)
  PROVE  /\ ticket' \in Ticket /\ ticket'.executor = ticket.executor
         /\ ticket.st # from => ticket' = ticket
         /\ ticket.st = from => /\ ticket'.st = to
                                /\ ticket'.reviewer = IF u = None THEN ticket.reviewer ELSE u
BY Zenon DEF UpdateStatus, Types, Ticket

\* The request of p goes on at another point.
Moves(p, at) == Others(p) /\ Same(p) /\ req'[p].at = at /\ req'[p].res = req[p].res
\* The request of p is answered.
Ends(p)      == Others(p) /\ req'[p] = NoReq
\* The row after a write.
Sets(st, reviewer, executor) ==
    /\ ticket' \in Ticket
    /\ ticket'.st = st /\ ticket'.reviewer = reviewer /\ ticket'.executor = executor
\* The reviewer the row holds after a write with the user of the request.
Deciding(p) == IF req[p].user = None THEN ticket.reviewer ELSE req[p].user
\* What only the administrator and the creation change.
Settled == UNCHANGED <<production, bypass, list, active, doc, first>>

\* The three lemmas above, in the vocabulary of the effects.
LEMMA Pieces ==
  ASSUME Types, NEW p \in Procs
  PROVE  /\ \A at \in Steps : Goes(p, at) => Moves(p, at)
         /\ Answers(p) => Ends(p)
         /\ \A from \in Statuses, to \in Statuses, u \in Users \cup {None} :
               UpdateStatus(from, to, u) =>
                   \/ ticket.st # from /\ ticket' = ticket
                   \/ /\ ticket.st = from
                      /\ Sets(to, IF u = None THEN ticket.reviewer ELSE u, ticket.executor)
<1>1. ASSUME NEW at \in Steps, Goes(p, at) PROVE Moves(p, at)
  BY <1>1, GoesOn DEF Moves
<1>2. ASSUME Answers(p) PROVE Ends(p)
  BY <1>2, AnswersOff DEF Ends
<1>3. ASSUME NEW from \in Statuses, NEW to \in Statuses, NEW u \in Users \cup {None},
             UpdateStatus(from, to, u)
      PROVE  \/ ticket.st # from /\ ticket' = ticket
             \/ /\ ticket.st = from
                /\ Sets(to, IF u = None THEN ticket.reviewer ELSE u, ticket.executor)
  BY <1>3, Updates DEF Sets
<1> QED
  BY <1>1, <1>2, <1>3

\* The updates the repository makes without comparing the status write just what they name.
LEMMA Rewrites ==
  ASSUME Types, NEW st \in Statuses, NEW e \in Users \cup {None, "system"}
  PROVE  /\ ticket' = [ticket EXCEPT !.st = st, !.executor = e] => Sets(st, ticket.reviewer, e)
         /\ ticket' = [ticket EXCEPT !.executor = e] => Sets(ticket.st, ticket.reviewer, e)
         /\ ticket' = [ticket EXCEPT !.st = st] => Sets(st, ticket.reviewer, ticket.executor)
BY Zenon DEF Types, Ticket, Sets

\* The types of the fields of the row and of a request.
LEMMA Fields ==
  ASSUME Types, NEW p \in Procs
  PROVE  /\ req[p].user \in Users \cup {None} /\ req[p].at \in Steps /\ req[p].op \in Ops
         /\ req[p].seen.st \in Statuses /\ req[p].seen.reviewer \in Users \cup {None}
         /\ req[p].res \in Res
         /\ ticket.st \in Statuses /\ ticket.reviewer \in Users \cup {None}
         /\ ticket.executor \in Users \cup {None, "system"}
BY DEF Types, Req, Ticket

\* CreateTicketItems stores an item and goes on to the next one or to the resolution.
LEMMA ItemsStored ==
  ASSUME Types, NEW p \in Procs, CreateTicketItems(p)
  PROVE  /\ req[p].op = "create" /\ req[p].at = "items"
         /\ Moves(p, "items") \/ Moves(p, "resolve")
         /\ items' /\ Settled /\ UNCHANGED <<ticket, snapshot, grants, waived, faults>>
BY Pieces, Fields, Words, Zenon DEF CreateTicketItems, Steps, Statuses, At, Settled, Shared,
   Keeps, conf

\* SaveWorkflowSnapshot stores the resolution of the request and goes on to the routing.
LEMMA Saved ==
  ASSUME Types, NEW p \in Procs, SaveWorkflowSnapshot(p)
  PROVE  /\ req[p].op \in {"create", "retry"} /\ req[p].at = "save" /\ Moves(p, "route")
         /\ snapshot' = req[p].res /\ Settled
            /\ UNCHANGED <<ticket, items, grants, waived, faults>>
BY Pieces, Fields, Words DEF SaveWorkflowSnapshot, Steps, Statuses, At, Settled, Shared, Keeps,
   conf

\* ApplyWorkflowAfterCreate parks the ticket for an administrator, waives the review when the
\* resolution says so, or leaves the row alone; it writes only a row still pending review.
LEMMA Routed ==
  ASSUME Types, NEW p \in Procs, ApplyWorkflowAfterCreate(p)
  PROVE  /\ req[p].op = "create" /\ req[p].at = "route"
         /\ \/ /\ ticket.st = "pending_review"
                  /\ Sets("needs_admin_attention", ticket.reviewer, ticket.executor)
               /\ waived' = waived /\ Ends(p)
            \/ /\ ticket.st = "pending_review"
                  /\ Sets("approved", ticket.reviewer, ticket.executor)
               /\ req[p].res.err = "" /\ ~req[p].res.approval /\ waived'
               /\ Moves(p, IF doc.type = "sql_export" THEN "ready" ELSE "finish")
            \/ /\ ticket' = ticket /\ waived' = waived
               /\ Ends(p) \/ Moves(p, "finish")
         /\ Settled /\ UNCHANGED <<items, snapshot, grants, faults>>
<1> DEFINE res == req[p].res
           waive == res.err = "" /\ ~res.approval /\ doc.type # "sensitive_query_access"
           U(to) == \/ ticket.st # "pending_review" /\ ticket' = ticket
                    \/ ticket.st = "pending_review" /\ Sets(to, ticket.reviewer, ticket.executor)
<1>1. /\ UpdateStatus("pending_review", "needs_admin_attention",
         None) => U("needs_admin_attention")
      /\ UpdateStatus("pending_review", "approved", None) => U("approved")
  BY Pieces DEF Statuses
<1>2. /\ req[p].op = "create" /\ req[p].at = "route"
      /\ Settled /\ UNCHANGED <<items, snapshot, grants, faults>>
  BY Zenon DEF ApplyWorkflowAfterCreate, At, Shared, conf, Settled
<1>3. CASE res.err # ""
  <2>1. Ends(p) /\ waived' = waived
    BY <1>3, Pieces, Zenon DEF ApplyWorkflowAfterCreate, Types
  <2>2. U("needs_admin_attention")
    BY <1>3, <1>1, Zenon DEF ApplyWorkflowAfterCreate
  <2> QED
    BY <2>1, <2>2, <1>2, Zenon
<1>4. CASE waive /\ ticket.st = "pending_review"
  <2>1. waived' /\ Goes(p, IF doc.type = "sql_export" THEN "ready" ELSE "finish")
    BY <1>4, Zenon DEF ApplyWorkflowAfterCreate
  <2>2. Moves(p, IF doc.type = "sql_export" THEN "ready" ELSE "finish")
    BY <2>1, Pieces DEF Steps
  <2>3. U("approved")
    BY <1>4, <1>1, Zenon DEF ApplyWorkflowAfterCreate
  <2> QED
    BY <1>4, <2>1, <2>2, <2>3, <1>2, Zenon
<1>5. CASE waive /\ ticket.st # "pending_review"
  <2>1. waived' = waived
    BY <1>5, Zenon DEF ApplyWorkflowAfterCreate, Types
  <2>2. Ends(p) \/ Moves(p, "finish")
    BY <1>5, Pieces, Zenon DEF ApplyWorkflowAfterCreate, Steps
  <2>3. U("approved")
    BY <1>5, <1>1, Zenon DEF ApplyWorkflowAfterCreate
  <2> QED
    BY <1>5, <2>1, <2>2, <2>3, <1>2, Zenon
<1>6. CASE res.err = "" /\ ~waive
  <2>1. waived' = waived
    BY <1>6, Zenon DEF ApplyWorkflowAfterCreate, Types
  <2>2. Ends(p) /\ ticket' = ticket
    BY <1>6, Pieces, Zenon DEF ApplyWorkflowAfterCreate, Steps
  <2> QED
    BY <2>1, <2>2, <1>2
<1> QED
  BY <1>3, <1>4, <1>5, <1>6, Zenon

\* The retry of a parked ticket sends it to review, waives the review, or leaves it alone.
LEMMA RoutedAgain ==
  ASSUME Types, NEW p \in Procs, RouteRetried(p)
  PROVE  /\ req[p].op = "retry" /\ req[p].at = "route"
         /\ \/ /\ ticket.st = "needs_admin_attention"
                  /\ Sets("pending_review", ticket.reviewer, ticket.executor)
               /\ waived' = waived /\ Ends(p)
            \/ /\ ticket.st = "needs_admin_attention"
                  /\ Sets("approved", ticket.reviewer, ticket.executor)
               /\ req[p].res.err = "" /\ ~req[p].res.approval /\ waived' /\ Moves(p, "finish")
            \/ ticket' = ticket /\ waived' = waived /\ Ends(p)
         /\ Settled /\ UNCHANGED <<items, snapshot, grants, faults>>
<1> DEFINE res == req[p].res
           taken == ticket.st = "needs_admin_attention" /\ res.err = ""
           U(to) == \/ ticket.st # "needs_admin_attention" /\ ticket' = ticket
                    \/ ticket.st = "needs_admin_attention"
                       /\ Sets(to, ticket.reviewer, ticket.executor)
<1>1. /\ UpdateStatus("needs_admin_attention", "pending_review", None) => U("pending_review")
      /\ UpdateStatus("needs_admin_attention", "approved", None) => U("approved")
  BY Pieces DEF Statuses
<1>2. /\ req[p].op = "retry" /\ req[p].at = "route"
      /\ Settled /\ UNCHANGED <<items, snapshot, grants, faults>>
  BY Zenon DEF RouteRetried, At, Shared, conf, Settled
<1>3. CASE ~taken
  <2>1. Ends(p) /\ waived' = waived
    BY <1>3, Pieces, Zenon DEF RouteRetried, Types
  <2>2. ticket' = ticket
    BY <1>3, <1>1, Zenon DEF RouteRetried
  <2> QED
    BY <2>1, <2>2, <1>2
<1>4. CASE taken /\ res.approval
  <2>1. Ends(p) /\ waived' = waived
    BY <1>4, Pieces, Zenon DEF RouteRetried, Types
  <2>2. U("pending_review")
    BY <1>4, <1>1, Zenon DEF RouteRetried
  <2> QED
    BY <1>4, <2>1, <2>2, <1>2, Zenon
<1>5. CASE taken /\ ~res.approval
  <2>1. waived' /\ Moves(p, "finish")
    BY <1>5, Pieces, Zenon DEF RouteRetried, Steps
  <2>2. U("approved")
    BY <1>5, <1>1, Zenon DEF RouteRetried
  <2> QED
    BY <1>5, <2>1, <2>2, <1>2, Zenon
<1> QED
  BY <1>3, <1>4, <1>5, Zenon

\* finishNoApprovalWorkflow queues an approved ticket, and goes on to an automatic execution
\* only outside production.
LEMMA Finished ==
  ASSUME Types, NEW p \in Procs, FinishNoApprovalWorkflow(p)
  PROVE  /\ req[p].op \in {"create", "retry"} /\ req[p].at = "finish"
         /\ \/ doc.type \notin Executable /\ ticket' = ticket /\ Ends(p)
            \/ ticket.st # "approved" /\ ticket' = ticket /\ Ends(p)
            \/ /\ doc.type \in Executable /\ ticket.st = "approved"
                  /\ Sets("pending_execution", ticket.reviewer, ticket.executor)
               /\ Ends(p) \/ (Moves(p, "auto") /\ ~production)
         /\ Settled /\ UNCHANGED <<items, snapshot, grants, waived, faults>>
BY Pieces, Fields, Words DEF FinishNoApprovalWorkflow, ShouldAutoExecuteAfterApproval, Steps,
   Statuses, At, Settled, Shared, Keeps, conf

\* The automatic execution starts a queued ticket in the name of the system.
LEMMA Started ==
  ASSUME Types, NEW p \in Procs, StartWorkflowAutoExecution(p)
  PROVE  /\ req[p].at = "auto" /\ Ends(p)
         /\ \/ ticket.st = "pending_execution" /\ Sets("executing", ticket.reviewer, "system")
            \/ ticket' = ticket
         /\ Settled /\ UNCHANGED <<items, snapshot, grants, waived, faults>>
BY Pieces, Rewrites, Fields, Words, Zenon
   DEF StartWorkflowAutoExecution, Steps, Statuses, At, Settled, Shared, Keeps, conf

\* Approve writes only over the status it has read; the grant comes with the same commit.
LEMMA Approved ==
  ASSUME Types, NEW p \in Procs, Approve(p)
  PROVE  /\ req[p].op = "approve" /\ req[p].at = "write"
         /\ \/ /\ ticket.st = req[p].seen.st /\ (doc.type = "query_access" => items)
               /\ Sets("approved", Deciding(p), ticket.executor)
               /\ grants' = IF doc.type = "query_access" THEN {"ticket"} ELSE grants
               /\ \/ doc.type \in Executable /\ Moves(p, "queue")
                  \/ doc.type \notin Executable /\ (Moves(p, "ready") \/ Ends(p))
            \/ ticket' = ticket /\ grants' = grants /\ Ends(p)
         /\ Settled /\ UNCHANGED <<items, snapshot, waived, faults>>
BY Pieces, Fields, Words, Zenon
   DEF Approve, Executable, Deciding, Steps, Statuses, At, Settled, Shared,
   Keeps, conf

\* Preparing an export request leaves the ticket alone.
LEMMA Readied ==
  ASSUME Types, NEW p \in Procs, EnsureReadyExportRequest(p)
  PROVE  /\ req[p].at = "ready" /\ Ends(p)
         /\ Settled /\ UNCHANGED <<ticket, items, snapshot, grants, waived, faults>>
BY Pieces, Fields, Words, Zenon
   DEF EnsureReadyExportRequest, Steps, Statuses, At, Settled, Shared,
   Keeps, conf

\* Queuing after the approval writes only a row that is still approved.
LEMMA Queued ==
  ASSUME Types, NEW p \in Procs, QueueApproved(p)
  PROVE  /\ req[p].op = "approve" /\ req[p].at = "queue"
         /\ \/ /\ ticket.st = "approved" /\ Moves(p, "mode")
               /\ Sets("pending_execution", Deciding(p), ticket.executor)
            \/ ticket.st # "approved" /\ ticket' = ticket /\ Ends(p)
         /\ Settled /\ UNCHANGED <<items, snapshot, grants, waived, faults>>
BY Pieces, Fields, Words, Zenon
   DEF QueueApproved, Deciding, Steps, Statuses, At, Settled, Shared,
   Keeps, conf

\* After queuing, an automatic execution follows only outside production.
LEMMA ModeChosen ==
  ASSUME Types, NEW p \in Procs, ChooseMode(p)
  PROVE  /\ req[p].op = "approve" /\ req[p].at = "mode" /\ (Ends(p) \/ (Moves(p, "auto")
            /\ ~production))
         /\ Settled /\ UNCHANGED <<ticket, items, snapshot, grants, waived, faults>>
BY Pieces, Fields, Words DEF ChooseMode, ShouldAutoExecuteAfterApproval, Steps, Statuses, At,
   Settled, Shared, Keeps, conf

\* Reject writes only over the status it has read; the reviewer of an approved ticket stays.
LEMMA Rejected ==
  ASSUME Types, NEW p \in Procs, Reject(p)
  PROVE  /\ req[p].op = "reject" /\ req[p].at = "write"
         /\ \/ /\ ticket.st = req[p].seen.st
               /\ IF ticket.st \in {"approved", "pending_execution"}
                    THEN Moves(p, "taken") /\ Sets("rejected", ticket.reviewer, ticket.executor)
                    ELSE Ends(p) /\ Sets("rejected", Deciding(p), ticket.executor)
            \/ ticket' = ticket /\ Ends(p)
         /\ Settled /\ UNCHANGED <<items, snapshot, grants, waived, faults>>
<1> DEFINE st == req[p].seen.st
           late == st \in {"approved", "pending_execution"}
           u == IF late THEN None ELSE req[p].user
<1>1. \/ ticket.st # st /\ ticket' = ticket
      \/ ticket.st = st /\ Sets("rejected", IF u = None THEN ticket.reviewer ELSE u,
         ticket.executor)
  <2>1. st \in Statuses /\ "rejected" \in Statuses /\ u \in Users \cup {None}
    BY Fields DEF Statuses
  <2>2. UpdateStatus(st, "rejected", u)
    BY DEF Reject
  <2> HIDE DEF st, u
  <2> QED
    BY <2>1, <2>2, Pieces
<1>2. IF late /\ ticket.st = st THEN Moves(p, "taken") ELSE Ends(p)
  BY Pieces, Zenon DEF Reject, Steps
<1>3. req[p].op = "reject" /\ req[p].at = "write"
      /\ Settled /\ UNCHANGED <<items, snapshot, grants, waived, faults>>
  BY DEF Reject, At, Settled, Shared, Keeps, conf
<1> QED
  BY <1>1, <1>2, <1>3 DEF Deciding

\* SetExecutorIfEmpty names the executor of a rejected ticket and nothing else.
LEMMA Taken ==
  ASSUME Types, NEW p \in Procs, SetExecutorIfEmpty(p)
  PROVE  /\ req[p].op = "reject" /\ req[p].at = "taken" /\ Ends(p)
         /\ ticket' = ticket \/ Sets(ticket.st, ticket.reviewer, req[p].user)
         /\ Settled /\ UNCHANGED <<items, snapshot, grants, waived, faults>>
BY Pieces, Rewrites, Fields, Words, Zenon
   DEF SetExecutorIfEmpty, Steps, Statuses, At, Settled, Shared, Keeps, conf

\* SetScheduled names the executor of a queued ticket and nothing else.
LEMMA Scheduled ==
  ASSUME Types, NEW p \in Procs, SetScheduled(p)
  PROVE  /\ req[p].op = "schedule" /\ req[p].at = "write" /\ Ends(p)
         /\ \/ /\ ticket.st = "pending_execution"
               /\ Sets("pending_execution", ticket.reviewer, req[p].user)
            \/ ticket' = ticket
         /\ Settled /\ UNCHANGED <<items, snapshot, grants, waived, faults>>
BY Pieces, Rewrites, Fields, Words, Zenon
   DEF SetScheduled, Steps, Statuses, At, Settled, Shared, Keeps, conf

\* ClaimManualStatementExecution takes a queued ticket, in the name of the user who scheduled
\* it if there is one, and else of the user who asked for it.
LEMMA Claimed ==
  ASSUME Types, NEW p \in Procs, ClaimManualStatementExecution(p)
  PROVE  /\ req[p].op = "statement" /\ req[p].at = "write" /\ Ends(p)
         /\ \/ /\ ticket.st = "pending_execution"
               /\ \/ ticket.executor = None /\ Sets("executing", ticket.reviewer, req[p].user)
                  \/ /\ ticket.executor # None
                     /\ Sets("executing", ticket.reviewer, ticket.executor)
            \/ ticket' = ticket
         /\ Settled /\ UNCHANGED <<items, snapshot, grants, waived, faults>>
<1>1. /\ req[p].op = "statement" /\ req[p].at = "write" /\ Ends(p)
      /\ Settled /\ UNCHANGED <<items, snapshot, grants, waived, faults>>
  BY Pieces, Zenon DEF ClaimManualStatementExecution, At, Settled, Shared, Keeps, conf
<1> DEFINE e == IF ticket.executor = None THEN req[p].user ELSE ticket.executor
<1>2. ticket' = ticket \/ (ticket.st = "pending_execution"
                          /\ ticket' = [ticket EXCEPT !.st = "executing", !.executor = e])
  BY Zenon DEF ClaimManualStatementExecution
<1>3. e \in Users \cup {None, "system"} /\ "executing" \in Statuses
  BY Fields DEF Statuses
<1> HIDE DEF e
<1>4. ticket' = ticket \/ (ticket.st = "pending_execution" /\ Sets("executing", ticket.reviewer, e))
  BY <1>2, <1>3, Rewrites, Zenon
<1> QED
  BY <1>1, <1>4, Zenon DEF e

\* The scheduler reads a queued ticket that names its executor, and acts for that executor.
LEMMA DueRead ==
  ASSUME Types, NEW p \in Procs, GetDueScheduled(p)
  PROVE  /\ ticket.st = "pending_execution" /\ ticket.executor \in Users /\ req[p] = NoReq
         /\ Others(p) /\ req'[p].op = "due" /\ req'[p].user = ticket.executor
         /\ req'[p].seen = ticket /\ req'[p].at = "write" /\ req'[p].res = NoRes
         /\ Settled /\ UNCHANGED <<ticket, items, snapshot, grants, waived, faults>>
<1> DEFINE m == [NoReq EXCEPT !.op = "due", !.user = ticket.executor, !.seen = ticket,
                              !.at = "write"]
<1>1. ticket.st = "pending_execution" /\ ticket.executor \in Users /\ req[p] = NoReq
      /\ req' = [req EXCEPT ![p] = m]
  BY Zenon DEF GetDueScheduled
<1>2. m \in Req
  BY <1>1, Nothing, Zenon DEF Req, Ops, Steps, Types
<1>3. m.op = "due" /\ m.at = "write" /\ m.user = ticket.executor /\ m.seen = ticket
      /\ m.res = NoRes
  BY DEF NoReq
<1> HIDE DEF m
<1>4. Others(p) /\ req'[p] = m
  BY <1>1, <1>2 DEF Others, Types
<1> QED
  BY <1>1, <1>3, <1>4, Zenon DEF GetDueScheduled, Keeps, Shared, Settled, conf

\* StartExecution takes a queued ticket in the name of the user of the request.
LEMMA Executed ==
  ASSUME Types, NEW p \in Procs, StartExecution(p)
  PROVE  /\ req[p].op \in {"execute", "due"} /\ req[p].at = "write" /\ Ends(p)
         /\ \/ ticket.st = "pending_execution" /\ Sets("executing", ticket.reviewer, req[p].user)
            \/ ticket' = ticket
         /\ Settled /\ UNCHANGED <<items, snapshot, grants, waived, faults>>
BY Pieces, Rewrites, Fields, Words, Zenon
   DEF StartExecution, Steps, Statuses, At, Settled, Shared, Keeps, conf

\* Withdraw writes only over the status it has read.
LEMMA Withdrawn ==
  ASSUME Types, NEW p \in Procs, Withdraw(p)
  PROVE  /\ req[p].op = "withdraw" /\ req[p].at = "withdraw" /\ Ends(p)
         /\ \/ ticket.st = req[p].seen.st /\ Sets("withdrawn", ticket.reviewer, ticket.executor)
            \/ ticket' = ticket
         /\ Settled /\ UNCHANGED <<items, snapshot, grants, waived, faults>>
<1>1. \/ ticket.st # req[p].seen.st /\ ticket' = ticket
      \/ ticket.st = req[p].seen.st /\ Sets("withdrawn", ticket.reviewer, ticket.executor)
  <2>1. req[p].seen.st \in Statuses /\ "withdrawn" \in Statuses /\ None \in Users \cup {None}
    BY Fields DEF Statuses
  <2>2. UpdateStatus(req[p].seen.st, "withdrawn", None)
    BY DEF Withdraw
  <2> QED
    BY <2>1, <2>2, Pieces
<1> QED
  BY <1>1, Pieces, Zenon DEF Withdraw, At, Settled, Shared, Keeps, conf

\* Revoke stops an approved access ticket and takes back what it granted.
LEMMA Revoked ==
  ASSUME Types, NEW p \in Procs, Revoke(p)
  PROVE  /\ req[p].op = "revoke" /\ req[p].at = "revoke" /\ Ends(p)
         /\ \/ /\ ticket.st = "approved" /\ Sets("stopped", ticket.reviewer, ticket.executor)
               /\ \/ /\ doc.type = "query_access" /\ grants # {}
                     /\ grants' = (grants \ {"ticket"}) \cup {"ended"}
                  \/ doc.type # "query_access" /\ grants' = grants
            \/ ticket' = ticket /\ grants' = grants
         /\ Settled /\ UNCHANGED <<items, snapshot, waived, faults>>
BY Pieces, Rewrites, Fields, Words, Zenon
   DEF Revoke, Steps, Statuses, At, Settled, Shared, Keeps, conf

\* A creation that cannot store its items deletes its row.
LEMMA Deleted ==
  ASSUME Types, NEW p \in Procs, DeleteTicket(p)
  PROVE  /\ req[p].op = "create" /\ req[p].at = "items" /\ Ends(p) /\ Sets("deleted", None, None)
         /\ faults' = faults + 1 /\ Settled /\ UNCHANGED <<items, snapshot, grants, waived>>
<1>1. ticket' = [st |-> "deleted", reviewer |-> None, executor |-> None]
  BY DEF DeleteTicket, NoTicket
<1>2. Sets("deleted", None, None)
  BY <1>1 DEF Sets, Ticket, Statuses
<1> QED
  BY <1>2, Pieces DEF DeleteTicket, At, Settled, Shared, conf

\* A step that fails answers the request and changes nothing else.
LEMMA Failed ==
  ASSUME Types, NEW p \in Procs, Fail(p)
  PROVE  /\ Ends(p) /\ faults' = faults + 1
         /\ Settled /\ UNCHANGED <<ticket, items, snapshot, grants, waived>>
BY Pieces, Fields, Words, Zenon DEF Fail, Steps, Statuses, At, Settled, Shared, Keeps, conf

\* The resolution of a new ticket may come from the snapshot, that of a retried one is new.
LEMMA Resolved ==
  ASSUME Types, NEW p \in Procs, Resolve(p)
  PROVE  /\ req[p].op \in {"create", "retry"} /\ req[p].at = "resolve"
         /\ Others(p) /\ Same(p) /\ req'[p].at = "save"
         /\ req'[p].res = IF req[p].op = "create" THEN TicketWorkflowResolution ELSE
                ResolveTicketWorkflow
         /\ Settled /\ UNCHANGED <<ticket, items, snapshot, grants, waived, faults>>
<1> DEFINE res == IF req[p].op = "create" THEN TicketWorkflowResolution ELSE ResolveTicketWorkflow
<1>1. res \in Res
  BY Resolutions
<1>2. Carries(p, "save", res)
  BY DEF Resolve
<1> HIDE DEF res
<1>3. Others(p) /\ Same(p) /\ req'[p].at = "save" /\ req'[p].res = res
  BY <1>1, <1>2, CarriesOn DEF Steps
<1> QED
  BY <1>3 DEF Resolve, res, At, Settled, Shared, Keeps, conf

\* A decision passes its checks on the copy of the row it has read: the status allows it, and
\* the user is not the submitter (nor, for an execution, the reviewer) without a bypass.
LEMMA Checked ==
  ASSUME Types, NEW p \in Procs, Check(p)
  PROVE  /\ req[p].op \in Decisions /\ req[p].at = "check"
         /\ \/ Ends(p)
            \/ /\ Moves(p, "write")
               /\ req[p].op = "approve" =>
                    /\ req[p].seen.st \in {"pending_review", "needs_admin_attention"}
                    /\ doc.by = req[p].user => req[p].user \in bypass.review
               /\ req[p].op = "reject" =>
                    /\ req[p].seen.st \in {"pending_review", "approved", "pending_execution"}
                    /\ req[p].seen.st = "pending_review" /\ doc.by = req[p].user
                         => req[p].user \in bypass.review
               /\ req[p].op \in Starts =>
                    /\ req[p].seen.st = "pending_execution"
                    /\ doc.by = req[p].user => req[p].user \in bypass.execute
                    /\ req[p].seen.reviewer = req[p].user => req[p].user \in bypass.multi
         /\ Settled /\ UNCHANGED <<ticket, items, snapshot, grants, waived, faults>>
<1>1. (\A s : CanTransition(s, "approved") => s \in {"pending_review", "needs_admin_attention"})
      /\ (\A s : CanTransition(s, "rejected") => s \in {"pending_review", "approved",
         "pending_execution"})
  BY DEF CanTransition
<1> QED
  BY <1>1, Pieces, Zenon
     DEF Check, CanReject, CanReview, CanExecute, Decisions, Starts, Steps, At, Settled,
     Shared, Keeps, conf

\* A creation writes the row pending review, in the name of the submitter, once.
LEMMA Created ==
  ASSUME Types, NEW p \in Procs, NEW d, NEW at \in Steps, CreateWithScopes(p, d, at)
  PROVE  /\ ticket.st = None /\ req[p] = NoReq /\ doc' = d /\ d.by \in Users
         /\ Sets("pending_review", None, None)
         /\ Others(p) /\ req'[p].op = "create" /\ req'[p].at = at /\ req'[p].user = d.by
         /\ req'[p].seen = NoTicket /\ req'[p].res = NoRes
         /\ UNCHANGED <<production, bypass, list, active, first, items, snapshot, grants, waived,
            faults>>
<1>1. ticket' = [st |-> "pending_review", reviewer |-> None, executor |-> None]
  BY DEF CreateWithScopes, NoTicket
<1>2. Sets("pending_review", None, None)
  BY <1>1 DEF Sets, Ticket, Statuses
<1>3. d.by \in Users
  BY DEF CreateWithScopes, Types
<1> DEFINE m == [NoReq EXCEPT !.op = "create", !.user = d.by, !.at = at]
<1>4. req' = [req EXCEPT ![p] = m]
  BY DEF CreateWithScopes
<1>5. m \in Req
  BY <1>3, Nothing, Zenon DEF Req, Ops
<1>7. m.op = "create" /\ m.at = at /\ m.user = d.by /\ m.seen = NoTicket /\ m.res = NoRes
  BY DEF NoReq
<1> HIDE DEF m
<1>6. Others(p) /\ req'[p] = m
  BY <1>4, <1>5 DEF Others, Types
<1> QED
  BY <1>2, <1>3, <1>6, <1>7, Zenon DEF CreateWithScopes, conf

\* A request reads the row as it is, and a withdrawal is refused unless it is pending review.
LEMMA Requested ==
  ASSUME Types, NEW p \in Procs, NEW u \in Users,
         NEW op \in Decisions \cup {"withdraw", "revoke", "retry"}, Request(p, u, op)
  PROVE  /\ ticket.st \notin {None, "deleted"} /\ req[p] = NoReq
         /\ op = "withdraw" => ticket.st = "pending_review"
         /\ Others(p) /\ req'[p].op = op /\ req'[p].user = u /\ req'[p].seen = ticket
         /\ req'[p].at \in {"check", "resolve", "withdraw", "revoke"} /\ req'[p].res = NoRes
         /\ (req'[p].at = "resolve") <=> op = "retry"
         /\ (req'[p].at = "check") <=> op \in Decisions
         /\ Settled /\ UNCHANGED <<ticket, items, snapshot, grants, waived, faults>>
<1> DEFINE at == CASE op \in Decisions -> "check"
                   [] op = "retry" -> "resolve"
                   [] OTHER -> op
           m == [NoReq EXCEPT !.op = op, !.user = u, !.seen = ticket, !.at = at]
<1>1. /\ at \in {"check", "resolve", "withdraw", "revoke"}
      /\ (at = "resolve") <=> op = "retry"
      /\ (at = "check") <=> op \in Decisions
  BY DEF Decisions, Starts
<1>2. req' = [req EXCEPT ![p] = m]
  BY DEF Request
<1> HIDE DEF at
<1>3. m \in Req
  BY <1>1, Nothing, Zenon DEF Req, Ops, Steps, Types
<1>4. m.op = op /\ m.at = at /\ m.user = u /\ m.seen = ticket /\ m.res = NoRes
  BY DEF NoReq
<1> HIDE DEF m
<1>5. Others(p) /\ req'[p] = m
  BY <1>2, <1>3 DEF Others, Types
<1>6. op = "withdraw" => ticket.st = "pending_review"
  BY Zenon DEF Request, CanWithdraw
<1> QED
  BY <1>1, <1>4, <1>5, <1>6, Zenon DEF Request, Shared, Settled, conf

\* Deleting a connection changes whom a rule applies to, not what it says of the review, and
\* takes rules of access out of force; what was granted stays on record.
LEMMA Disconnected ==
  ASSUME Types, NEW c, DeleteConnection(c)
  PROVE  /\ IsRuleList(list')
         /\ \A type, sens : Waiving(list', type, sens) => Waiving(list, type, sens)
         /\ (grants' = {}) <=> (grants = {})
         /\ "ticket" \in grants' => "ticket" \in grants
         /\ UNCHANGED <<production, bypass, first, active, doc, ticket, items, snapshot, req,
                        waived, faults>>
<1>1. /\ DOMAIN list' = DOMAIN list
      /\ \A i \in DOMAIN list :
            list'[i] = IF list[i].conn = c THEN [list[i] EXCEPT !.conn = Any] ELSE list[i]
  BY DEF DeleteConnection
<1>2. ASSUME NEW i \in DOMAIN list
      PROVE  /\ DOMAIN list'[i] = DOMAIN list[i]
             /\ list'[i].approval = list[i].approval /\ list'[i].auto = list[i].auto
             /\ list'[i].type = list[i].type /\ list'[i].sens = list[i].sens
             /\ list'[i].enabled = list[i].enabled
  <2>1. {"approval", "auto", "type", "sens", "enabled"} \subseteq DOMAIN list[i]
    BY Zenon DEF Types, IsRuleList
  <2>2. CASE list[i].conn = c
    <3>1. list'[i] = [list[i] EXCEPT !.conn = Any]
      BY <1>1, <2>2, Zenon
    <3> QED
      BY <2>1, <3>1, Zenon
  <2>3. CASE list[i].conn # c
    BY <1>1, <2>3, Zenon
  <2> QED
    BY <2>2, <2>3
<1>3. IsRuleList(list')
  BY <1>1, <1>2, Zenon DEF Types, IsRuleList
<1>4. ASSUME NEW type, NEW sens, Waiving(list', type, sens) PROVE Waiving(list, type, sens)
  BY <1>1, <1>2, <1>4, Zenon DEF Waiving, SensitivityMatches
<1>5. ((grants' = {}) <=> (grants = {})) /\ ("ticket" \in grants' => "ticket" \in grants)
  BY DEF DeleteConnection
<1> QED
  BY <1>3, <1>4, <1>5, Zenon DEF DeleteConnection, conf

\* Every step keeps the type invariant.
LEMMA TypesStep == Types /\ [Next]_vars => Types'
<1> SUFFICES ASSUME Types, [Next]_vars PROVE Types'
  OBVIOUS
<1>1. ASSUME NEW p \in Procs, CreateTicketItems(p) PROVE Types'
  BY <1>1, ItemsStored, Fields, Resolutions, ZenonT(30)
     DEF Types, Others, Same, Moves, Ends, Sets, Settled
<1>2. ASSUME NEW p \in Procs, Resolve(p) PROVE Types'
  BY <1>2, Resolved, Fields, Resolutions, Zenon
     DEF Types, Others, Same, Moves, Ends, Sets, Settled
<1>3. ASSUME NEW p \in Procs, SaveWorkflowSnapshot(p) PROVE Types'
  BY <1>3, Saved, Fields, Resolutions, SMTT(30)
     DEF Types, Others, Same, Moves, Ends, Sets, Settled
<1>4. ASSUME NEW p \in Procs, ApplyWorkflowAfterCreate(p) PROVE Types'
  BY <1>4, Routed, Fields, Resolutions, ZenonT(30)
     DEF Types, Others, Same, Moves, Ends, Sets, Settled
<1>5. ASSUME NEW p \in Procs, RouteRetried(p) PROVE Types'
  BY <1>5, RoutedAgain, Fields, Resolutions, ZenonT(30)
     DEF Types, Others, Same, Moves, Ends, Sets, Settled
<1>6. ASSUME NEW p \in Procs, FinishNoApprovalWorkflow(p) PROVE Types'
  BY <1>6, Finished, Fields, Resolutions, Zenon
     DEF Types, Others, Same, Moves, Ends, Sets, Settled
<1>7. ASSUME NEW p \in Procs, StartWorkflowAutoExecution(p) PROVE Types'
  BY <1>7, Started, Fields, Resolutions, Zenon
     DEF Types, Others, Same, Moves, Ends, Sets, Settled
<1>8. ASSUME NEW p \in Procs, Check(p) PROVE Types'
  BY <1>8, Checked, Fields, Resolutions, Zenon
     DEF Types, Others, Same, Moves, Ends, Sets, Settled
<1>9. ASSUME NEW p \in Procs, Approve(p) PROVE Types'
  BY <1>9, Approved, Fields, Resolutions, Zenon
     DEF Types, Others, Same, Moves, Ends, Sets, Settled
<1>10. ASSUME NEW p \in Procs, EnsureReadyExportRequest(p) PROVE Types'
  BY <1>10, Readied, Fields, Resolutions, Zenon
     DEF Types, Others, Same, Moves, Ends, Sets, Settled
<1>11. ASSUME NEW p \in Procs, QueueApproved(p) PROVE Types'
  BY <1>11, Queued, Fields, Resolutions, Zenon
     DEF Types, Others, Same, Moves, Ends, Sets, Settled
<1>12. ASSUME NEW p \in Procs, ChooseMode(p) PROVE Types'
  BY <1>12, ModeChosen, Fields, Resolutions, Zenon
     DEF Types, Others, Same, Moves, Ends, Sets, Settled
<1>13. ASSUME NEW p \in Procs, Reject(p) PROVE Types'
  BY <1>13, Rejected, Fields, Resolutions, Zenon
     DEF Types, Others, Same, Moves, Ends, Sets, Settled
<1>14. ASSUME NEW p \in Procs, SetExecutorIfEmpty(p) PROVE Types'
  BY <1>14, Taken, Fields, Resolutions, Zenon
     DEF Types, Others, Same, Moves, Ends, Sets, Settled
<1>15. ASSUME NEW p \in Procs, StartExecution(p) PROVE Types'
  BY <1>15, Executed, Fields, Resolutions, Zenon
     DEF Types, Others, Same, Moves, Ends, Sets, Settled
<1>16. ASSUME NEW p \in Procs, Withdraw(p) PROVE Types'
  BY <1>16, Withdrawn, Fields, Resolutions, Zenon
     DEF Types, Others, Same, Moves, Ends, Sets, Settled
<1>17. ASSUME NEW p \in Procs, Revoke(p) PROVE Types'
  BY <1>17, Revoked, Fields, Resolutions, Zenon
     DEF Types, Others, Same, Moves, Ends, Sets, Settled
<1>18. ASSUME NEW p \in Procs, DeleteTicket(p) PROVE Types'
  BY <1>18, Deleted, Fields, Resolutions, SMTT(30)
     DEF Types, Others, Same, Moves, Ends, Sets, Settled
<1>19. ASSUME NEW p \in Procs, Fail(p) PROVE Types'
  BY <1>19, Failed, Fields, Resolutions, SMTT(30)
     DEF Types, Others, Same, Moves, Ends, Sets, Settled
<1>20. ASSUME NEW p \in Procs, NEW d \in Docs, NEW at \in {"items", "resolve"},
             CreateWithScopes(p, d, at), at = "items" => d.type = "query_access"
      PROVE  Types'
  BY <1>20, Created, Fields, Resolutions, Zenon DEF Types, Steps, Others, Sets
<1>21. ASSUME NEW p \in Procs, NEW u \in Users,
              NEW op \in Decisions \cup {"withdraw", "revoke", "retry"}, Request(p, u, op)
      PROVE  Types'
  BY <1>21, Requested, Fields, Resolutions, Zenon DEF Types, Others, Settled
<1>22. ASSUME NEW l \in NewRules, ReplaceWorkflowRules(l) PROVE Types'
  BY <1>22, WorkflowAssumption, Zenon DEF Types, ReplaceWorkflowRules, conf
<1>23. ASSUME NEW u \in Users, SetUserActive(u) PROVE Types'
  BY <1>23, Fields, Resolutions, Zenon DEF Types, SetUserActive, conf
<1>24. ASSUME NEW rule \in {"ticket", "manual"}, NEW new \in {{}, {"manual"}},
              EditAccessRule(rule, new)
      PROVE  Types'
  BY <1>24, Fields, Resolutions, Zenon DEF Types, EditAccessRule, conf
<1>25. CASE UNCHANGED vars
  BY <1>25, Fields, Resolutions, SMTT(30) DEF Types, vars
<1>26. ASSUME NEW p \in Procs, SetScheduled(p) PROVE Types'
  BY <1>26, Scheduled, Zenon DEF Types, Others, Ends, Sets, Settled
<1>27. ASSUME NEW p \in Procs, GetDueScheduled(p) PROVE Types'
  BY <1>27, DueRead, Zenon DEF Types, Others, Settled
<1>28. ASSUME NEW p \in Procs, ClaimManualStatementExecution(p) PROVE Types'
  BY <1>28, Claimed, Zenon DEF Types, Others, Ends, Sets, Settled
<1>29. ASSUME NEW c \in Conns, DeleteConnection(c) PROVE Types'
  BY <1>29, Disconnected, Zenon DEF Types
<1> QED
  BY <1>1, <1>2, <1>3, <1>4, <1>5, <1>6, <1>7, <1>8, <1>9, <1>10, <1>11, <1>12, <1>13, <1>14,
     <1>15, <1>16, <1>17, <1>18, <1>19, <1>20, <1>21, <1>22, <1>23, <1>24, <1>25, <1>26, <1>27,
     <1>28, <1>29
     DEF Next, Handle, Create, CreateExport, CreateSensitiveAccessTicket, LarkCardAction,
         Decisions, CardActions, Starts

\* The fields of the idle request.
LEMMA Blank == /\ NoReq.op = None /\ NoReq.at = "idle" /\ NoReq.user = None
               /\ NoReq.seen.st = None /\ NoReq.res.err = None
BY DEF NoReq, NoTicket, NoRes, Resolution

-----------------------------------------------------------------------------
(* The inductive invariant *)

\* What the row says by its status: undecided tickets carry no decision, tickets on the way
\* to execution carry one, and nothing happens before there is a ticket.
Row ==
    /\ doc.by \in Users \cup {None} /\ doc \in Docs \cup {NoDoc}
    /\ doc.type # "query_access" => grants = {}
    /\ ticket.st = None => /\ ticket.reviewer = None /\ ~waived /\ grants = {} /\ snapshot = NoRes
                           /\ \A p \in Procs : req[p] = NoReq
    /\ ticket.st \in {"pending_review", "needs_admin_attention", "deleted"}
         => ticket.reviewer = None /\ ~waived
    /\ ticket.st \in {"approved", "pending_execution", "executing", "stopped"}
         => ticket.reviewer # None \/ waived
    /\ ticket.st = "executing" => ticket.executor # None
    /\ ticket.st \in {None, "pending_review", "needs_admin_attention", "approved"}
         => ticket.executor = None
    /\ ticket.st = "pending_execution" => ticket.executor # "system"

\* What a request knows of the ticket from the copy it has read, step by step.
Knows(r) ==
    /\ r.at = "items" => /\ r.op = "create" /\ doc.type = "query_access"
                         /\ ~waived
                         /\ ticket.st \in {"pending_review", "approved", "rejected", "withdrawn",
                                           "stopped"}
    /\ r.op \in Decisions \cup {"withdraw", "due"} => r.user \in Users
    /\ r.op = "approve" /\ r.at = "write"
         => r.seen.st \in {"pending_review", "needs_admin_attention"}
    /\ r.op = "reject" /\ r.at = "write"
         => r.seen.st \in {"pending_review", "approved", "pending_execution"}
    /\ r.op = "withdraw" => r.seen.st = "pending_review"
    /\ r.at = "queue" => r.op = "approve" /\ doc.type \in Executable /\ ticket.reviewer # None
    /\ r.at = "taken" => ticket.st \in {"rejected", "deleted"}

\* Every request in flight knows what it should, and only one of them creates the ticket.
Pending ==
    /\ \A p \in Procs : Knows(req[p])
    /\ \A p, q \in Procs : req[p].op = "create" /\ req[q].op = "create" => p = q

\* A request that is about to decide a review.
Reviews(r) ==
    \/ r.op = "approve" /\ r.at \in {"write", "queue"}
    \/ r.op = "reject" /\ r.at = "write" /\ r.seen.st = "pending_review"

\* What a request has passed before it writes, on a copy that may be old: what left
\* pending_execution does not come back, and a queued ticket keeps its reviewer.
Passed(r) ==
    /\ Reviews(r) /\ doc.by = r.user => r.user \in bypass.review
    /\ r.op \in Starts \cup {"due"} /\ r.at = "write"
         => /\ r.seen.st = "pending_execution"
            /\ doc.by = r.user => r.user \in bypass.execute
            /\ r.seen.reviewer = r.user => r.user \in bypass.multi
    /\ r.seen.st = "pending_execution"
         => /\ ticket.st \in {"pending_execution", "executing", "rejected", "deleted"}
            /\ ticket.st = "pending_execution" => ticket.reviewer = r.seen.reviewer

\* Whoever a queued ticket is scheduled for may execute it.
Planned ==
    ticket.st = "pending_execution" /\ ticket.executor # None
        => /\ doc.by = ticket.executor => ticket.executor \in bypass.execute
           /\ ticket.reviewer = ticket.executor => ticket.executor \in bypass.multi

\* The row keeps reviewer, executor and submitter apart, now and once it executes.
Apart == FourEyes /\ Planned

\* Separation of duties, with what it needs of the requests that have passed their checks.
Duty == Apart /\ \A p \in Procs : Passed(req[p])

\* The list in force waives no review that the first list did not.
Inherited == \A d \in Docs \cup {NoDoc} :
    Waiving(list, d.type, d.sens) => Waiving(first, d.type, d.sens)

\* Neither the row nor its snapshot nor a resolution on its way lets the ticket pass.
Unwaived == /\ ~waived /\ snapshot \in Strict
            /\ \A p \in Procs : req[p].res \in Strict

\* In production nothing lets a ticket pass that the first list did not, and only persons
\* execute.
Guarded ==
    production =>
        /\ Inherited
        /\ Waiving(first, doc.type, doc.sens) \/ Unwaived
        /\ \A p \in Procs : req[p].at # "auto"
        /\ ticket.st = "executing" => ticket.executor \in Users

\* The inductive invariant.
Inv == Types /\ Row /\ Pending /\ Duty /\ Guarded /\ GrantsFromReview /\ NoStrandedApproval

\* The creation of an access ticket may still fail: its review was not waived, although it may
\* be decided already.
Filing == /\ doc.type = "query_access" /\ ~waived
          /\ ticket.st \in {"pending_review", "approved", "rejected", "withdrawn", "stopped"}

\* What requests in flight know of the row outlasts a step of p: only the creation itself
\* goes on from Filing, a reviewer is not forgotten, and a refused ticket stays refused.
Lasting(p) ==
    /\ doc' = doc
    /\ Filing => Filing' \/ req[p].op = "create"
    /\ ticket.reviewer # None => ticket'.reviewer # None \/ req[p].at = "items"
    /\ ticket.st \in {"rejected", "deleted"} => ticket'.st \in {"rejected", "deleted"}

\* The other requests know after such a step what they knew before.
LEMMA OthersKnow ==
  ASSUME Pending, NEW p \in Procs, Others(p), Lasting(p), NEW q \in Procs \ {p}
  PROVE  Knows(req[q])'
<1>1. /\ req'[q] = req[q] /\ Knows(req[q]) /\ Knows(req[p]) /\ doc' = doc
      /\ ~(req[p].op = "create" /\ req[q].op = "create")
  BY Zenon DEF Pending, Others, Lasting
<1>2. req[q].at = "items" => req[q].op = "create" /\ Filing'
  BY <1>1, Zenon DEF Knows, Lasting, Filing
<1>3. req[q].at = "queue" => /\ req[q].op = "approve" /\ doc.type \in Executable
                             /\ ticket'.reviewer # None
  <2>1. "query_access" \notin Executable
    BY DEF Executable
  <2> QED
    BY <1>1, <2>1, Zenon DEF Knows, Lasting
<1>4. req[q].at = "taken" => ticket'.st \in {"rejected", "deleted"}
  BY <1>1, Zenon DEF Knows, Lasting
<1> QED
  BY <1>1, <1>2, <1>3, <1>4, Zenon DEF Knows, Filing

\* Pending follows for every request when it holds of the one that moved.
LEMMA PendingAfter ==
  ASSUME Pending, NEW p \in Procs, Others(p), Lasting(p), Knows(req[p])',
         req'[p].op = "create" => \A q \in Procs \ {p} : req[q].op # "create"
  PROVE  Pending'
<1>1. \A q \in Procs : Knows(req[q])'
  BY OthersKnow, Zenon
<1>2. \A q \in Procs \ {p} : req'[q] = req[q]
  BY Zenon DEF Others
<1>3. ASSUME NEW a \in Procs, NEW b \in Procs, req'[a].op = "create", req'[b].op = "create"
      PROVE  a = b
  BY <1>2, <1>3, Zenon DEF Pending
<1> QED
  BY <1>1, <1>3, Zenon DEF Pending

\* A request that keeps its operation is still the only one of its kind.
LEMMA PendingMoves ==
  ASSUME Pending, NEW p \in Procs, Others(p), Same(p), Lasting(p), Knows(req[p])'
  PROVE  Pending'
<1>1. req'[p].op = "create" => \A q \in Procs \ {p} : req[q].op # "create"
  BY Zenon DEF Pending, Same
<1> QED
  BY <1>1, PendingAfter, Zenon

\* A request that is answered, or goes on to a step where nothing new has to be known.
LEMMA PendingEases ==
  ASSUME Pending, NEW p \in Procs, Lasting(p),
         \/ Ends(p)
         \/ Others(p) /\ Same(p) /\ req'[p].at \notin {"items", "write", "queue", "taken"}
  PROVE  Pending'
<1>1. CASE Ends(p)
  <2>1. req'[p].op = None /\ req'[p].at = "idle" /\ Others(p)
    BY <1>1, Blank, Zenon DEF Ends
  <2>2. Knows(req[p])' /\ req'[p].op # "create"
    BY <2>1 DEF Knows, Decisions, Starts, None
  <2> QED
    BY <2>1, <2>2, PendingAfter, Zenon
<1>2. CASE ~Ends(p)
  <2>1. /\ Others(p) /\ Same(p) /\ Knows(req[p])
        /\ req'[p].at \notin {"items", "write", "queue", "taken"}
    BY <1>2, Zenon DEF Pending
  <2>2. Knows(req[p])'
    BY <2>1, Zenon DEF Knows, Same
  <2> QED
    BY <2>1, <2>2, PendingMoves, Zenon
<1> QED
  BY <1>1, <1>2

\* Every step keeps what the requests in flight know of the ticket they have read.
LEMMA PendingStep == Inv /\ [Next]_vars => Pending'
<1> SUFFICES ASSUME Types, Row, Pending, Duty, Guarded, GrantsFromReview, NoStrandedApproval,
                    [Next]_vars
             PROVE  Pending'
  BY Zenon DEF Inv
<1>1. ASSUME NEW p \in Procs, CreateTicketItems(p) PROVE Pending'
  <2>1. Lasting(p)
    BY <1>1, ItemsStored, Zenon DEF Lasting, Filing, Sets, Settled
  <2>2. CASE Moves(p, "resolve")
    BY <2>1, <2>2, PendingEases DEF Moves
  <2>3. CASE Moves(p, "items")
    <3>1. /\ Others(p) /\ Same(p) /\ req'[p].at = req[p].at /\ Knows(req[p])
          /\ doc' = doc /\ ticket' = ticket /\ waived' = waived
      BY <1>1, <2>3, ItemsStored, Zenon DEF Moves, Pending, Settled
    <3>2. Knows(req[p])'
      BY <3>1, Zenon DEF Knows, Same
    <3> QED
      BY <2>1, <3>1, <3>2, PendingMoves, Zenon
  <2> QED
    BY <1>1, <2>2, <2>3, ItemsStored, Zenon
<1>2. ASSUME NEW p \in Procs, Resolve(p) PROVE Pending'
  <2>1. Lasting(p)
    BY <1>2, Resolved, Zenon DEF Lasting, Filing, Sets, Settled
  <2>2. \/ Ends(p)
        \/ Others(p) /\ Same(p) /\ req'[p].at \notin {"items", "write", "queue", "taken"}
    BY <1>2, Resolved DEF Moves
  <2> QED
    BY <2>1, <2>2, PendingEases, Zenon
<1>3. ASSUME NEW p \in Procs, SaveWorkflowSnapshot(p) PROVE Pending'
  <2>1. Lasting(p)
    BY <1>3, Saved, Zenon DEF Lasting, Filing, Sets, Settled
  <2>2. \/ Ends(p)
        \/ Others(p) /\ Same(p) /\ req'[p].at \notin {"items", "write", "queue", "taken"}
    BY <1>3, Saved DEF Moves
  <2> QED
    BY <2>1, <2>2, PendingEases, Zenon
<1>4. ASSUME NEW p \in Procs, ApplyWorkflowAfterCreate(p) PROVE Pending'
  <2>1. Lasting(p)
    BY <1>4, Routed, Zenon DEF Lasting, Filing, Sets, Settled
  <2>2. \/ Ends(p)
        \/ Others(p) /\ Same(p) /\ req'[p].at \notin {"items", "write", "queue", "taken"}
    BY <1>4, Routed, Zenon DEF Moves
  <2> QED
    BY <2>1, <2>2, PendingEases, Zenon
<1>5. ASSUME NEW p \in Procs, RouteRetried(p) PROVE Pending'
  <2>1. Lasting(p)
    BY <1>5, RoutedAgain, Zenon DEF Lasting, Filing, Sets, Settled
  <2>2. \/ Ends(p)
        \/ Others(p) /\ Same(p) /\ req'[p].at \notin {"items", "write", "queue", "taken"}
    BY <1>5, RoutedAgain, Zenon DEF Moves
  <2> QED
    BY <2>1, <2>2, PendingEases, Zenon
<1>6. ASSUME NEW p \in Procs, FinishNoApprovalWorkflow(p) PROVE Pending'
  <2>1. Lasting(p)
    BY <1>6, Finished, Zenon DEF Lasting, Filing, Sets, Settled, Executable
  <2>2. \/ Ends(p)
        \/ Others(p) /\ Same(p) /\ req'[p].at \notin {"items", "write", "queue", "taken"}
    BY <1>6, Finished DEF Moves
  <2> QED
    BY <2>1, <2>2, PendingEases, Zenon
<1>7. ASSUME NEW p \in Procs, StartWorkflowAutoExecution(p) PROVE Pending'
  <2>1. Lasting(p)
    BY <1>7, Started, Zenon DEF Lasting, Filing, Sets, Settled
  <2>2. Ends(p)
    BY <1>7, Started, Zenon
  <2> QED
    BY <2>1, <2>2, PendingEases, Zenon
<1>8. ASSUME NEW p \in Procs, Check(p) PROVE Pending'
  <2>1. Lasting(p)
    BY <1>8, Checked, Zenon DEF Lasting, Filing, Settled
  <2>2. CASE Ends(p)
    BY <2>1, <2>2, PendingEases, Zenon
  <2>3. CASE ~Ends(p)
    <3>1. Others(p) /\ Same(p) /\ req'[p].at = "write" /\ Knows(req[p])
      BY <1>8, <2>3, Checked, Zenon DEF Moves, Pending
    <3>2. /\ req[p].op = "approve"
               => req[p].seen.st \in {"pending_review", "needs_admin_attention"}
          /\ req[p].op = "reject"
               => req[p].seen.st \in {"pending_review", "approved", "pending_execution"}
      BY <1>8, <2>3, Checked, Zenon
    <3>3. Knows(req[p])'
      BY <3>1, <3>2, Zenon DEF Knows, Same
    <3> QED
      BY <2>1, <3>1, <3>3, PendingMoves, Zenon
  <2> QED
    BY <2>2, <2>3
<1>9. ASSUME NEW p \in Procs, Approve(p) PROVE Pending'
  <2>0. /\ req[p].op = "approve" /\ req[p].at = "write" /\ req[p].user \in Users
        /\ req[p].seen.st \in {"pending_review", "needs_admin_attention"} /\ Knows(req[p])
    BY <1>9, Approved, Zenon DEF Pending, Knows, Decisions
  <2>1. Deciding(p) # None
    BY <2>0, Words, Zenon DEF Deciding
  <2>2. Lasting(p)
    BY <1>9, <2>0, <2>1, Approved, Zenon DEF Lasting, Filing, Sets, Settled
  <2>3. CASE /\ doc.type \in Executable /\ Moves(p, "queue")
             /\ Sets("approved", Deciding(p), ticket.executor)
    <3>1. Others(p) /\ Same(p) /\ req'[p].at = "queue" /\ ticket'.reviewer # None /\ doc' = doc
      BY <2>1, <2>2, <2>3, Zenon DEF Moves, Sets, Lasting
    <3>2. Knows(req[p])'
      BY <2>0, <2>3, <3>1, Zenon DEF Knows, Same
    <3> QED
      BY <2>2, <3>1, <3>2, PendingMoves, Zenon
  <2>4. CASE Ends(p)
    BY <2>2, <2>4, PendingEases, Zenon
  <2>5. CASE Moves(p, "ready")
    BY <2>2, <2>5, PendingEases DEF Moves
  <2> QED
    BY <1>9, <2>3, <2>4, <2>5, Approved, Zenon
<1>10. ASSUME NEW p \in Procs, EnsureReadyExportRequest(p) PROVE Pending'
  <2>1. Lasting(p)
    BY <1>10, Readied, Zenon DEF Lasting, Filing, Sets, Settled
  <2>2. Ends(p)
    BY <1>10, Readied, Zenon
  <2> QED
    BY <2>1, <2>2, PendingEases, Zenon
<1>11. ASSUME NEW p \in Procs, QueueApproved(p) PROVE Pending'
  <2>0. /\ ticket.reviewer # None => Deciding(p) # None
        /\ doc.type # "query_access"
    <3>1. doc.type \in Executable
      BY <1>11, Queued, Zenon DEF Pending, Knows
    <3> QED
      BY <3>1 DEF Deciding, Executable
  <2>1. Lasting(p)
    BY <1>11, Queued, <2>0, Zenon DEF Lasting, Filing, Sets, Settled
  <2>2. \/ Ends(p)
        \/ Others(p) /\ Same(p) /\ req'[p].at \notin {"items", "write", "queue", "taken"}
    BY <1>11, Queued DEF Moves
  <2> QED
    BY <2>1, <2>2, PendingEases, Zenon
<1>12. ASSUME NEW p \in Procs, ChooseMode(p) PROVE Pending'
  <2>1. Lasting(p)
    BY <1>12, ModeChosen, Zenon DEF Lasting, Filing, Sets, Settled
  <2>2. \/ Ends(p)
        \/ Others(p) /\ Same(p) /\ req'[p].at \notin {"items", "write", "queue", "taken"}
    BY <1>12, ModeChosen DEF Moves
  <2> QED
    BY <2>1, <2>2, PendingEases, Zenon
<1>13. ASSUME NEW p \in Procs, Reject(p) PROVE Pending'
  <2>0. /\ req[p].op = "reject" /\ req[p].at = "write" /\ Knows(req[p])
        /\ req[p].seen.st \in {"pending_review", "approved", "pending_execution"}
    BY <1>13, Rejected, Zenon DEF Pending, Knows
  <2>1. ticket.reviewer # None => Deciding(p) # None
    BY Zenon DEF Deciding
  <2>2. Lasting(p)
    <3>1. \/ ticket' = ticket
          \/ ticket'.st = "rejected" /\ (ticket.reviewer # None => ticket'.reviewer # None)
      BY <1>13, <2>1, Rejected, Zenon DEF Sets
    <3>2. Settled /\ items' = items /\ grants' = grants /\ waived' = waived
      BY <1>13, Rejected, Zenon
    <3> QED
      BY <3>1, <3>2, Zenon DEF Lasting, Filing, Settled
  <2>3. CASE Ends(p)
    BY <2>2, <2>3, PendingEases, Zenon
  <2>4. CASE ~Ends(p)
    <3>1. Moves(p, "taken") /\ ticket'.st = "rejected"
      BY <1>13, <2>4, Rejected, Zenon DEF Sets
    <3>2. Others(p) /\ Same(p) /\ req'[p].at = "taken"
      BY <3>1, Zenon DEF Moves
    <3>3. Knows(req[p])'
      BY <2>0, <3>1, <3>2 DEF Knows, Same
    <3> QED
      BY <2>2, <3>2, <3>3, PendingMoves, Zenon
  <2> QED
    BY <2>3, <2>4
<1>14. ASSUME NEW p \in Procs, SetExecutorIfEmpty(p) PROVE Pending'
  <2>1. Lasting(p)
    BY <1>14, Taken, Zenon DEF Lasting, Filing, Sets, Settled
  <2>2. Ends(p)
    BY <1>14, Taken, Zenon
  <2> QED
    BY <2>1, <2>2, PendingEases, Zenon
<1>15. ASSUME NEW p \in Procs, StartExecution(p) PROVE Pending'
  <2>1. Lasting(p)
    BY <1>15, Executed, Zenon DEF Lasting, Filing, Sets, Settled
  <2>2. Ends(p)
    BY <1>15, Executed, Zenon
  <2> QED
    BY <2>1, <2>2, PendingEases, Zenon
<1>16. ASSUME NEW p \in Procs, Withdraw(p) PROVE Pending'
  <2>0. req[p].seen.st = "pending_review"
    BY <1>16, Withdrawn, Zenon DEF Pending, Knows
  <2>1. Lasting(p)
    BY <1>16, Withdrawn, <2>0, Zenon DEF Lasting, Filing, Sets, Settled
  <2>2. Ends(p)
    BY <1>16, Withdrawn, Zenon
  <2> QED
    BY <2>1, <2>2, PendingEases, Zenon
<1>17. ASSUME NEW p \in Procs, Revoke(p) PROVE Pending'
  <2>1. Lasting(p)
    BY <1>17, Revoked, Zenon DEF Lasting, Filing, Sets, Settled
  <2>2. Ends(p)
    BY <1>17, Revoked, Zenon
  <2> QED
    BY <2>1, <2>2, PendingEases, Zenon
<1>18. ASSUME NEW p \in Procs, DeleteTicket(p) PROVE Pending'
  <2>1. Lasting(p)
    BY <1>18, Deleted, Zenon DEF Lasting, Filing, Sets, Settled
  <2>2. Ends(p)
    BY <1>18, Deleted, Zenon
  <2> QED
    BY <2>1, <2>2, PendingEases, Zenon
<1>19. ASSUME NEW p \in Procs, Fail(p) PROVE Pending'
  <2>1. Lasting(p)
    BY <1>19, Failed, Zenon DEF Lasting, Filing, Sets, Settled
  <2>2. Ends(p)
    BY <1>19, Failed, Zenon
  <2> QED
    BY <2>1, <2>2, PendingEases, Zenon
<1>20. ASSUME NEW p \in Procs, NEW d \in Docs, NEW at \in {"items", "resolve"},
             CreateWithScopes(p, d, at), at = "items" => d.type = "query_access"
      PROVE  Pending'
  <2>1. /\ ticket.st = None /\ doc' = d /\ d.by \in Users /\ ticket'.st = "pending_review"
        /\ Others(p) /\ req'[p].op = "create" /\ req'[p].at = at /\ req'[p].user = d.by
        /\ UNCHANGED <<items, grants, waived>>
    BY <1>20, Created, Zenon DEF Steps, Sets
  <2>2. ~waived /\ \A q \in Procs : req[q] = NoReq
    BY <2>1, Zenon DEF Row
  <2>3. \A q \in Procs \ {p} : req'[q].op = None /\ req'[q].at = "idle"
    BY <2>1, <2>2, Blank, Zenon DEF Others
  <2>4. \A q \in Procs \ {p} : Knows(req[q])' /\ req'[q].op # "create"
    BY <2>3 DEF Knows, Decisions, Starts, None
  <2>5. Knows(req[p])'
    BY <1>20, <2>1, <2>2 DEF Knows, Decisions, Starts
  <2> QED
    BY <2>4, <2>5, Zenon DEF Pending
<1>21. ASSUME NEW p \in Procs, NEW u \in Users,
              NEW op \in Decisions \cup {"withdraw", "revoke", "retry"}, Request(p, u, op)
      PROVE  Pending'
  <2>1. /\ Others(p) /\ req'[p].op = op /\ req'[p].user = u /\ req'[p].seen = ticket
        /\ req'[p].at \in {"check", "resolve", "withdraw", "revoke"}
        /\ op = "withdraw" => ticket.st = "pending_review"
    BY <1>21, Requested, Zenon
  <2>2. Lasting(p)
    BY <1>21, Requested, Zenon DEF Lasting, Filing, Settled
  <2>3. Knows(req[p])' /\ op # "create"
    BY <2>1 DEF Knows, Decisions, Starts
  <2> QED
    BY <2>1, <2>2, <2>3, PendingAfter, Zenon
<1>22. ASSUME NEW l \in NewRules, ReplaceWorkflowRules(l) PROVE Pending'
  BY <1>22, Zenon DEF Pending, Knows, Decisions, ReplaceWorkflowRules, conf
<1>23. ASSUME NEW u \in Users, SetUserActive(u) PROVE Pending'
  BY <1>23, Zenon DEF Pending, Knows, Decisions, SetUserActive, conf
<1>24. ASSUME NEW rule \in {"ticket", "manual"}, NEW new \in {{}, {"manual"}},
              EditAccessRule(rule, new)
      PROVE  Pending'
  BY <1>24, Zenon DEF Pending, Knows, Decisions, EditAccessRule, conf
<1>25. CASE UNCHANGED vars
  BY <1>25, Zenon DEF Pending, Knows, Decisions, vars
<1>26. ASSUME NEW p \in Procs, SetScheduled(p) PROVE Pending'
  <2>1. Lasting(p) /\ Ends(p)
    BY <1>26, Scheduled, Zenon DEF Lasting, Filing, Sets, Settled
  <2> QED
    BY <2>1, PendingEases, Zenon
<1>27. ASSUME NEW p \in Procs, GetDueScheduled(p) PROVE Pending'
  <2>1. /\ Others(p) /\ req'[p].op = "due" /\ req'[p].user \in Users /\ req'[p].at = "write"
    BY <1>27, DueRead, Zenon
  <2>2. Lasting(p)
    BY <1>27, DueRead, Zenon DEF Lasting, Filing, Settled
  <2>3. Knows(req[p])'
    BY <2>1 DEF Knows
  <2> QED
    BY <2>1, <2>2, <2>3, PendingAfter
<1>28. ASSUME NEW p \in Procs, ClaimManualStatementExecution(p) PROVE Pending'
  <2>1. Lasting(p) /\ Ends(p)
    BY <1>28, Claimed, Zenon DEF Lasting, Filing, Sets, Settled
  <2> QED
    BY <2>1, PendingEases, Zenon
<1>29. ASSUME NEW c \in Conns, DeleteConnection(c) PROVE Pending'
  <2>1. doc' = doc /\ ticket' = ticket /\ waived' = waived /\ req' = req
    BY <1>29, Disconnected, Zenon
  <2> QED
    BY <2>1, Zenon DEF Pending, Knows
<1> QED
  BY <1>1, <1>2, <1>3, <1>4, <1>5, <1>6, <1>7, <1>8, <1>9, <1>10, <1>11, <1>12, <1>13, <1>14,
     <1>15, <1>16, <1>17, <1>18, <1>19, <1>20, <1>21, <1>22, <1>23, <1>24, <1>25, <1>26, <1>27,
     <1>28, <1>29
     DEF Next, Handle, Create, CreateExport, CreateSensitiveAccessTicket, LarkCardAction,
         Decisions, CardActions, Starts
=============================================================================
