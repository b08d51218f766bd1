------------------------ MODULE TicketWorkflowProofs ------------------------
(***************************************************************************)
(* The theorems about TicketWorkflow: that its inductive invariant is      *)
(* kept, one lemma per conjunct; the four safety properties that follow    *)
(* from it; and that it implements the life cycle of TicketLifeCycle.      *)
(* They hold for any users, rule lists, bypass permissions, documents and  *)
(* number of requests in flight; the constants are only assumed to be what *)
(* WorkflowAssumption says.                                                *)
(***************************************************************************)
EXTENDS TicketWorkflowInvariants

\* Every step keeps what the row says by its status: the compare-and-set of
\* UpdateTicketStatus is what keeps a late decision from overwriting an earlier one.
LEMMA RowStep == Inv /\ [Next]_vars => Row'
<1> SUFFICES ASSUME Types, Row, Pending, Duty, Guarded, GrantsFromReview, NoStrandedApproval,
                    [Next]_vars
             PROVE  Row'
  BY SMTT(60) DEF Inv
<1> USE Blank, Words
<1>1. ASSUME NEW p \in Procs, CreateTicketItems(p) PROVE Row'
  BY <1>1, ItemsStored, SMTT(30) DEF Row, Others, Same, Moves, Ends, Sets, Settled
<1>2. ASSUME NEW p \in Procs, Resolve(p) PROVE Row'
  BY <1>2, Resolved, SMTT(30) DEF Row, Others, Same, Moves, Ends, Sets, Settled
<1>3. ASSUME NEW p \in Procs, SaveWorkflowSnapshot(p) PROVE Row'
  BY <1>3, Saved, SMTT(30) DEF Row, Others, Same, Moves, Ends, Sets, Settled
<1>4. ASSUME NEW p \in Procs, ApplyWorkflowAfterCreate(p) PROVE Row'
  BY <1>4, Routed, Fields, ZenonT(30) DEF Row, Others, Same, Moves, Ends, Sets, Settled
<1>5. ASSUME NEW p \in Procs, RouteRetried(p) PROVE Row'
  BY <1>5, RoutedAgain, Fields, ZenonT(30) DEF Row, Others, Same, Moves, Ends, Sets, Settled
<1>6. ASSUME NEW p \in Procs, FinishNoApprovalWorkflow(p) PROVE Row'
  BY <1>6, Finished, Fields, SMTT(30) DEF Row, Others, Same, Moves, Ends, Sets, Settled
<1>7. ASSUME NEW p \in Procs, StartWorkflowAutoExecution(p) PROVE Row'
  BY <1>7, Started, Fields, SMTT(30) DEF Row, Others, Same, Moves, Ends, Sets, Settled
<1>8. ASSUME NEW p \in Procs, Check(p) PROVE Row'
  BY <1>8, Checked, Zenon DEF Row, Others, Same, Moves, Ends, Sets, Settled
<1>9. ASSUME NEW p \in Procs, Approve(p) PROVE Row'
  BY <1>9, Approved, Fields, SMTT(30) DEF Row, Pending, Knows, Decisions, Deciding, Others, Same,
     Moves, Ends, Sets, Settled
<1>10. ASSUME NEW p \in Procs, EnsureReadyExportRequest(p) PROVE Row'
  BY <1>10, Readied, Zenon DEF Row, Others, Same, Moves, Ends, Sets, Settled
<1>11. ASSUME NEW p \in Procs, QueueApproved(p) PROVE Row'
  BY <1>11, Queued, Fields, SMTT(30) DEF Row, Pending, Knows, Decisions, Deciding, Others, Same,
     Moves, Ends, Sets, Settled
<1>12. ASSUME NEW p \in Procs, ChooseMode(p) PROVE Row'
  BY <1>12, ModeChosen, SMTT(30) DEF Row, Others, Same, Moves, Ends, Sets, Settled
<1>13. ASSUME NEW p \in Procs, Reject(p) PROVE Row'
  BY <1>13, Rejected, Fields, Zenon DEF Row, Others, Same, Moves, Ends, Sets, Settled
<1>14. ASSUME NEW p \in Procs, SetExecutorIfEmpty(p) PROVE Row'
  BY <1>14, Taken, Fields, Zenon DEF Row, Pending, Knows, Decisions, Deciding, Others, Same,
     Moves, Ends, Sets, Settled
<1>15. ASSUME NEW p \in Procs, StartExecution(p) PROVE Row'
  <2>1. req[p].user \in Users
    BY <1>15, Executed, Zenon DEF Pending, Knows, Decisions, Starts
  <2> QED
    BY <1>15, <2>1, Executed, Fields, Zenon DEF Row, Others, Ends, Sets, Settled
<1>16. ASSUME NEW p \in Procs, Withdraw(p) PROVE Row'
  BY <1>16, Withdrawn, Fields, SMTT(30) DEF Row, Others, Same, Moves, Ends, Sets, Settled
<1>17. ASSUME NEW p \in Procs, Revoke(p) PROVE Row'
  BY <1>17, Revoked, Fields, Zenon DEF Row, Others, Same, Moves, Ends, Sets, Settled
<1>18. ASSUME NEW p \in Procs, DeleteTicket(p) PROVE Row'
  BY <1>18, Deleted, Fields, SMTT(30) DEF Row, Pending, Knows, Decisions, Deciding, Others, Same,
     Moves, Ends, Sets, Settled
<1>19. ASSUME NEW p \in Procs, Fail(p) PROVE Row'
  BY <1>19, Failed, Zenon DEF Row, Others, Same, Moves, Ends, Sets, Settled
<1>20. ASSUME NEW p \in Procs, NEW d \in Docs, NEW at \in {"items", "resolve"},
             CreateWithScopes(p, d, at), at = "items" => d.type = "query_access"
      PROVE  Row'
  BY <1>20, Created, Fields, SMTT(30) DEF Row, Steps, Others, Sets
<1>21. ASSUME NEW p \in Procs, NEW u \in Users,
              NEW op \in Decisions \cup {"withdraw", "revoke", "retry"}, Request(p, u, op)
      PROVE  Row'
  BY <1>21, Requested, SMTT(30) DEF Row, Others, Settled
<1>22. ASSUME NEW l \in NewRules, ReplaceWorkflowRules(l) PROVE Row'
  BY <1>22, SMTT(30) DEF Row, ReplaceWorkflowRules, conf
<1>23. ASSUME NEW u \in Users, SetUserActive(u) PROVE Row'
  BY <1>23, SMTT(30) DEF Row, SetUserActive, conf
<1>24. ASSUME NEW rule \in {"ticket", "manual"}, NEW new \in {{}, {"manual"}},
              EditAccessRule(rule, new)
      PROVE  Row'
  BY <1>24, SMTT(30) DEF Row, EditAccessRule, conf
<1>25. CASE UNCHANGED vars
  BY <1>25, Zenon DEF Row, vars
<1>26. ASSUME NEW p \in Procs, SetScheduled(p) PROVE Row'
  BY <1>26, Scheduled, Fields, Zenon DEF Row, Pending, Knows, Decisions, Starts, Others, Ends, Sets,
     Settled
<1>27. ASSUME NEW p \in Procs, GetDueScheduled(p) PROVE Row'
  BY <1>27, DueRead, Fields, Zenon DEF Row, Others, Settled
<1>28. ASSUME NEW p \in Procs, ClaimManualStatementExecution(p) PROVE Row'
  <2>1. req[p].user \in Users
    BY <1>28, Claimed, Zenon DEF Pending, Knows, Decisions, Starts
  <2>2. \/ ticket' = ticket
        \/ /\ ticket.st = "pending_execution" /\ ticket'.st = "executing"
           /\ ticket'.reviewer = ticket.reviewer /\ ticket'.executor # None
    BY <1>28, <2>1, Claimed, Zenon DEF Sets
  <2>3. Ends(p) /\ Settled /\ UNCHANGED <<snapshot, grants, waived>> /\ req[p].at = "write"
    BY <1>28, Claimed, Zenon
  <2> QED
    BY <2>2, <2>3, Zenon DEF Row, Others, Ends, Settled
<1>29. ASSUME NEW c \in Conns, DeleteConnection(c) PROVE Row'
  BY <1>29, Disconnected, Zenon DEF Row
<1> QED
  BY <1>1, <1>2, <1>3, <1>4, <1>5, <1>6, <1>7, <1>8, <1>9, <1>10, <1>11, <1>12, <1>13, <1>14,
     <1>15, <1>16, <1>17, <1>18, <1>19, <1>20, <1>21, <1>22, <1>23, <1>24, <1>25, <1>26, <1>27,
     <1>28, <1>29
     DEF Next, Handle, Create, CreateExport, CreateSensitiveAccessTicket, LarkCardAction,
         Decisions, CardActions, Starts

\* Every step keeps that access is granted only by the approval of its ticket.
LEMMA GrantsStep == Inv /\ [Next]_vars => GrantsFromReview'
<1> SUFFICES ASSUME Types, Row, Pending, Duty, Guarded, GrantsFromReview, NoStrandedApproval,
                    [Next]_vars
             PROVE  GrantsFromReview'
  BY SMTT(60) DEF Inv
<1> USE Blank
<1>1. ASSUME NEW p \in Procs, CreateTicketItems(p) PROVE GrantsFromReview'
  BY <1>1, ItemsStored, SMTT(30) DEF GrantsFromReview, Others, Same, Moves, Ends, Sets, Settled
<1>2. ASSUME NEW p \in Procs, Resolve(p) PROVE GrantsFromReview'
  BY <1>2, Resolved, SMTT(30) DEF GrantsFromReview, Others, Same, Moves, Ends, Sets, Settled
<1>3. ASSUME NEW p \in Procs, SaveWorkflowSnapshot(p) PROVE GrantsFromReview'
  BY <1>3, Saved, SMTT(30) DEF GrantsFromReview, Others, Same, Moves, Ends, Sets, Settled
<1>4. ASSUME NEW p \in Procs, ApplyWorkflowAfterCreate(p) PROVE GrantsFromReview'
  <2>1. CASE ticket' = ticket /\ waived' = waived
    BY <1>4, <2>1, Routed, Zenon DEF GrantsFromReview, Settled
  <2>2. CASE ~(ticket' = ticket /\ waived' = waived)
    <3>1. /\ ticket.st = "pending_review" /\ grants' = grants
          /\ \/ ticket'.st = "needs_admin_attention"
             \/ ticket'.st = "approved" /\ waived'
      BY <1>4, <2>2, Routed, Zenon DEF Sets
    <3>2. grants = {}
      BY <3>1, Zenon DEF GrantsFromReview, Row
    <3> QED
      BY <3>1, <3>2, Zenon DEF GrantsFromReview
  <2> QED
    BY <2>1, <2>2
<1>5. ASSUME NEW p \in Procs, RouteRetried(p) PROVE GrantsFromReview'
  <2>1. CASE ticket' = ticket /\ waived' = waived
    BY <1>5, <2>1, RoutedAgain, Zenon DEF GrantsFromReview, Settled
  <2>2. CASE ~(ticket' = ticket /\ waived' = waived)
    <3>1. /\ ticket.st = "needs_admin_attention" /\ grants' = grants
          /\ \/ ticket'.st = "pending_review"
             \/ ticket'.st = "approved" /\ waived'
      BY <1>5, <2>2, RoutedAgain, Zenon DEF Sets
    <3>2. grants = {}
      BY <3>1, Zenon DEF GrantsFromReview, Row
    <3> QED
      BY <3>1, <3>2, Zenon DEF GrantsFromReview
  <2> QED
    BY <2>1, <2>2
<1>6. ASSUME NEW p \in Procs, FinishNoApprovalWorkflow(p) PROVE GrantsFromReview'
  BY <1>6, Finished, SMTT(30) DEF GrantsFromReview, Others, Same, Moves, Ends, Sets, Settled
<1>7. ASSUME NEW p \in Procs, StartWorkflowAutoExecution(p) PROVE GrantsFromReview'
  BY <1>7, Started, Zenon DEF GrantsFromReview, Others, Same, Moves, Ends, Sets, Settled
<1>8. ASSUME NEW p \in Procs, Check(p) PROVE GrantsFromReview'
  BY <1>8, Checked, Zenon DEF GrantsFromReview, Others, Same, Moves, Ends, Sets, Settled
<1>9. ASSUME NEW p \in Procs, Approve(p) PROVE GrantsFromReview'
  <2>1. CASE ticket' = ticket /\ grants' = grants
    BY <1>9, <2>1, Approved, Zenon DEF GrantsFromReview, Settled
  <2>2. CASE ~(ticket' = ticket /\ grants' = grants)
    <3>1. /\ req[p].op = "approve" /\ req[p].at = "write" /\ ticket.st = req[p].seen.st
          /\ ticket'.st = "approved" /\ ticket'.reviewer = Deciding(p)
          /\ doc.type = "query_access" => grants' = {"ticket"}
          /\ doc' = doc /\ waived' = waived
      BY <1>9, <2>2, Approved, Zenon DEF Sets, Settled
    <3>2. ticket.st \in {"pending_review", "needs_admin_attention"} /\ req[p].user \in Users
      BY <3>1, Zenon DEF Pending, Knows, Decisions
    <3>3. ~waived /\ Deciding(p) # None
      BY <3>2, Words, Zenon DEF Row, Deciding
    <3>4. doc.type = "query_access" => grants' # {}
      BY <3>1
    <3> QED
      BY <3>1, <3>3, <3>4 DEF GrantsFromReview
  <2> QED
    BY <2>1, <2>2
<1>10. ASSUME NEW p \in Procs, EnsureReadyExportRequest(p) PROVE GrantsFromReview'
  BY <1>10, Readied, Zenon DEF GrantsFromReview, Others, Same, Moves, Ends, Sets, Settled
<1>11. ASSUME NEW p \in Procs, QueueApproved(p) PROVE GrantsFromReview'
  BY <1>11, Queued, Fields, Words, Zenon
     DEF GrantsFromReview, Row, Pending, Knows, Decisions, Deciding, Others, Same, Moves, Ends,
     Sets, Settled
<1>12. ASSUME NEW p \in Procs, ChooseMode(p) PROVE GrantsFromReview'
  BY <1>12, ModeChosen, Zenon DEF GrantsFromReview, Others, Same, Moves, Ends, Sets, Settled
<1>13. ASSUME NEW p \in Procs, Reject(p) PROVE GrantsFromReview'
  BY <1>13, Rejected, Fields, Words, SMTT(30)
     DEF GrantsFromReview, Row, Pending, Knows, Decisions, Deciding, Others, Same, Moves, Ends,
     Sets, Settled
<1>14. ASSUME NEW p \in Procs, SetExecutorIfEmpty(p) PROVE GrantsFromReview'
  BY <1>14, Taken, SMTT(30) DEF GrantsFromReview, Others, Same, Moves, Ends, Sets, Settled
<1>15. ASSUME NEW p \in Procs, StartExecution(p) PROVE GrantsFromReview'
  BY <1>15, Executed, SMTT(30) DEF GrantsFromReview, Others, Same, Moves, Ends, Sets, Settled
<1>16. ASSUME NEW p \in Procs, Withdraw(p) PROVE GrantsFromReview'
  <2>1. req[p].seen.st = "pending_review"
    BY <1>16, Withdrawn, Zenon DEF Pending, Knows
  <2> QED
    BY <1>16, <2>1, Withdrawn, Zenon DEF GrantsFromReview, Sets, Settled
<1>17. ASSUME NEW p \in Procs, Revoke(p) PROVE GrantsFromReview'
  <2>1. CASE ticket' = ticket /\ grants' = grants
    BY <1>17, <2>1, Revoked, Zenon DEF GrantsFromReview, Settled
  <2>2. CASE ~(ticket' = ticket /\ grants' = grants)
    <3>1. /\ ticket.st = "approved" /\ ticket'.st = "stopped" /\ ticket'.reviewer = ticket.reviewer
          /\ "ticket" \notin grants' /\ (grants' # {} => grants # {})
      <4>1. doc.type # "query_access" => grants = {}
        BY Zenon DEF Row
      <4> QED
        BY <1>17, <2>2, <4>1, Revoked DEF Sets
    <3> QED
      BY <3>1 DEF GrantsFromReview
  <2> QED
    BY <2>1, <2>2
<1>18. ASSUME NEW p \in Procs, DeleteTicket(p) PROVE GrantsFromReview'
  BY <1>18, Deleted, Fields, Words, SMTT(30)
     DEF GrantsFromReview, Row, Pending, Knows, Decisions, Deciding, Others, Same, Moves, Ends,
     Sets, Settled
<1>19. ASSUME NEW p \in Procs, Fail(p) PROVE GrantsFromReview'
  BY <1>19, Failed, Zenon DEF GrantsFromReview, Others, Same, Moves, Ends, Sets, Settled
<1>20. ASSUME NEW p \in Procs, NEW d \in Docs, NEW at \in {"items", "resolve"},
             CreateWithScopes(p, d, at), at = "items" => d.type = "query_access"
      PROVE  GrantsFromReview'
  BY <1>20, Created, Fields, Words, SMTT(30) DEF GrantsFromReview, Row, Steps, Others, Sets
<1>21. ASSUME NEW p \in Procs, NEW u \in Users,
              NEW op \in Decisions \cup {"withdraw", "revoke", "retry"}, Request(p, u, op)
      PROVE  GrantsFromReview'
  BY <1>21, Requested, SMTT(30) DEF GrantsFromReview, Others, Settled
<1>22. ASSUME NEW l \in NewRules, ReplaceWorkflowRules(l) PROVE GrantsFromReview'
  BY <1>22, SMTT(30) DEF GrantsFromReview, ReplaceWorkflowRules, conf
<1>23. ASSUME NEW u \in Users, SetUserActive(u) PROVE GrantsFromReview'
  BY <1>23, SMTT(30) DEF GrantsFromReview, SetUserActive, conf
<1>24. ASSUME NEW rule \in {"ticket", "manual"}, NEW new \in {{}, {"manual"}},
              EditAccessRule(rule, new)
      PROVE  GrantsFromReview'
  BY <1>24, SMTT(30) DEF GrantsFromReview, EditAccessRule, conf
<1>25. CASE UNCHANGED vars
  BY <1>25, Zenon DEF GrantsFromReview, vars
<1>26. ASSUME NEW p \in Procs, SetScheduled(p) PROVE GrantsFromReview'
  BY <1>26, Scheduled, Zenon DEF GrantsFromReview, Sets, Settled
<1>27. ASSUME NEW p \in Procs, GetDueScheduled(p) PROVE GrantsFromReview'
  BY <1>27, DueRead, Zenon DEF GrantsFromReview, Settled
<1>28. ASSUME NEW p \in Procs, ClaimManualStatementExecution(p) PROVE GrantsFromReview'
  BY <1>28, Claimed, Zenon DEF GrantsFromReview, Sets, Settled
<1>29. ASSUME NEW c \in Conns, DeleteConnection(c) PROVE GrantsFromReview'
  BY <1>29, Disconnected, Zenon DEF GrantsFromReview
<1> QED
  BY <1>1, <1>2, <1>3, <1>4, <1>5, <1>6, <1>7, <1>8, <1>9, <1>10, <1>11, <1>12, <1>13, <1>14,
     <1>15, <1>16, <1>17, <1>18, <1>19, <1>20, <1>21, <1>22, <1>23, <1>24, <1>25, <1>26, <1>27,
     <1>28, <1>29
     DEF Next, Handle, Create, CreateExport, CreateSensitiveAccessTicket, LarkCardAction,
         Decisions, CardActions, Starts

\* Every step keeps that an approved ticket to execute is on its way to the queue, or that a
\* request failed on the way.
LEMMA StrandedStep == Inv /\ [Next]_vars => NoStrandedApproval'
<1> SUFFICES ASSUME Types, Row, Pending, Duty, Guarded, GrantsFromReview, NoStrandedApproval,
                    [Next]_vars
             PROVE  NoStrandedApproval'
  BY SMTT(60) DEF Inv
<1> USE Blank
<1>1. ASSUME NEW p \in Procs, CreateTicketItems(p) PROVE NoStrandedApproval'
  BY <1>1, ItemsStored, Zenon DEF NoStrandedApproval, Others, Same, Moves, Ends, Sets, Settled
<1>2. ASSUME NEW p \in Procs, Resolve(p) PROVE NoStrandedApproval'
  BY <1>2, Resolved, Zenon DEF NoStrandedApproval, Others, Same, Moves, Ends, Sets, Settled
<1>3. ASSUME NEW p \in Procs, SaveWorkflowSnapshot(p) PROVE NoStrandedApproval'
  BY <1>3, Saved, SMTT(30) DEF NoStrandedApproval, Others, Same, Moves, Ends, Sets, Settled
<1>4. ASSUME NEW p \in Procs, ApplyWorkflowAfterCreate(p) PROVE NoStrandedApproval'
  BY <1>4, Routed, Fields, Words, ZenonT(30)
     DEF NoStrandedApproval, Row, Pending, Knows, Decisions, Deciding, Executable, Others, Same,
     Moves, Ends, Sets, Settled
<1>5. ASSUME NEW p \in Procs, RouteRetried(p) PROVE NoStrandedApproval'
  BY <1>5, RoutedAgain, ZenonT(30) DEF NoStrandedApproval, Others, Same, Moves, Ends, Sets,
     Settled
<1>6. ASSUME NEW p \in Procs, FinishNoApprovalWorkflow(p) PROVE NoStrandedApproval'
  BY <1>6, Finished, SMTT(30) DEF NoStrandedApproval, Others, Same, Moves, Ends, Sets, Settled
<1>7. ASSUME NEW p \in Procs, StartWorkflowAutoExecution(p) PROVE NoStrandedApproval'
  BY <1>7, Started, Zenon DEF NoStrandedApproval, Others, Same, Moves, Ends, Sets, Settled
<1>8. ASSUME NEW p \in Procs, Check(p) PROVE NoStrandedApproval'
  BY <1>8, Checked, SMTT(30) DEF NoStrandedApproval, Others, Same, Moves, Ends, Sets, Settled
<1>9. ASSUME NEW p \in Procs, Approve(p) PROVE NoStrandedApproval'
  <2>1. CASE ticket' = ticket /\ Ends(p)
    BY <1>9, <2>1, Approved DEF NoStrandedApproval, Others, Ends, Settled
  <2>2. CASE doc.type \in Executable /\ Moves(p, "queue")
    BY <2>2, Zenon DEF NoStrandedApproval, Moves
  <2>3. CASE doc.type \notin Executable
    BY <1>9, <2>3, Approved, Zenon DEF NoStrandedApproval, Settled
  <2> QED
    BY <1>9, <2>1, <2>2, <2>3, Approved, Zenon
<1>10. ASSUME NEW p \in Procs, EnsureReadyExportRequest(p) PROVE NoStrandedApproval'
  BY <1>10, Readied, Zenon DEF NoStrandedApproval, Others, Same, Moves, Ends, Sets, Settled
<1>11. ASSUME NEW p \in Procs, QueueApproved(p) PROVE NoStrandedApproval'
  BY <1>11, Queued, Zenon DEF NoStrandedApproval, Others, Same, Moves, Ends, Sets, Settled
<1>12. ASSUME NEW p \in Procs, ChooseMode(p) PROVE NoStrandedApproval'
  BY <1>12, ModeChosen, Zenon DEF NoStrandedApproval, Others, Same, Moves, Ends, Sets, Settled
<1>13. ASSUME NEW p \in Procs, Reject(p) PROVE NoStrandedApproval'
  BY <1>13, Rejected, Zenon DEF NoStrandedApproval, Others, Same, Moves, Ends, Sets, Settled
<1>14. ASSUME NEW p \in Procs, SetExecutorIfEmpty(p) PROVE NoStrandedApproval'
  BY <1>14, Taken, Zenon DEF NoStrandedApproval, Others, Same, Moves, Ends, Sets, Settled
<1>15. ASSUME NEW p \in Procs, StartExecution(p) PROVE NoStrandedApproval'
  BY <1>15, Executed, Zenon DEF NoStrandedApproval, Others, Same, Moves, Ends, Sets, Settled
<1>16. ASSUME NEW p \in Procs, Withdraw(p) PROVE NoStrandedApproval'
  BY <1>16, Withdrawn, SMTT(30) DEF NoStrandedApproval, Others, Same, Moves, Ends, Sets, Settled
<1>17. ASSUME NEW p \in Procs, Revoke(p) PROVE NoStrandedApproval'
  BY <1>17, Revoked, Zenon DEF NoStrandedApproval, Others, Same, Moves, Ends, Sets, Settled
<1>18. ASSUME NEW p \in Procs, DeleteTicket(p) PROVE NoStrandedApproval'
  BY <1>18, Deleted, SMTT(30) DEF NoStrandedApproval, Others, Same, Moves, Ends, Sets, Settled
<1>19. ASSUME NEW p \in Procs, Fail(p) PROVE NoStrandedApproval'
  <2>1. faults' = faults + 1 /\ faults \in Nat
    BY <1>19, Failed DEF Types
  <2>2. faults' # 0
    BY <2>1
  <2> QED
    BY <2>2, Zenon DEF NoStrandedApproval
<1>20. ASSUME NEW p \in Procs, NEW d \in Docs, NEW at \in {"items", "resolve"},
             CreateWithScopes(p, d, at), at = "items" => d.type = "query_access"
      PROVE  NoStrandedApproval'
  <2>1. ticket'.st = "pending_review"
    BY <1>20, Created, Zenon DEF Sets, Steps
  <2> QED
    BY <2>1 DEF NoStrandedApproval
<1>21. ASSUME NEW p \in Procs, NEW u \in Users,
              NEW op \in Decisions \cup {"withdraw", "revoke", "retry"}, Request(p, u, op)
      PROVE  NoStrandedApproval'
  BY <1>21, Requested, Zenon DEF NoStrandedApproval, Others, Settled
<1>22. ASSUME NEW l \in NewRules, ReplaceWorkflowRules(l) PROVE NoStrandedApproval'
  BY <1>22, SMTT(30) DEF NoStrandedApproval, ReplaceWorkflowRules, conf
<1>23. ASSUME NEW u \in Users, SetUserActive(u) PROVE NoStrandedApproval'
  BY <1>23, Zenon DEF NoStrandedApproval, SetUserActive, conf
<1>24. ASSUME NEW rule \in {"ticket", "manual"}, NEW new \in {{}, {"manual"}},
              EditAccessRule(rule, new)
      PROVE  NoStrandedApproval'
  BY <1>24, Zenon DEF NoStrandedApproval, EditAccessRule, conf
<1>25. CASE UNCHANGED vars
  BY <1>25, SMTT(30) DEF NoStrandedApproval, vars
<1>26. ASSUME NEW p \in Procs, SetScheduled(p) PROVE NoStrandedApproval'
  BY <1>26, Scheduled, Zenon DEF NoStrandedApproval, Others, Ends, Sets, Settled
<1>27. ASSUME NEW p \in Procs, GetDueScheduled(p) PROVE NoStrandedApproval'
  BY <1>27, DueRead, Zenon DEF NoStrandedApproval, Settled
<1>28. ASSUME NEW p \in Procs, ClaimManualStatementExecution(p) PROVE NoStrandedApproval'
  BY <1>28, Claimed, Zenon DEF NoStrandedApproval, Others, Ends, Sets, Settled
<1>29. ASSUME NEW c \in Conns, DeleteConnection(c) PROVE NoStrandedApproval'
  BY <1>29, Disconnected, Zenon DEF NoStrandedApproval
<1> QED
  BY <1>1, <1>2, <1>3, <1>4, <1>5, <1>6, <1>7, <1>8, <1>9, <1>10, <1>11, <1>12, <1>13, <1>14,
     <1>15, <1>16, <1>17, <1>18, <1>19, <1>20, <1>21, <1>22, <1>23, <1>24, <1>25, <1>26, <1>27,
     <1>28, <1>29
     DEF Next, Handle, Create, CreateExport, CreateSensitiveAccessTicket, LarkCardAction,
         Decisions, CardActions, Starts

\* The statuses a ticket does not leave once it was queued and a decision was made on it.
Left == {"pending_execution", "executing", "rejected", "deleted"}

\* A queued ticket goes on from there, and while it is queued it keeps its reviewer.
Onward ==
    ticket.st \in Left =>
        /\ ticket'.st \in Left
        /\ ticket'.st = "pending_execution"
             => ticket.st = "pending_execution" /\ ticket'.reviewer = ticket.reviewer

\* The request of p goes on to a step that needs no further check of persons, or is answered.
Eases(p) ==
    \/ Ends(p)
    \/ \E at \in Steps \ {"write", "queue"} : Moves(p, at)
    \/ Moves(p, "queue") /\ Reviews(req[p])

\* Duty follows for every request when it holds of the one that moved.
LEMMA DutyAfter ==
  ASSUME Duty, NEW p \in Procs, Others(p), Settled, Onward, Apart', Passed(req[p])'
  PROVE  Duty'
<1>1. doc' = doc /\ bypass' = bypass
  BY Zenon DEF Settled
<1>2. ASSUME NEW q \in Procs \ {p} PROVE Passed(req[q])'
  <2>1. req'[q] = req[q] /\ Passed(req[q])
    BY Zenon DEF Others, Duty
  <2>2. req[q].seen.st = "pending_execution" =>
          /\ ticket'.st \in Left
          /\ ticket'.st = "pending_execution" => ticket'.reviewer = req[q].seen.reviewer
    BY <2>1 DEF Passed, Onward, Left
  <2> QED
    BY <1>1, <2>1, <2>2, Zenon DEF Passed, Reviews, Left
<1> QED
  BY <1>2, Zenon DEF Duty

\* A request that eases needs no more than that the ticket goes on and the row is in order.
LEMMA DutyEases ==
  ASSUME Duty, NEW p \in Procs, Eases(p), Settled, Onward, Apart'
  PROVE  Duty'
<1>1. doc' = doc /\ bypass' = bypass
  BY Zenon DEF Settled
<1>2. Others(p)
  BY Zenon DEF Eases, Ends, Moves
<1>3. CASE Ends(p)
  <2>1. req'[p].op = None /\ req'[p].seen.st = None
    BY <1>3, Blank, Zenon DEF Ends
  <2>2. Passed(req[p])'
    BY <2>1 DEF Passed, Reviews, Starts, None
  <2> QED
    BY <1>2, <2>2, DutyAfter, Zenon
<1>4. CASE ~Ends(p)
  <2>1. Passed(req[p]) /\ Same(p)
    BY <1>4, Zenon DEF Duty, Eases, Moves
  <2>2. req'[p].at # "write" /\ (req'[p].at = "queue" => Reviews(req[p]))
    BY <1>4, Zenon DEF Eases, Moves
  <2>3. req[p].seen.st = "pending_execution" =>
          /\ ticket'.st \in Left
          /\ ticket'.st = "pending_execution" => ticket'.reviewer = req[p].seen.reviewer
    BY <2>1 DEF Passed, Onward, Left
  <2>4. Passed(req[p])'
    BY <1>1, <2>1, <2>2, <2>3, Zenon DEF Passed, Reviews, Same, Left
  <2> QED
    BY <1>2, <2>4, DutyAfter, Zenon
<1> QED
  BY <1>3, <1>4

\* Nothing happens to a row that is not written.
LEMMA Unwritten ==
  ASSUME Duty, Settled, ticket' = ticket
  PROVE  Onward /\ Apart'
<1>1. doc' = doc /\ bypass' = bypass
  BY Zenon DEF Settled
<1> QED
  BY <1>1, Zenon DEF Onward, Duty, Apart, FourEyes, Planned

\* A write that keeps the reviewer, or erases it, and starts no execution keeps the row in order.
LEMMA Kept ==
  ASSUME Duty, Settled, NEW st \in Statuses, st # "executing",
         NEW e, st = "pending_execution" => e = None, Sets(st, ticket.reviewer, e) \/ Sets(st, None, e)
  PROVE  Apart'
<1>1. doc' = doc /\ bypass' = bypass
  BY Zenon DEF Settled
<1>2. /\ ticket'.st # "executing"
      /\ ticket'.st = "pending_execution" => ticket'.executor = None
      /\ (ticket'.reviewer = ticket.reviewer \/ ticket'.reviewer = None)
  BY Zenon DEF Sets
<1> QED
  BY <1>1, <1>2, Zenon DEF Duty, Apart, FourEyes, Planned

\* So does the write of a reviewer who has passed the check.
LEMMA Reviewed ==
  ASSUME Duty, Settled, NEW p \in Procs, Reviews(req[p]),
         NEW st \in Statuses, st # "executing", NEW e, st = "pending_execution" => e = None,
         Sets(st, Deciding(p), e)
  PROVE  Apart'
<1>1. doc' = doc /\ bypass' = bypass
  BY Zenon DEF Settled
<1>2. doc.by = req[p].user => req[p].user \in bypass.review
  BY Zenon DEF Duty, Passed
<1>3. /\ ticket'.st # "executing"
      /\ ticket'.st = "pending_execution" => ticket'.executor = None
      /\ ticket'.reviewer = ticket.reviewer \/ ticket'.reviewer = req[p].user
  BY Zenon DEF Sets, Deciding
<1> QED
  BY <1>1, <1>2, <1>3, Zenon DEF Duty, Apart, FourEyes, Planned

\* Every step keeps the separation of duties, although the checks are made on an old copy of
\* the row: a decision is written only over the status the request has read.
LEMMA DutyStep == Inv /\ [Next]_vars => Duty'
<1> SUFFICES ASSUME Types, Row, Pending, Duty, Guarded, GrantsFromReview, NoStrandedApproval,
                    [Next]_vars
             PROVE  Duty'
  BY DEF Inv
<1>1. ASSUME NEW p \in Procs, CreateTicketItems(p) PROVE Duty'
  <2>1. Settled /\ ticket' = ticket /\ Eases(p)
    BY <1>1, ItemsStored, Zenon DEF Eases, Steps
  <2> QED
    BY <2>1, Unwritten, DutyEases, Zenon
<1>2. ASSUME NEW p \in Procs, Resolve(p) PROVE Duty'
  <2>1. Settled /\ ticket' = ticket /\ Others(p) /\ Same(p) /\ req'[p].at = "save"
    BY <1>2, Resolved, Zenon
  <2>2. Onward /\ Apart' /\ doc' = doc /\ bypass' = bypass
    BY <2>1, Unwritten, Zenon DEF Settled
  <2>3. Passed(req[p])
    BY Zenon DEF Duty
  <2>4. Passed(req[p])'
    BY <2>1, <2>2, <2>3 DEF Passed, Reviews, Same
  <2> QED
    BY <2>1, <2>2, <2>4, DutyAfter, Zenon
<1>3. ASSUME NEW p \in Procs, SaveWorkflowSnapshot(p) PROVE Duty'
  <2>1. Settled /\ ticket' = ticket /\ Eases(p)
    BY <1>3, Saved, Zenon DEF Eases, Steps
  <2> QED
    BY <2>1, Unwritten, DutyEases, Zenon
<1>4. ASSUME NEW p \in Procs, ApplyWorkflowAfterCreate(p) PROVE Duty'
  <2>1. Settled /\ Eases(p)
    BY <1>4, Routed, Zenon DEF Eases, Steps
  <2>2. CASE ticket' = ticket
    BY <2>1, <2>2, Unwritten, DutyEases, Zenon
  <2>3. CASE ticket' # ticket
    <3>1. /\ ticket.st = "pending_review"
          /\ \/ Sets("needs_admin_attention", ticket.reviewer, ticket.executor)
             \/ Sets("approved", ticket.reviewer, ticket.executor)
      BY <1>4, <2>3, Routed, Zenon
    <3>2. Onward
      BY <3>1 DEF Onward, Sets, Left
    <3>3. Apart'
      BY <2>1, <3>1, Kept DEF Statuses
    <3> QED
      BY <2>1, <3>2, <3>3, DutyEases, Zenon
  <2> QED
    BY <2>2, <2>3
<1>5. ASSUME NEW p \in Procs, RouteRetried(p) PROVE Duty'
  <2>1. Settled /\ Eases(p)
    BY <1>5, RoutedAgain, Zenon DEF Eases, Steps
  <2>2. CASE ticket' = ticket
    BY <2>1, <2>2, Unwritten, DutyEases, Zenon
  <2>3. CASE ticket' # ticket
    <3>1. /\ ticket.st = "needs_admin_attention"
          /\ \/ Sets("pending_review", ticket.reviewer, ticket.executor)
             \/ Sets("approved", ticket.reviewer, ticket.executor)
      BY <1>5, <2>3, RoutedAgain, Zenon
    <3>2. Onward
      BY <3>1 DEF Onward, Sets, Left
    <3>3. Apart'
      BY <2>1, <3>1, Kept DEF Statuses
    <3> QED
      BY <2>1, <3>2, <3>3, DutyEases, Zenon
  <2> QED
    BY <2>2, <2>3
<1>6. ASSUME NEW p \in Procs, FinishNoApprovalWorkflow(p) PROVE Duty'
  <2>1. Settled /\ Eases(p)
    BY <1>6, Finished, Zenon DEF Eases, Steps
  <2>2. CASE ticket' = ticket
    BY <2>1, <2>2, Unwritten, DutyEases, Zenon
  <2>3. CASE ticket' # ticket
    <3>1. ticket.st = "approved" /\ Sets("pending_execution", ticket.reviewer, ticket.executor)
      BY <1>6, <2>3, Finished
    <3>2. Onward
      BY <3>1 DEF Onward, Sets, Left
    <3>3. Apart'
      <4>1. ticket.executor = None
        BY <3>1, Zenon DEF Row
      <4> QED
        BY <2>1, <3>1, <4>1, Kept DEF Statuses
    <3> QED
      BY <2>1, <3>2, <3>3, DutyEases, Zenon
  <2> QED
    BY <2>2, <2>3
<1>7. ASSUME NEW p \in Procs, StartWorkflowAutoExecution(p) PROVE Duty'
  <2>1. Settled /\ Eases(p)
    BY <1>7, Started, Zenon DEF Eases, Steps
  <2>2. CASE ticket' = ticket
    BY <2>1, <2>2, Unwritten, DutyEases, Zenon
  <2>3. CASE ticket' # ticket
    <3>1. ticket.st = "pending_execution" /\ Sets("executing", ticket.reviewer, "system")
      BY <1>7, <2>3, Started
    <3>2. Onward
      BY <3>1 DEF Onward, Sets, Left
    <3>3. Apart'
      <4>1. doc.by # "system" /\ ticket.reviewer # "system"
        <5>1. ticket.reviewer \in Users \cup {None} /\ doc.by \in Users \cup {None}
          BY Fields, Zenon DEF Row
        <5> QED
          BY <5>1, Words DEF None
      <4>2. doc' = doc /\ bypass' = bypass /\ ticket'.reviewer = ticket.reviewer
            /\ ticket'.executor = "system"
        BY <2>1, <3>1, Zenon DEF Settled, Sets
      <4> QED
        BY <4>1, <4>2, Zenon DEF Duty, Apart, FourEyes, Planned
    <3> QED
      BY <2>1, <3>2, <3>3, DutyEases, Zenon
  <2> QED
    BY <2>2, <2>3
<1>8. ASSUME NEW p \in Procs, Check(p) PROVE Duty'
  <2>1. Settled /\ ticket' = ticket /\ (Ends(p) \/ Moves(p, "write"))
    BY <1>8, Checked, Zenon
  <2>2. Onward /\ Apart' /\ doc' = doc /\ bypass' = bypass
    BY <2>1, Unwritten, Zenon DEF Settled
  <2>3. CASE Ends(p)
    BY <2>1, <2>2, <2>3, DutyEases, Zenon DEF Eases
  <2>4. CASE ~Ends(p)
    <3>1. Moves(p, "write") /\ Others(p) /\ Same(p)
      BY <2>1, <2>4, Zenon DEF Moves
    <3>2. /\ req[p].op = "approve" /\ doc.by = req[p].user => req[p].user \in bypass.review
          /\ req[p].op = "reject" /\ req[p].seen.st = "pending_review" /\ doc.by = req[p].user
               => req[p].user \in bypass.review
          /\ req[p].op \in Starts =>
               /\ req[p].seen.st = "pending_execution"
               /\ doc.by = req[p].user => req[p].user \in bypass.execute
               /\ req[p].seen.reviewer = req[p].user => req[p].user \in bypass.multi
      BY <1>8, <2>4, Checked, Zenon
    <3>3. Passed(req[p])
      BY Zenon DEF Duty
    <3>4. Passed(req[p])'
      BY <1>8, <2>1, <2>2, <3>1, <3>2, <3>3, Checked DEF Passed, Reviews, Same, Decisions, Starts
    <3> QED
      BY <2>1, <2>2, <3>1, <3>4, DutyAfter, Zenon
  <2> QED
    BY <2>3, <2>4
<1>9. ASSUME NEW p \in Procs, Approve(p) PROVE Duty'
  <2>0. req[p].op = "approve" /\ req[p].at = "write" /\ Reviews(req[p])
    BY <1>9, Approved, Zenon DEF Reviews
  <2>1. Settled /\ Eases(p)
    BY <1>9, <2>0, Approved, Zenon DEF Eases, Steps
  <2>2. CASE ticket' = ticket
    BY <2>1, <2>2, Unwritten, DutyEases, Zenon
  <2>3. CASE ticket' # ticket
    <3>1. /\ ticket.st = req[p].seen.st
          /\ Sets("approved", Deciding(p), ticket.executor)
      BY <1>9, <2>3, Approved
    <3>2. Onward
      <4>1. req[p].seen.st \in {"pending_review", "needs_admin_attention"}
        BY <2>0, Zenon DEF Pending, Knows
      <4> QED
        BY <3>1, <4>1 DEF Onward, Left
    <3>3. Apart'
      BY <2>0, <2>1, <3>1, Reviewed DEF Statuses
    <3> QED
      BY <2>1, <3>2, <3>3, DutyEases, Zenon
  <2> QED
    BY <2>2, <2>3
<1>10. ASSUME NEW p \in Procs, EnsureReadyExportRequest(p) PROVE Duty'
  <2>1. Settled /\ ticket' = ticket /\ Eases(p)
    BY <1>10, Readied, Zenon DEF Eases, Steps
  <2> QED
    BY <2>1, Unwritten, DutyEases, Zenon
<1>11. ASSUME NEW p \in Procs, QueueApproved(p) PROVE Duty'
  <2>0. Reviews(req[p])
    BY <1>11, Queued, Zenon DEF Reviews
  <2>1. Settled /\ Eases(p)
    BY <1>11, Queued, Zenon DEF Eases, Steps
  <2>2. CASE ticket' = ticket
    BY <2>1, <2>2, Unwritten, DutyEases, Zenon
  <2>3. CASE ticket' # ticket
    <3>1. ticket.st = "approved" /\ Sets("pending_execution", Deciding(p), ticket.executor)
      BY <1>11, <2>3, Queued, Zenon
    <3>2. Onward
      BY <3>1 DEF Onward, Sets, Left
    <3>3. Apart'
      <4>1. ticket.executor = None
        BY <3>1, Zenon DEF Row
      <4> QED
        BY <2>0, <2>1, <3>1, <4>1, Reviewed DEF Statuses
    <3> QED
      BY <2>1, <3>2, <3>3, DutyEases, Zenon
  <2> QED
    BY <2>2, <2>3
<1>12. ASSUME NEW p \in Procs, ChooseMode(p) PROVE Duty'
  <2>1. Settled /\ ticket' = ticket /\ Eases(p)
    BY <1>12, ModeChosen, Zenon DEF Eases, Steps
  <2> QED
    BY <2>1, Unwritten, DutyEases, Zenon
<1>13. ASSUME NEW p \in Procs, Reject(p) PROVE Duty'
  <2>0. req[p].op = "reject" /\ req[p].at = "write"
    BY <1>13, Rejected, Zenon
  <2>1. Settled /\ Eases(p)
    BY <1>13, Rejected, Zenon DEF Eases, Steps
  <2>2. CASE ticket' = ticket
    BY <2>1, <2>2, Unwritten, DutyEases, Zenon
  <2>3. CASE ticket' # ticket
    <3>1. /\ ticket.st = req[p].seen.st
          /\ IF ticket.st \in {"approved", "pending_execution"}
               THEN Sets("rejected", ticket.reviewer, ticket.executor)
               ELSE Sets("rejected", Deciding(p), ticket.executor)
      BY <1>13, <2>3, Rejected, Zenon
    <3>2. Onward
      BY <3>1 DEF Onward, Sets, Left
    <3>3. Apart'
      <4>1. CASE ticket.st \in {"approved", "pending_execution"}
        <5>1. Sets("rejected", ticket.reviewer, ticket.executor)
          BY <3>1, <4>1, Zenon
        <5> QED
          BY <2>1, <5>1, Kept DEF Statuses
      <4>2. CASE ticket.st \notin {"approved", "pending_execution"}
        <5>1. Sets("rejected", Deciding(p), ticket.executor)
          BY <3>1, <4>2, Zenon
        <5>2. req[p].seen.st \in {"pending_review", "approved", "pending_execution"}
          BY <2>0, Zenon DEF Pending, Knows
        <5>3. Reviews(req[p])
          BY <2>0, <3>1, <4>2, <5>2, Zenon DEF Reviews
        <5> QED
          BY <2>1, <5>1, <5>3, Reviewed DEF Statuses
      <4> QED
        BY <4>1, <4>2
    <3> QED
      BY <2>1, <3>2, <3>3, DutyEases, Zenon
  <2> QED
    BY <2>2, <2>3
<1>14. ASSUME NEW p \in Procs, SetExecutorIfEmpty(p) PROVE Duty'
  <2>1. Settled /\ Eases(p)
    BY <1>14, Taken, Zenon DEF Eases
  <2>2. ticket.st \in {"rejected", "deleted"}
    BY <1>14, Taken, Zenon DEF Pending, Knows
  <2>3. CASE ticket' = ticket
    BY <2>1, <2>3, Unwritten, DutyEases, Zenon
  <2>4. CASE ticket' # ticket
    <3>1. Sets(ticket.st, ticket.reviewer, req[p].user)
      BY <1>14, <2>4, Taken, Zenon
    <3>2. Onward
      BY <2>2, <3>1 DEF Onward, Sets, Left
    <3>3. Apart'
      BY <2>1, <2>2, <3>1, Kept DEF Statuses
    <3> QED
      BY <2>1, <3>2, <3>3, DutyEases, Zenon
  <2> QED
    BY <2>3, <2>4
<1>15. ASSUME NEW p \in Procs, StartExecution(p) PROVE Duty'
  <2>1. Settled /\ Eases(p)
    BY <1>15, Executed, Zenon DEF Eases, Steps
  <2>2. CASE ticket' = ticket
    BY <2>1, <2>2, Unwritten, DutyEases, Zenon
  <2>3. CASE ticket' # ticket
    <3>1. ticket.st = "pending_execution" /\ Sets("executing", ticket.reviewer, req[p].user)
      BY <1>15, <2>3, Executed
    <3>2. Onward
      BY <3>1 DEF Onward, Sets, Left
    <3>3. Apart'
      <4>1. /\ doc.by = req[p].user => req[p].user \in bypass.execute
            /\ ticket.reviewer = req[p].user => req[p].user \in bypass.multi
        <5>1. req[p].op \in Starts \cup {"due"} /\ req[p].at = "write" /\ Passed(req[p])
          BY <1>15, Executed, Zenon DEF Duty, Starts
        <5> QED
          BY <3>1, <5>1, Zenon DEF Passed
      <4>2. doc' = doc /\ bypass' = bypass /\ ticket'.reviewer = ticket.reviewer
            /\ ticket'.executor = req[p].user
        BY <2>1, <3>1, Zenon DEF Settled, Sets
      <4> QED
        BY <4>1, <4>2, Zenon DEF Duty, Apart, FourEyes, Planned
    <3> QED
      BY <2>1, <3>2, <3>3, DutyEases, Zenon
  <2> QED
    BY <2>2, <2>3
<1>16. ASSUME NEW p \in Procs, Withdraw(p) PROVE Duty'
  <2>1. Settled /\ Eases(p)
    BY <1>16, Withdrawn, Zenon DEF Eases, Steps
  <2>2. CASE ticket' = ticket
    BY <2>1, <2>2, Unwritten, DutyEases, Zenon
  <2>3. CASE ticket' # ticket
    <3>1. ticket.st = "pending_review" /\ Sets("withdrawn", ticket.reviewer, ticket.executor)
      BY <1>16, <2>3, Withdrawn, Zenon DEF Pending, Knows
    <3>2. Onward
      BY <3>1 DEF Onward, Sets, Left
    <3>3. Apart'
      BY <2>1, <3>1, Kept DEF Statuses
    <3> QED
      BY <2>1, <3>2, <3>3, DutyEases, Zenon
  <2> QED
    BY <2>2, <2>3
<1>17. ASSUME NEW p \in Procs, Revoke(p) PROVE Duty'
  <2>1. Settled /\ Eases(p)
    BY <1>17, Revoked, Zenon DEF Eases, Steps
  <2>2. CASE ticket' = ticket
    BY <2>1, <2>2, Unwritten, DutyEases, Zenon
  <2>3. CASE ticket' # ticket
    <3>1. ticket.st = "approved" /\ Sets("stopped", ticket.reviewer, ticket.executor)
      BY <1>17, <2>3, Revoked, Zenon
    <3>2. Onward
      BY <3>1 DEF Onward, Sets, Left
    <3>3. Apart'
      BY <2>1, <3>1, Kept DEF Statuses
    <3> QED
      BY <2>1, <3>2, <3>3, DutyEases, Zenon
  <2> QED
    BY <2>2, <2>3
<1>18. ASSUME NEW p \in Procs, DeleteTicket(p) PROVE Duty'
  <2>1. Settled /\ Eases(p) /\ Sets("deleted", None, None)
    BY <1>18, Deleted, Zenon DEF Eases
  <2>2. Onward
    BY <2>1 DEF Onward, Sets, Left
  <2>3. Apart'
    BY <2>1, Kept DEF Statuses
  <2> QED
    BY <2>1, <2>2, <2>3, DutyEases, Zenon
<1>19. ASSUME NEW p \in Procs, Fail(p) PROVE Duty'
  <2>1. Settled /\ ticket' = ticket /\ Eases(p)
    BY <1>19, Failed, Zenon DEF Eases, Steps
  <2> QED
    BY <2>1, Unwritten, DutyEases, Zenon
<1>20. ASSUME NEW p \in Procs, NEW d \in Docs, NEW at \in {"items", "resolve"},
             CreateWithScopes(p, d, at), at = "items" => d.type = "query_access"
      PROVE  Duty'
  <2>1. /\ ticket.st = None /\ doc' = d /\ d.by \in Users /\ bypass' = bypass
        /\ ticket'.st = "pending_review" /\ ticket'.reviewer = None
        /\ Others(p) /\ req'[p].op = "create" /\ req'[p].seen.st = None
    BY <1>20, Created, Blank DEF Sets, Steps, NoTicket
  <2>2. \A q \in Procs \ {p} : req'[q] = NoReq
    BY <2>1, Zenon DEF Row, Others
  <2>3. \A q \in Procs : Passed(req[q])'
    BY <2>1, <2>2, Blank, Words DEF Passed, Reviews, Starts
  <2>4. Apart'
    BY <2>1, Words DEF Apart, FourEyes, Planned
  <2> QED
    BY <2>3, <2>4, Zenon DEF Duty
<1>21. ASSUME NEW p \in Procs, NEW u \in Users,
              NEW op \in Decisions \cup {"withdraw", "revoke", "retry"}, Request(p, u, op)
      PROVE  Duty'
  <2>1. /\ Settled /\ ticket' = ticket /\ Others(p) /\ req'[p].seen = ticket
        /\ req'[p].at \in {"check", "resolve", "withdraw", "revoke"}
    BY <1>21, Requested, Zenon
  <2>2. Onward /\ Apart' /\ doc' = doc /\ bypass' = bypass
    BY <2>1, Unwritten, Zenon DEF Settled
  <2>3. Passed(req[p])'
    BY <2>1, <2>2 DEF Passed, Reviews
  <2> QED
    BY <2>1, <2>2, <2>3, DutyAfter, Zenon
<1>22. ASSUME NEW l \in NewRules, ReplaceWorkflowRules(l) PROVE Duty'
  BY <1>22, Zenon DEF Duty, Apart, FourEyes, Planned, Passed, Reviews, ReplaceWorkflowRules, conf
<1>23. ASSUME NEW u \in Users, SetUserActive(u) PROVE Duty'
  BY <1>23, Zenon DEF Duty, Apart, FourEyes, Planned, Passed, Reviews, SetUserActive, conf
<1>24. ASSUME NEW rule \in {"ticket", "manual"}, NEW new \in {{}, {"manual"}},
              EditAccessRule(rule, new)
      PROVE  Duty'
  BY <1>24, Zenon DEF Duty, Apart, FourEyes, Planned, Passed, Reviews, EditAccessRule, conf
<1>25. CASE UNCHANGED vars
  BY <1>25, Zenon DEF Duty, Apart, FourEyes, Planned, Passed, Reviews, vars
<1>26. ASSUME NEW p \in Procs, SetScheduled(p) PROVE Duty'
  <2>1. Settled /\ Eases(p)
    BY <1>26, Scheduled, Zenon DEF Eases
  <2>2. CASE ticket' = ticket
    BY <2>1, <2>2, Unwritten, DutyEases, Zenon
  <2>3. CASE ticket' # ticket
    <3>1. /\ ticket.st = "pending_execution"
          /\ Sets("pending_execution", ticket.reviewer, req[p].user)
      BY <1>26, <2>3, Scheduled, Zenon
    <3>2. Onward
      BY <3>1 DEF Onward, Sets, Left
    <3>3. Apart'
      <4>1. /\ doc.by = req[p].user => req[p].user \in bypass.execute
            /\ ticket.reviewer = req[p].user => req[p].user \in bypass.multi
        <5>1. req[p].op \in Starts \cup {"due"} /\ req[p].at = "write" /\ Passed(req[p])
          BY <1>26, Scheduled, Zenon DEF Duty, Starts
        <5> QED
          BY <3>1, <5>1, Zenon DEF Passed
      <4>2. doc' = doc /\ bypass' = bypass /\ ticket'.reviewer = ticket.reviewer
            /\ ticket'.executor = req[p].user /\ ticket'.st # "executing"
        BY <2>1, <3>1, Zenon DEF Settled, Sets
      <4> QED
        BY <4>1, <4>2, Zenon DEF Duty, Apart, FourEyes, Planned
    <3> QED
      BY <2>1, <3>2, <3>3, DutyEases, Zenon
  <2> QED
    BY <2>2, <2>3
<1>27. ASSUME NEW p \in Procs, GetDueScheduled(p) PROVE Duty'
  <2>1. /\ Settled /\ ticket' = ticket /\ Others(p)
        /\ ticket.st = "pending_execution" /\ ticket.executor # None
        /\ req'[p].op = "due" /\ req'[p].user = ticket.executor /\ req'[p].seen = ticket
    BY <1>27, DueRead, Words, Zenon
  <2>2. Onward /\ Apart' /\ doc' = doc /\ bypass' = bypass
    BY <2>1, Unwritten, Zenon DEF Settled
  <2>3. /\ doc.by = ticket.executor => ticket.executor \in bypass.execute
        /\ ticket.reviewer = ticket.executor => ticket.executor \in bypass.multi
    BY <2>1, Zenon DEF Duty, Apart, Planned
  <2>4. Passed(req[p])'
    BY <2>1, <2>2, <2>3 DEF Passed, Reviews
  <2> QED
    BY <2>1, <2>2, <2>4, DutyAfter, Zenon
<1>28. ASSUME NEW p \in Procs, ClaimManualStatementExecution(p) PROVE Duty'
  <2>1. Settled /\ Eases(p)
    BY <1>28, Claimed, Zenon DEF Eases
  <2>2. CASE ticket' = ticket
    BY <2>1, <2>2, Unwritten, DutyEases, Zenon
  <2>3. CASE ticket' # ticket
    <3> DEFINE e == IF ticket.executor = None THEN req[p].user ELSE ticket.executor
    <3>1. ticket.st = "pending_execution" /\ Sets("executing", ticket.reviewer, e)
      BY <1>28, <2>3, Claimed, Zenon
    <3>2. Onward
      BY <3>1 DEF Onward, Sets, Left
    <3>3. Apart'
      <4>1. /\ doc.by = req[p].user => req[p].user \in bypass.execute
            /\ ticket.reviewer = req[p].user => req[p].user \in bypass.multi
        <5>1. req[p].op \in Starts \cup {"due"} /\ req[p].at = "write" /\ Passed(req[p])
          BY <1>28, Claimed, Zenon DEF Duty, Starts
        <5> QED
          BY <3>1, <5>1, Zenon DEF Passed
      <4>2. (doc.by = e => e \in bypass.execute) /\ (ticket.reviewer = e => e \in bypass.multi)
        BY <3>1, <4>1, Zenon DEF Duty, Apart, Planned
      <4>3. doc' = doc /\ bypass' = bypass /\ ticket'.reviewer = ticket.reviewer
            /\ ticket'.executor = e /\ ticket'.st # "pending_execution"
        BY <2>1, <3>1, Zenon DEF Settled, Sets
      <4> HIDE DEF e
      <4> QED
        BY <4>2, <4>3, Zenon DEF Duty, Apart, FourEyes, Planned
    <3> QED
      BY <2>1, <3>2, <3>3, DutyEases, Zenon
  <2> QED
    BY <2>2, <2>3
<1>29. ASSUME NEW c \in Conns, DeleteConnection(c) PROVE Duty'
  <2>1. doc' = doc /\ ticket' = ticket /\ bypass' = bypass /\ req' = req
    BY <1>29, Disconnected, Zenon
  <2> QED
    BY <2>1, Zenon DEF Duty, Apart, FourEyes, Planned, Passed, Reviews
<1> QED
  BY <1>1, <1>2, <1>3, <1>4, <1>5, <1>6, <1>7, <1>8, <1>9, <1>10, <1>11, <1>12, <1>13, <1>14,
     <1>15, <1>16, <1>17, <1>18, <1>19, <1>20, <1>21, <1>22, <1>23, <1>24, <1>25, <1>26, <1>27,
     <1>28, <1>29
     DEF Next, Handle, Create, CreateExport, CreateSensitiveAccessTicket, LarkCardAction,
         Decisions, CardActions, Starts

\* A resolution that is not yet made lets nothing pass, and what lets nothing pass asks for
\* a review.
LEMMA StrictMeans ==
  NoReq.res \in Strict /\ NoRes \in Strict /\ \A res \in Strict : res.err = "" => res.approval
<1>1. NoRes.err = None
  BY DEF NoRes, Resolution
<1>2. NoReq.res = NoRes
  BY DEF NoReq
<1>3. NoRes \in Strict
  BY <1>1, Nothing, Words, Zenon DEF Strict
<1> QED
  BY <1>2, <1>3, Zenon DEF Strict

\* Guarded follows for every request when it holds of the one that moved.
LEMMA GuardedAfter ==
  ASSUME Guarded, NEW p \in Procs, Others(p), Settled,
         production => \/ Waiving(first, doc.type, doc.sens)
                       \/ ~waived' /\ snapshot' \in Strict /\ req'[p].res \in Strict,
         production => req'[p].at # "auto",
         production /\ ticket'.st = "executing" => ticket'.executor \in Users
  PROVE  Guarded'
<1>1. production' = production /\ list' = list /\ doc' = doc /\ first' = first
  BY Zenon DEF Settled
<1>2. production => Inherited'
  BY <1>1, Zenon DEF Guarded, Inherited
<1>3. production => Waiving(first, doc.type, doc.sens) \/ Unwaived'
  BY Zenon DEF Guarded, Unwaived, Others
<1>4. production => \A q \in Procs : req'[q].at # "auto"
  BY Zenon DEF Guarded, Others
<1>5. Waiving(first, doc.type, doc.sens)' <=> Waiving(first, doc.type, doc.sens)
  BY <1>1, Zenon
<1> QED
  BY <1>1, <1>2, <1>3, <1>4, <1>5, Zenon DEF Guarded

\* A step of an administrator keeps Guarded if the list waives no more than it did.
LEMMA GuardedStays ==
  ASSUME Guarded, UNCHANGED <<production, first, doc, ticket, snapshot, waived, req>>,
         production => Inherited'
  PROVE  Guarded'
<1>1. Unwaived => Unwaived'
  BY Zenon DEF Unwaived
<1>2. Waiving(first, doc.type, doc.sens) => Waiving(first, doc.type, doc.sens)'
  BY Zenon
<1> QED
  BY <1>1, <1>2, Zenon DEF Guarded

\* In production every step keeps that no rule, snapshot or resolution waives a review that
\* the first list did not waive, and that no automatic execution is on its way
\* (ValidateWorkflowRules refuses such rules, and deleting a connection makes none).
LEMMA GuardedStep == Inv /\ [Next]_vars => Guarded'
<1> SUFFICES ASSUME Types, Row, Pending, Duty, Guarded, GrantsFromReview, NoStrandedApproval,
                    [Next]_vars
             PROVE  Guarded'
  BY DEF Inv
<1> USE StrictMeans, Blank
<1>1. ASSUME NEW p \in Procs, CreateTicketItems(p) PROVE Guarded'
  <2>1. ASSUME production
        PROVE  /\ \/ Waiving(first, doc.type, doc.sens)
                  \/ ~waived' /\ snapshot' \in Strict /\ req'[p].res \in Strict
               /\ req'[p].at # "auto"
               /\ ticket'.st = "executing" => ticket'.executor \in Users
    BY <1>1, <2>1, ItemsStored, Zenon DEF Guarded, Unwaived, Sets, Moves, Ends
  <2>2. Others(p) /\ Settled
    BY <1>1, ItemsStored, Zenon DEF Moves, Ends
  <2> QED
    BY <2>1, <2>2, GuardedAfter, Zenon
<1>2. ASSUME NEW p \in Procs, Resolve(p) PROVE Guarded'
  <2>1. /\ Others(p) /\ Settled /\ req'[p].at = "save"
        /\ ticket' = ticket /\ waived' = waived /\ snapshot' = snapshot
        /\ req'[p].res \in {TicketWorkflowResolution, ResolveTicketWorkflow}
    BY <1>2, Resolved, Zenon
  <2>2. ASSUME production, ~Waiving(first, doc.type, doc.sens)
        PROVE  ~waived' /\ snapshot' \in Strict /\ req'[p].res \in Strict
    <3>1. Unwaived /\ ~Waiving(list, doc.type, doc.sens)
      BY <2>2, Zenon DEF Guarded, Inherited, Row
    <3> QED
      BY <2>1, <3>1, Resolutions, Zenon DEF Unwaived
  <2>3. /\ req'[p].at # "auto"
        /\ production /\ ticket'.st = "executing" => ticket'.executor \in Users
    BY <2>1 DEF Guarded
  <2> QED
    BY <2>1, <2>2, <2>3, GuardedAfter, Zenon
<1>3. ASSUME NEW p \in Procs, SaveWorkflowSnapshot(p) PROVE Guarded'
  <2>1. ASSUME production
        PROVE  /\ \/ Waiving(first, doc.type, doc.sens)
                  \/ ~waived' /\ snapshot' \in Strict /\ req'[p].res \in Strict
               /\ req'[p].at # "auto"
               /\ ticket'.st = "executing" => ticket'.executor \in Users
    BY <1>3, <2>1, Saved, Zenon DEF Guarded, Unwaived, Sets, Moves, Ends
  <2>2. Others(p) /\ Settled
    BY <1>3, Saved, Zenon DEF Moves, Ends
  <2> QED
    BY <2>1, <2>2, GuardedAfter, Zenon
<1>4. ASSUME NEW p \in Procs, ApplyWorkflowAfterCreate(p) PROVE Guarded'
  <2>1. ASSUME production
        PROVE  /\ \/ Waiving(first, doc.type, doc.sens)
                  \/ ~waived' /\ snapshot' \in Strict /\ req'[p].res \in Strict
               /\ req'[p].at # "auto"
               /\ ticket'.st = "executing" => ticket'.executor \in Users
    BY <1>4, <2>1, Routed, Zenon DEF Guarded, Unwaived, Sets, Moves, Ends
  <2>2. Others(p) /\ Settled
    BY <1>4, Routed, Zenon DEF Moves, Ends
  <2> QED
    BY <2>1, <2>2, GuardedAfter, Zenon
<1>5. ASSUME NEW p \in Procs, RouteRetried(p) PROVE Guarded'
  <2>1. ASSUME production
        PROVE  /\ \/ Waiving(first, doc.type, doc.sens)
                  \/ ~waived' /\ snapshot' \in Strict /\ req'[p].res \in Strict
               /\ req'[p].at # "auto"
               /\ ticket'.st = "executing" => ticket'.executor \in Users
    BY <1>5, <2>1, RoutedAgain, Zenon DEF Guarded, Unwaived, Sets, Moves, Ends
  <2>2. Others(p) /\ Settled
    BY <1>5, RoutedAgain, Zenon DEF Moves, Ends
  <2> QED
    BY <2>1, <2>2, GuardedAfter, Zenon
<1>6. ASSUME NEW p \in Procs, FinishNoApprovalWorkflow(p) PROVE Guarded'
  <2>1. ASSUME production
        PROVE  /\ \/ Waiving(first, doc.type, doc.sens)
                  \/ ~waived' /\ snapshot' \in Strict /\ req'[p].res \in Strict
               /\ req'[p].at # "auto"
               /\ ticket'.st = "executing" => ticket'.executor \in Users
    BY <1>6, <2>1, Finished, Zenon DEF Guarded, Unwaived, Sets, Moves, Ends
  <2>2. Others(p) /\ Settled
    BY <1>6, Finished, Zenon DEF Moves, Ends
  <2> QED
    BY <2>1, <2>2, GuardedAfter, Zenon
<1>7. ASSUME NEW p \in Procs, StartWorkflowAutoExecution(p) PROVE Guarded'
  <2>1. ASSUME production
        PROVE  /\ \/ Waiving(first, doc.type, doc.sens)
                  \/ ~waived' /\ snapshot' \in Strict /\ req'[p].res \in Strict
               /\ req'[p].at # "auto"
               /\ ticket'.st = "executing" => ticket'.executor \in Users
    BY <1>7, <2>1, Started, Zenon DEF Guarded, Unwaived, Sets, Moves, Ends
  <2>2. Others(p) /\ Settled
    BY <1>7, Started, Zenon DEF Moves, Ends
  <2> QED
    BY <2>1, <2>2, GuardedAfter, Zenon
<1>8. ASSUME NEW p \in Procs, Check(p) PROVE Guarded'
  <2>1. ASSUME production
        PROVE  /\ \/ Waiving(first, doc.type, doc.sens)
                  \/ ~waived' /\ snapshot' \in Strict /\ req'[p].res \in Strict
               /\ req'[p].at # "auto"
               /\ ticket'.st = "executing" => ticket'.executor \in Users
    BY <1>8, <2>1, Checked, Zenon DEF Guarded, Unwaived, Sets, Moves, Ends
  <2>2. Others(p) /\ Settled
    BY <1>8, Checked, Zenon DEF Moves, Ends
  <2> QED
    BY <2>1, <2>2, GuardedAfter, Zenon
<1>9. ASSUME NEW p \in Procs, Approve(p) PROVE Guarded'
  <2>1. ASSUME production
        PROVE  /\ \/ Waiving(first, doc.type, doc.sens)
                  \/ ~waived' /\ snapshot' \in Strict /\ req'[p].res \in Strict
               /\ req'[p].at # "auto"
               /\ ticket'.st = "executing" => ticket'.executor \in Users
    BY <1>9, <2>1, Approved, Zenon DEF Guarded, Unwaived, Sets, Moves, Ends
  <2>2. Others(p) /\ Settled
    BY <1>9, Approved, Zenon DEF Moves, Ends
  <2> QED
    BY <2>1, <2>2, GuardedAfter, Zenon
<1>10. ASSUME NEW p \in Procs, EnsureReadyExportRequest(p) PROVE Guarded'
  <2>1. ASSUME production
        PROVE  /\ \/ Waiving(first, doc.type, doc.sens)
                  \/ ~waived' /\ snapshot' \in Strict /\ req'[p].res \in Strict
               /\ req'[p].at # "auto"
               /\ ticket'.st = "executing" => ticket'.executor \in Users
    BY <1>10, <2>1, Readied, Zenon DEF Guarded, Unwaived, Sets, Moves, Ends
  <2>2. Others(p) /\ Settled
    BY <1>10, Readied, Zenon DEF Moves, Ends
  <2> QED
    BY <2>1, <2>2, GuardedAfter, Zenon
<1>11. ASSUME NEW p \in Procs, QueueApproved(p) PROVE Guarded'
  <2>1. ASSUME production
        PROVE  /\ \/ Waiving(first, doc.type, doc.sens)
                  \/ ~waived' /\ snapshot' \in Strict /\ req'[p].res \in Strict
               /\ req'[p].at # "auto"
               /\ ticket'.st = "executing" => ticket'.executor \in Users
    BY <1>11, <2>1, Queued, Zenon DEF Guarded, Unwaived, Sets, Moves, Ends
  <2>2. Others(p) /\ Settled
    BY <1>11, Queued, Zenon DEF Moves, Ends
  <2> QED
    BY <2>1, <2>2, GuardedAfter, Zenon
<1>12. ASSUME NEW p \in Procs, ChooseMode(p) PROVE Guarded'
  <2>1. ASSUME production
        PROVE  /\ \/ Waiving(first, doc.type, doc.sens)
                  \/ ~waived' /\ snapshot' \in Strict /\ req'[p].res \in Strict
               /\ req'[p].at # "auto"
               /\ ticket'.st = "executing" => ticket'.executor \in Users
    BY <1>12, <2>1, ModeChosen, Zenon DEF Guarded, Unwaived, Sets, Moves, Ends
  <2>2. Others(p) /\ Settled
    BY <1>12, ModeChosen, Zenon DEF Moves, Ends
  <2> QED
    BY <2>1, <2>2, GuardedAfter, Zenon
<1>13. ASSUME NEW p \in Procs, Reject(p) PROVE Guarded'
  <2>1. ASSUME production
        PROVE  /\ \/ Waiving(first, doc.type, doc.sens)
                  \/ ~waived' /\ snapshot' \in Strict /\ req'[p].res \in Strict
               /\ req'[p].at # "auto"
               /\ ticket'.st = "executing" => ticket'.executor \in Users
    BY <1>13, <2>1, Rejected, Zenon DEF Guarded, Unwaived, Sets, Moves, Ends
  <2>2. Others(p) /\ Settled
    BY <1>13, Rejected, Zenon DEF Moves, Ends
  <2> QED
    BY <2>1, <2>2, GuardedAfter, Zenon
<1>14. ASSUME NEW p \in Procs, SetExecutorIfEmpty(p) PROVE Guarded'
  <2>1. ASSUME production
        PROVE  /\ \/ Waiving(first, doc.type, doc.sens)
                  \/ ~waived' /\ snapshot' \in Strict /\ req'[p].res \in Strict
               /\ req'[p].at # "auto"
               /\ ticket'.st = "executing" => ticket'.executor \in Users
    BY <1>14, <2>1, Taken, Zenon DEF Guarded, Unwaived, Sets, Moves, Ends, Pending, Knows
  <2>2. Others(p) /\ Settled
    BY <1>14, Taken, Zenon DEF Moves, Ends
  <2> QED
    BY <2>1, <2>2, GuardedAfter, Zenon
<1>15. ASSUME NEW p \in Procs, StartExecution(p) PROVE Guarded'
  <2>1. ASSUME production
        PROVE  /\ \/ Waiving(first, doc.type, doc.sens)
                  \/ ~waived' /\ snapshot' \in Strict /\ req'[p].res \in Strict
               /\ req'[p].at # "auto"
               /\ ticket'.st = "executing" => ticket'.executor \in Users
    BY <1>15, <2>1, Executed, Zenon DEF Guarded, Unwaived, Sets, Moves, Ends, Pending, Knows, Decisions,
       Starts
  <2>2. Others(p) /\ Settled
    BY <1>15, Executed, Zenon DEF Moves, Ends
  <2> QED
    BY <2>1, <2>2, GuardedAfter, Zenon
<1>16. ASSUME NEW p \in Procs, Withdraw(p) PROVE Guarded'
  <2>1. ASSUME production
        PROVE  /\ \/ Waiving(first, doc.type, doc.sens)
                  \/ ~waived' /\ snapshot' \in Strict /\ req'[p].res \in Strict
               /\ req'[p].at # "auto"
               /\ ticket'.st = "executing" => ticket'.executor \in Users
    BY <1>16, <2>1, Withdrawn, Zenon DEF Guarded, Unwaived, Sets, Moves, Ends
  <2>2. Others(p) /\ Settled
    BY <1>16, Withdrawn, Zenon DEF Moves, Ends
  <2> QED
    BY <2>1, <2>2, GuardedAfter, Zenon
<1>17. ASSUME NEW p \in Procs, Revoke(p) PROVE Guarded'
  <2>1. ASSUME production
        PROVE  /\ \/ Waiving(first, doc.type, doc.sens)
                  \/ ~waived' /\ snapshot' \in Strict /\ req'[p].res \in Strict
               /\ req'[p].at # "auto"
               /\ ticket'.st = "executing" => ticket'.executor \in Users
    BY <1>17, <2>1, Revoked, Zenon DEF Guarded, Unwaived, Sets, Moves, Ends
  <2>2. Others(p) /\ Settled
    BY <1>17, Revoked, Zenon DEF Moves, Ends
  <2> QED
    BY <2>1, <2>2, GuardedAfter, Zenon
<1>18. ASSUME NEW p \in Procs, DeleteTicket(p) PROVE Guarded'
  <2>1. ASSUME production
        PROVE  /\ \/ Waiving(first, doc.type, doc.sens)
                  \/ ~waived' /\ snapshot' \in Strict /\ req'[p].res \in Strict
               /\ req'[p].at # "auto"
               /\ ticket'.st = "executing" => ticket'.executor \in Users
    BY <1>18, <2>1, Deleted, Zenon DEF Guarded, Unwaived, Sets, Moves, Ends
  <2>2. Others(p) /\ Settled
    BY <1>18, Deleted, Zenon DEF Moves, Ends
  <2> QED
    BY <2>1, <2>2, GuardedAfter, Zenon
<1>19. ASSUME NEW p \in Procs, Fail(p) PROVE Guarded'
  <2>1. ASSUME production
        PROVE  /\ \/ Waiving(first, doc.type, doc.sens)
                  \/ ~waived' /\ snapshot' \in Strict /\ req'[p].res \in Strict
               /\ req'[p].at # "auto"
               /\ ticket'.st = "executing" => ticket'.executor \in Users
    BY <1>19, <2>1, Failed, Zenon DEF Guarded, Unwaived, Sets, Moves, Ends
  <2>2. Others(p) /\ Settled
    BY <1>19, Failed, Zenon DEF Moves, Ends
  <2> QED
    BY <2>1, <2>2, GuardedAfter, Zenon
<1>20. ASSUME NEW p \in Procs, NEW d \in Docs, NEW at \in {"items", "resolve"},
             CreateWithScopes(p, d, at), at = "items" => d.type = "query_access"
      PROVE  Guarded'
  <2>1. /\ ticket.st = None /\ ticket'.st = "pending_review" /\ Others(p)
        /\ req'[p].at = at /\ req'[p].res = NoRes
        /\ production' = production /\ list' = list /\ first' = first
        /\ waived' = waived /\ snapshot' = snapshot
    BY <1>20, Created, Zenon DEF Steps, Sets
  <2>2. ~waived /\ snapshot = NoRes /\ \A q \in Procs : req[q] = NoReq
    BY <2>1, Zenon DEF Row
  <2>3. \A q \in Procs : req'[q].res = NoRes /\ req'[q].at # "auto"
    <3>1. NoReq.res = NoRes
      BY DEF NoReq
    <3>2. at # "auto"
      OBVIOUS
    <3> QED
      BY <2>1, <2>2, <3>1, <3>2, Blank, Zenon DEF Others
  <2>4. Unwaived'
    BY <2>1, <2>2, <2>3, Zenon DEF Unwaived
  <2>5. production => Inherited'
    BY <2>1, Zenon DEF Guarded, Inherited
  <2> QED
    BY <2>1, <2>3, <2>4, <2>5, Zenon DEF Guarded
<1>21. ASSUME NEW p \in Procs, NEW u \in Users,
              NEW op \in Decisions \cup {"withdraw", "revoke", "retry"}, Request(p, u, op)
      PROVE  Guarded'
  <2>1. ASSUME production
        PROVE  /\ \/ Waiving(first, doc.type, doc.sens)
                  \/ ~waived' /\ snapshot' \in Strict /\ req'[p].res \in Strict
               /\ req'[p].at # "auto"
               /\ ticket'.st = "executing" => ticket'.executor \in Users
    BY <1>21, <2>1, Requested, Zenon DEF Guarded, Unwaived, Sets, Moves, Ends
  <2>2. Others(p) /\ Settled
    BY <1>21, Requested, Zenon DEF Moves, Ends
  <2> QED
    BY <2>1, <2>2, GuardedAfter, Zenon
<1>22. ASSUME NEW l \in NewRules, ReplaceWorkflowRules(l) PROVE Guarded'
  <2>1. /\ list' = l /\ UNCHANGED <<production, first, doc, ticket, snapshot, waived, req>>
        /\ production => \A i \in DOMAIN l : l[i].approval
    BY <1>22, Zenon DEF ReplaceWorkflowRules, ValidRules, ValidShape, conf
  <2>2. production => Inherited'
    BY <2>1, Zenon DEF Inherited, Waiving
  <2> QED
    BY <2>1, <2>2, GuardedStays, Zenon
<1>23. ASSUME NEW u \in Users, SetUserActive(u) PROVE Guarded'
  <2>1. UNCHANGED <<production, list, first, doc, ticket, snapshot, waived, req>>
    BY <1>23, Zenon DEF SetUserActive, conf
  <2>2. production => Inherited'
    BY <2>1, Zenon DEF Guarded, Inherited
  <2> QED
    BY <2>1, <2>2, GuardedStays, Zenon
<1>24. ASSUME NEW rule \in {"ticket", "manual"}, NEW new \in {{}, {"manual"}},
              EditAccessRule(rule, new)
      PROVE  Guarded'
  <2>1. UNCHANGED <<production, list, first, doc, ticket, snapshot, waived, req>>
    BY <1>24, Zenon DEF EditAccessRule, conf
  <2>2. production => Inherited'
    BY <2>1, Zenon DEF Guarded, Inherited
  <2> QED
    BY <2>1, <2>2, GuardedStays, Zenon
<1>25. CASE UNCHANGED vars
  <2>1. UNCHANGED <<production, list, first, doc, ticket, snapshot, waived, req>>
    BY <1>25, Zenon DEF vars
  <2>2. production => Inherited'
    BY <2>1, Zenon DEF Guarded, Inherited
  <2> QED
    BY <2>1, <2>2, GuardedStays, Zenon
<1>26. ASSUME NEW p \in Procs, SetScheduled(p) PROVE Guarded'
  <2>1. ASSUME production
        PROVE  /\ \/ Waiving(first, doc.type, doc.sens)
                  \/ ~waived' /\ snapshot' \in Strict /\ req'[p].res \in Strict
               /\ req'[p].at # "auto"
               /\ ticket'.st = "executing" => ticket'.executor \in Users
    BY <1>26, <2>1, Scheduled, Zenon DEF Guarded, Unwaived, Sets, Ends
  <2>2. Others(p) /\ Settled
    BY <1>26, Scheduled, Zenon DEF Ends
  <2> QED
    BY <2>1, <2>2, GuardedAfter, Zenon
<1>27. ASSUME NEW p \in Procs, GetDueScheduled(p) PROVE Guarded'
  <2>1. NoReq.res = NoRes
    BY DEF NoReq
  <2>2. ASSUME production
        PROVE  /\ \/ Waiving(first, doc.type, doc.sens)
                  \/ ~waived' /\ snapshot' \in Strict /\ req'[p].res \in Strict
               /\ req'[p].at # "auto"
               /\ ticket'.st = "executing" => ticket'.executor \in Users
    BY <1>27, <2>1, <2>2, DueRead, Zenon DEF Guarded, Unwaived
  <2>3. Others(p) /\ Settled
    BY <1>27, DueRead, Zenon
  <2> QED
    BY <2>2, <2>3, GuardedAfter, Zenon
<1>28. ASSUME NEW p \in Procs, ClaimManualStatementExecution(p) PROVE Guarded'
  <2>1. req[p].user \in Users /\ (ticket.st = "pending_execution" => ticket.executor # "system")
    BY <1>28, Claimed, Zenon DEF Pending, Knows, Decisions, Starts, Row
  <2>2. ticket'.st = "executing" /\ ticket' # ticket => ticket'.executor \in Users
    BY <1>28, <2>1, Claimed, Fields, Zenon DEF Sets
  <2>3. ASSUME production
        PROVE  /\ \/ Waiving(first, doc.type, doc.sens)
                  \/ ~waived' /\ snapshot' \in Strict /\ req'[p].res \in Strict
               /\ req'[p].at # "auto"
               /\ ticket'.st = "executing" => ticket'.executor \in Users
    BY <1>28, <2>2, <2>3, Claimed, Zenon DEF Guarded, Unwaived, Ends
  <2>4. Others(p) /\ Settled
    BY <1>28, Claimed, Zenon DEF Ends
  <2> QED
    BY <2>3, <2>4, GuardedAfter, Zenon
<1>29. ASSUME NEW c \in Conns, DeleteConnection(c) PROVE Guarded'
  <2>1. /\ UNCHANGED <<production, first, doc, ticket, snapshot, waived, req>>
        /\ \A type, sens : Waiving(list', type, sens) => Waiving(list, type, sens)
    BY <1>29, Disconnected, Zenon
  <2>2. production => Inherited'
    BY <2>1, Zenon DEF Guarded, Inherited
  <2> QED
    BY <2>1, <2>2, GuardedStays, Zenon
<1> QED
  BY <1>1, <1>2, <1>3, <1>4, <1>5, <1>6, <1>7, <1>8, <1>9, <1>10, <1>11, <1>12, <1>13, <1>14,
     <1>15, <1>16, <1>17, <1>18, <1>19, <1>20, <1>21, <1>22, <1>23, <1>24, <1>25, <1>26, <1>27,
     <1>28, <1>29, Zenon
     DEF Next, Handle, Create, CreateExport, CreateSensitiveAccessTicket, LarkCardAction,
         Decisions, CardActions, Starts

\* The invariant holds before there is a ticket.
LEMMA InitInv == Init => Inv
<1> SUFFICES ASSUME Init PROVE Inv
  BY Zenon
<1>1. /\ ticket = NoTicket /\ ticket.st = None /\ ticket.reviewer = None /\ ticket.executor = None
      /\ doc.by = None
  BY DEF Init, NoTicket, NoDoc
<1>2. req = [p \in Procs |-> NoReq] /\ \A p \in Procs : req[p] = NoReq
  BY SMTT(60) DEF Init
<1>3. Types
  BY <1>1, <1>2, Nothing, WorkflowAssumption, Zenon DEF Init, Types
<1>4. Row
  BY <1>1, <1>2, Words, Zenon DEF Row, Init
<1>5. Pending
  BY <1>2, Blank, Words DEF Pending, Knows, Decisions, Starts
<1>6. Duty
  BY <1>1, <1>2, Blank, Words, SMTT(60) DEF Duty, Apart, FourEyes, Planned, Passed, Reviews, Starts
<1>7. Guarded
  <2>1. Inherited
    BY Zenon DEF Init, Inherited
  <2>2. Unwaived
    BY <1>2, StrictMeans, Zenon DEF Init, Unwaived
  <2>3. \A p \in Procs : req[p].at # "auto"
    BY <1>2, Blank, Zenon
  <2>4. ticket.st # "executing"
    BY <1>1, Words, Zenon
  <2> QED
    BY <2>1, <2>2, <2>3, <2>4 DEF Guarded
<1>8. GrantsFromReview /\ NoStrandedApproval
  BY <1>1, Words, Zenon DEF Init, GrantsFromReview, NoStrandedApproval
<1> QED
  BY <1>3, <1>4, <1>5, <1>6, <1>7, <1>8 DEF Inv

\* Every step keeps the invariant.
LEMMA InvStep == Inv /\ [Next]_vars => Inv'
BY TypesStep, RowStep, PendingStep, DutyStep, GuardedStep, GrantsStep, StrandedStep DEF Inv

\* The invariant holds in every reachable state, whatever the interleaving of the handlers.
THEOREM Invariance == Spec => []Inv
BY InitInv, InvStep, PTL DEF Spec

\* What a step does to the status, the reviewer and the waiver: nothing; an approval; a refusal;
\* between review and administrator; on to the execution; a revocation; a deletion; a creation.
Still     == ticket'.st = ticket.st /\ ticket'.reviewer = ticket.reviewer /\ waived' = waived
Approves  == /\ ticket.st \in {"pending_review", "needs_admin_attention"}
             /\ ticket'.st = "approved" /\ (ticket'.reviewer # None \/ waived')
Refuses   == \/ ticket.st = "pending_review" /\ ticket'.st \in {"rejected", "withdrawn"}
             \/ ticket.st \in {"approved", "pending_execution"} /\ ticket'.st = "rejected"
Parks     == /\ <<ticket.st, ticket'.st>> \in {<<"pending_review", "needs_admin_attention">>,
                                               <<"needs_admin_attention", "pending_review">>}
             /\ ticket'.reviewer = ticket.reviewer /\ waived' = waived
Proceeds  == /\ <<ticket.st, ticket'.st>> \in {<<"approved", "pending_execution">>,
                                               <<"pending_execution", "executing">>}
             /\ (ticket'.reviewer = None) <=> (ticket.reviewer = None)
             /\ waived' = waived
Revokes   == /\ ticket.st = "approved" /\ ticket'.st = "stopped"
             /\ ticket'.reviewer = ticket.reviewer /\ waived' = waived
Discards  == /\ ticket.st \in {"pending_review", "approved", "rejected", "withdrawn", "stopped"}
             /\ Decision # "waived"
             /\ ticket'.st = "deleted" /\ ticket'.reviewer = None /\ ~waived'
Submits   == /\ ticket.st = None
             /\ ticket'.st = "pending_review" /\ ticket'.reviewer = None /\ ~waived'

\* Each of these is a step of the life cycle.
LEMMA Lives ==
  ASSUME Row,
         \/ Still \/ Approves \/ Refuses \/ Parks \/ Proceeds \/ Revokes \/ Discards \/ Submits
  PROVE  [Life!LifeNext]_<<ticket.st, Decision>>
<1>1. CASE Still
  <2>1. Decision' = Decision
    BY <1>1 DEF Still, Decision
  <2> QED
    BY <1>1, <2>1 DEF Still
<1>2. CASE Approves
  <2>1. Decision = "open" /\ Decision' \in {"reviewed", "waived"}
    BY <1>2 DEF Approves, Decision, Row
  <2> QED
    BY <1>2, <2>1 DEF Approves, Life!LifeNext, Life!Move, Life!AllowedTransitions
<1>3. CASE Refuses
  <2>1. Decision' = "refused"
    BY <1>3 DEF Refuses, Decision
  <2> QED
    BY <1>3, <2>1 DEF Refuses, Life!LifeNext, Life!Move, Life!AllowedTransitions
<1>4. CASE Parks
  <2>1. Decision = "open" /\ Decision' = "open"
    BY <1>4 DEF Parks, Decision, Row
  <2> QED
    BY <1>4, <2>1 DEF Parks, Life!LifeNext, Life!Move, Life!AllowedTransitions
<1>5. CASE Proceeds
  <2>1. Decision \in {"reviewed", "waived"} /\ Decision' = Decision
    BY <1>5 DEF Proceeds, Decision, Row
  <2> QED
    BY <1>5, <2>1, Zenon DEF Proceeds, Life!LifeNext, Life!Move, Life!AllowedTransitions
<1>6. CASE Revokes
  <2>1. Decision' = Decision
    BY <1>6 DEF Revokes, Decision
  <2> QED
    BY <1>6, <2>1 DEF Revokes, Life!LifeNext, Life!Revoke
<1>7. CASE Discards
  <2>1. Decision' = "open"
    BY <1>7 DEF Discards, Decision
  <2> QED
    BY <1>7, <2>1, Zenon DEF Discards, Life!LifeNext, Life!Discard
<1>8. CASE Submits
  <2>1. Decision' = "open" /\ ticket.st = "none"
    BY <1>8, Words, Zenon DEF Submits, Decision
  <2> QED
    BY <1>8, <2>1 DEF Submits, Life!LifeNext, Life!Submit
<1> QED
  BY <1>1, <1>2, <1>3, <1>4, <1>5, <1>6, <1>7, <1>8, Zenon

\* Every step is a transition of the life cycle, or leaves the status and the decision alone.
LEMMA LifeStep == Inv /\ [Next]_vars => [Life!LifeNext]_<<ticket.st, Decision>>
<1> SUFFICES ASSUME Types, Row, Pending, Duty, Guarded, GrantsFromReview, NoStrandedApproval,
                    [Next]_vars
             PROVE  [Life!LifeNext]_<<ticket.st, Decision>>
  BY Zenon DEF Inv
<1>1. ASSUME NEW p \in Procs, CreateTicketItems(p)
      PROVE  [Life!LifeNext]_<<ticket.st, Decision>>
  <2>1. Still
    BY <1>1, ItemsStored, Zenon DEF Sets, Still
  <2> QED
    BY <2>1, Lives, Zenon
<1>2. ASSUME NEW p \in Procs, Resolve(p)
      PROVE  [Life!LifeNext]_<<ticket.st, Decision>>
  <2>1. Still
    BY <1>2, Resolved, Zenon DEF Sets, Still
  <2> QED
    BY <2>1, Lives, Zenon
<1>3. ASSUME NEW p \in Procs, SaveWorkflowSnapshot(p)
      PROVE  [Life!LifeNext]_<<ticket.st, Decision>>
  <2>1. Still
    BY <1>3, Saved, Zenon DEF Sets, Still
  <2> QED
    BY <2>1, Lives, Zenon
<1>4. ASSUME NEW p \in Procs, ApplyWorkflowAfterCreate(p)
      PROVE  [Life!LifeNext]_<<ticket.st, Decision>>
  <2>1. Still \/ Approves \/ Parks
    BY <1>4, Routed, Zenon DEF Sets, Still, Approves, Parks
  <2> QED
    BY <2>1, Lives, Zenon
<1>5. ASSUME NEW p \in Procs, RouteRetried(p)
      PROVE  [Life!LifeNext]_<<ticket.st, Decision>>
  <2>1. Still \/ Approves \/ Parks
    BY <1>5, RoutedAgain, Zenon DEF Sets, Still, Approves, Parks
  <2> QED
    BY <2>1, Lives, Zenon
<1>6. ASSUME NEW p \in Procs, FinishNoApprovalWorkflow(p)
      PROVE  [Life!LifeNext]_<<ticket.st, Decision>>
  <2>1. Still \/ Proceeds
    BY <1>6, Finished, Zenon DEF Sets, Still, Proceeds
  <2> QED
    BY <2>1, Lives, Zenon
<1>7. ASSUME NEW p \in Procs, StartWorkflowAutoExecution(p)
      PROVE  [Life!LifeNext]_<<ticket.st, Decision>>
  <2>1. Still \/ Proceeds
    BY <1>7, Started, Zenon DEF Sets, Still, Proceeds
  <2> QED
    BY <2>1, Lives, Zenon
<1>8. ASSUME NEW p \in Procs, Check(p)
      PROVE  [Life!LifeNext]_<<ticket.st, Decision>>
  <2>1. Still
    BY <1>8, Checked, Zenon DEF Sets, Still
  <2> QED
    BY <2>1, Lives, Zenon
<1>9. ASSUME NEW p \in Procs, Approve(p)
      PROVE  [Life!LifeNext]_<<ticket.st, Decision>>
  <2>0. /\ req[p].seen.st \in {"pending_review", "needs_admin_attention"}
        /\ Deciding(p) # None
    <3>1. /\ req[p].seen.st \in {"pending_review", "needs_admin_attention"}
          /\ req[p].user \in Users
      BY <1>9, Approved, Zenon DEF Pending, Knows, Decisions
    <3> QED
      BY <3>1, Words, Zenon DEF Deciding
  <2>1. Still \/ Approves
    BY <1>9, Approved, <2>0, Zenon DEF Sets, Still, Approves
  <2> QED
    BY <2>1, Lives, Zenon
<1>10. ASSUME NEW p \in Procs, EnsureReadyExportRequest(p)
      PROVE  [Life!LifeNext]_<<ticket.st, Decision>>
  <2>1. Still
    BY <1>10, Readied, Zenon DEF Sets, Still
  <2> QED
    BY <2>1, Lives, Zenon
<1>11. ASSUME NEW p \in Procs, QueueApproved(p)
      PROVE  [Life!LifeNext]_<<ticket.st, Decision>>
  <2>0. ticket.reviewer # None /\ Deciding(p) # None
    <3>1. ticket.reviewer # None /\ req[p].user \in Users
      BY <1>11, Queued, Zenon DEF Pending, Knows, Decisions
    <3> QED
      BY <3>1, Words, Zenon DEF Deciding
  <2>1. Still \/ Proceeds
    BY <1>11, Queued, <2>0, Zenon DEF Sets, Still, Proceeds
  <2> QED
    BY <2>1, Lives, Zenon
<1>12. ASSUME NEW p \in Procs, ChooseMode(p)
      PROVE  [Life!LifeNext]_<<ticket.st, Decision>>
  <2>1. Still
    BY <1>12, ModeChosen, Zenon DEF Sets, Still
  <2> QED
    BY <2>1, Lives, Zenon
<1>13. ASSUME NEW p \in Procs, Reject(p)
      PROVE  [Life!LifeNext]_<<ticket.st, Decision>>
  <2>0. req[p].seen.st \in {"pending_review", "approved", "pending_execution"}
    BY <1>13, Rejected, Zenon DEF Pending, Knows
  <2>1. Still \/ Refuses
    BY <1>13, Rejected, <2>0, Zenon DEF Sets, Still, Refuses
  <2> QED
    BY <2>1, Lives, Zenon
<1>14. ASSUME NEW p \in Procs, SetExecutorIfEmpty(p)
      PROVE  [Life!LifeNext]_<<ticket.st, Decision>>
  <2>1. Still
    BY <1>14, Taken, Zenon DEF Sets, Still
  <2> QED
    BY <2>1, Lives, Zenon
<1>15. ASSUME NEW p \in Procs, StartExecution(p)
      PROVE  [Life!LifeNext]_<<ticket.st, Decision>>
  <2>1. Still \/ Proceeds
    BY <1>15, Executed, Zenon DEF Sets, Still, Proceeds
  <2> QED
    BY <2>1, Lives, Zenon
<1>16. ASSUME NEW p \in Procs, Withdraw(p)
      PROVE  [Life!LifeNext]_<<ticket.st, Decision>>
  <2>0. req[p].seen.st = "pending_review"
    BY <1>16, Withdrawn, Zenon DEF Pending, Knows
  <2>1. Still \/ Refuses
    BY <1>16, Withdrawn, <2>0, Zenon DEF Sets, Still, Refuses
  <2> QED
    BY <2>1, Lives, Zenon
<1>17. ASSUME NEW p \in Procs, Revoke(p)
      PROVE  [Life!LifeNext]_<<ticket.st, Decision>>
  <2>1. Still \/ Revokes
    BY <1>17, Revoked, Zenon DEF Sets, Still, Revokes
  <2> QED
    BY <2>1, Lives, Zenon
<1>18. ASSUME NEW p \in Procs, DeleteTicket(p)
      PROVE  [Life!LifeNext]_<<ticket.st, Decision>>
  <2>0. /\ ~waived
        /\ ticket.st \in {"pending_review", "approved", "rejected", "withdrawn", "stopped"}
    BY <1>18, Deleted, Zenon DEF Pending, Knows
  <2>2. Decision # "waived"
    BY <2>0 DEF Decision
  <2>1. Discards
    BY <1>18, Deleted, <2>0, <2>2, Zenon DEF Sets, Discards
  <2> QED
    BY <2>1, Lives, Zenon
<1>19. ASSUME NEW p \in Procs, Fail(p)
      PROVE  [Life!LifeNext]_<<ticket.st, Decision>>
  <2>1. Still
    BY <1>19, Failed, Zenon DEF Sets, Still
  <2> QED
    BY <2>1, Lives, Zenon
<1>20. ASSUME NEW p \in Procs, NEW d \in Docs, NEW at \in {"items", "resolve"},
             CreateWithScopes(p, d, at), at = "items" => d.type = "query_access"
      PROVE  [Life!LifeNext]_<<ticket.st, Decision>>
  <2>1. ticket.st = None /\ Sets("pending_review", None, None) /\ waived' = waived
    BY <1>20, Created DEF Steps
  <2>2. Submits
    BY <2>1, Zenon DEF Submits, Sets, Row
  <2> QED
    BY <2>2, Lives, Zenon
<1>21. ASSUME NEW p \in Procs, NEW u \in Users,
              NEW op \in Decisions \cup {"withdraw", "revoke", "retry"}, Request(p, u, op)
      PROVE  [Life!LifeNext]_<<ticket.st, Decision>>
  BY <1>21, Requested, Lives, Zenon DEF Still
<1>22. ASSUME NEW l \in NewRules, ReplaceWorkflowRules(l)
      PROVE  [Life!LifeNext]_<<ticket.st, Decision>>
  BY <1>22, Lives, Zenon DEF Still, ReplaceWorkflowRules, conf
<1>23. ASSUME NEW u \in Users, SetUserActive(u)
      PROVE  [Life!LifeNext]_<<ticket.st, Decision>>
  BY <1>23, Lives, Zenon DEF Still, SetUserActive, conf
<1>24. ASSUME NEW rule \in {"ticket", "manual"}, NEW new \in {{}, {"manual"}},
              EditAccessRule(rule, new)
      PROVE  [Life!LifeNext]_<<ticket.st, Decision>>
  BY <1>24, Lives, Zenon DEF Still, EditAccessRule, conf
<1>25. CASE UNCHANGED vars
  BY <1>25, Lives, Zenon DEF Still, vars
<1>26. ASSUME NEW p \in Procs, SetScheduled(p)
      PROVE  [Life!LifeNext]_<<ticket.st, Decision>>
  BY <1>26, Scheduled, Lives, Zenon DEF Still, Sets
<1>27. ASSUME NEW p \in Procs, GetDueScheduled(p)
      PROVE  [Life!LifeNext]_<<ticket.st, Decision>>
  BY <1>27, DueRead, Lives, Zenon DEF Still
<1>28. ASSUME NEW p \in Procs, ClaimManualStatementExecution(p)
      PROVE  [Life!LifeNext]_<<ticket.st, Decision>>
  <2>1. Still \/ Proceeds
    BY <1>28, Claimed, Zenon DEF Sets, Still, Proceeds
  <2> QED
    BY <2>1, Lives, Zenon
<1>29. ASSUME NEW c \in Conns, DeleteConnection(c)
      PROVE  [Life!LifeNext]_<<ticket.st, Decision>>
  BY <1>29, Disconnected, Lives, Zenon DEF Still
<1> QED
  BY <1>1, <1>2, <1>3, <1>4, <1>5, <1>6, <1>7, <1>8, <1>9, <1>10, <1>11, <1>12, <1>13, <1>14,
     <1>15, <1>16, <1>17, <1>18, <1>19, <1>20, <1>21, <1>22, <1>23, <1>24, <1>25, <1>26, <1>27,
     <1>28, <1>29
     DEF Next, Handle, Create, CreateExport, CreateSensitiveAccessTicket, LarkCardAction,
         Decisions, CardActions, Starts

\* The handlers and the repository together implement the life cycle: AllowedTransitions of
\* the domain, the deletion of a ticket that was never complete and the revocation, nothing else:
\* a ticket is decided once, executed only after a decision, and final once ended.
THEOREM Implements == Spec => FollowsLifeCycle
<1>1. Init => Life!LifeInit
  BY Words DEF Init, NoTicket, Decision, Life!LifeInit
<1> QED
  BY <1>1, LifeStep, Invariance, PTL DEF Spec, Life!LifeSpec, FollowsLifeCycle

\* No one decides on or executes their own ticket, and no one executes what they reviewed,
\* unless they hold the bypass for it (CanReview, CanExecute), for all interleavings of requests.
THEOREM SeparationOfDuties == Spec => []FourEyes
<1>1. Inv => FourEyes
  BY Zenon DEF Inv, Duty, Apart
<1> QED
  BY <1>1, Invariance, PTL

\* What is approved, queued or executing in production was reviewed by a person, and a person
\* started it, for all interleavings, rule lists saved meanwhile (ValidateWorkflowRules) and
\* connections deleted.  The exception the code leaves is exactly the kinds of ticket for
\* which the list had a rule without review when the server started.
THEOREM ProductionReview == Spec => []ProductionIsReviewed
<1>1. Inv => ProductionIsReviewed
  <2> SUFFICES ASSUME Inv, production,
                      ticket.st \in {"approved", "pending_execution", "executing"}
               PROVE  /\ ticket.reviewer # None \/ (waived /\ Waiving(first, doc.type, doc.sens))
                      /\ ticket.st = "executing" => ticket.executor \in Users
    BY Zenon DEF ProductionIsReviewed
  <2>1. ticket.reviewer # None \/ waived
    BY Zenon DEF Inv, Row
  <2>2. waived => Waiving(first, doc.type, doc.sens)
    BY Zenon DEF Inv, Guarded, Unwaived
  <2>3. ticket.st = "executing" => ticket.executor \in Users
    BY Zenon DEF Inv, Guarded
  <2> QED
    BY <2>1, <2>2, <2>3, Zenon
<1> QED
  BY <1>1, Invariance, PTL

\* Access rules of a query access ticket exist only because a reviewer approved it, revoking
\* leaves none of them in force (Approve and Revoke, one transaction each), and an approved
\* ticket never had any exactly when its review was waived.
THEOREM GrantsReviewed == Spec => []GrantsFromReview
<1>1. Inv => GrantsFromReview
  BY DEF Inv
<1> QED
  BY <1>1, Invariance, PTL

\* An approved ticket that has to be executed and that no request is taking on was left there
\* by a request that failed, never by an interleaving.
THEOREM NothingStranded == Spec => []NoStrandedApproval
<1>1. Inv => NoStrandedApproval
  BY DEF Inv
<1> QED
  BY <1>1, Invariance, PTL

=============================================================================
