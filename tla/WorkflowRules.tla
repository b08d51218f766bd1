---------------------------- MODULE WorkflowRules ----------------------------
(***************************************************************************)
(* Workflow rules: which rule of the settings page decides who reviews and *)
(* who executes a ticket.  A rule names a ticket type, optionally one      *)
(* connection, and for exports whether they hold sensitive columns; a      *)
(* ticket takes the most specific enabled rule, then the one with the      *)
(* smaller priority, then the older one.  Resolving a ticket turns the     *)
(* groups of that rule into users who are active and hold the permission,  *)
(* and removes the submitter.                                              *)
(***************************************************************************)
EXTENDS Naturals, Sequences, FiniteSets, FiniteSetsExt

CONSTANTS
    Users,       \* accounts
    MemberOf,    \* the auth groups of a user
    Perms,       \* the permissions a user has through the groups
    PageLists    \* bound: rule lists an administrator may have on the settings page

None == "none"
Any  == "any"    \* a rule's connection or sensitivity left empty

Executable == {"ddl", "dml", "redis_command"}
TicketTypes == Executable \cup {"query_access", "sensitive_query_access", "sql_export"}
Sensitivities == {"normal", "sensitive"}

-----------------------------------------------------------------------------
(* Matching *)

ConnectionMatches(rule, conn)  == rule.conn = Any \/ rule.conn = conn
SensitivityMatches(rule, sens) == rule.sens = Any \/ rule.sens = sens

Applies(rule, type, conn, sens) ==
    /\ rule.enabled /\ rule.type = type
    /\ ConnectionMatches(rule, conn) /\ SensitivityMatches(rule, sens)

Score(rule) == (IF rule.conn # Any THEN 2 ELSE 0) + (IF rule.sens # Any THEN 1 ELSE 0)

Precedes(a, b) ==
    \/ Score(a) > Score(b)
    \/ Score(a) = Score(b) /\ a.priority < b.priority
    \/ Score(a) = Score(b) /\ a.priority = b.priority /\ a.id < b.id

\* The set holding the rule that wins; empty if no rule applies.
MatchWorkflowRule(rules, type, conn, sens) ==
    LET applying == {r \in rules : Applies(r, type, conn, sens)}
    IN  {r \in applying : \A s \in applying \ {r} : Precedes(r, s)}

-----------------------------------------------------------------------------
(* Saving and previewing a list of rules *)

\* Mutant: production is not looked at.
ValidShapeAnywhere(rule, production) ==
    /\ rule.auto => rule.type \in Executable
    /\ IF rule.type = "sql_export" THEN rule.sens \in Sensitivities ELSE rule.sens = Any

\* What the settings page may save: no rule without review and no automatic execution in
\* production, sensitivity exactly on the rules for exports.
ValidShape(rule, production) ==
    /\ production => rule.approval /\ ~rule.auto
    /\ rule.auto => rule.type \in Executable
    /\ IF rule.type = "sql_export" THEN rule.sens \in Sensitivities ELSE rule.sens = Any

\* Saving deletes every rule and inserts the page again: new ids in the order of the page, and
\* priority 0 becomes 100.
StoredRules(rules) ==
    {[rules[i] EXCEPT !.id = i, !.priority = IF @ = 0 THEN 100 ELSE @] : i \in DOMAIN rules}

\* Mutant: new rules keep the id 0.
WithoutPreviewIDs(page) == page

\* The preview keeps the ids the page sent and numbers new rules (id 0) after the largest.
WithPreviewIDs(page) ==
    LET top == Max({page[i].id : i \in DOMAIN page} \cup {0})
        new(i) == Cardinality({j \in 1..i : page[j].id = 0})
    IN  [i \in DOMAIN page |-> IF page[i].id = 0 THEN [page[i] EXCEPT !.id = top + new(i)]
                                                 ELSE page[i]]

\* The positions the preview calls effective, and the ones that win once saved.
PreviewEffective(page) ==
    LET shown == WithPreviewIDs(page)
        all   == {shown[i] : i \in DOMAIN page}
    IN  {i \in DOMAIN page :
            shown[i] \in MatchWorkflowRule(all, shown[i].type, shown[i].conn, shown[i].sens)}

SavedEffective(page) ==
    {i \in DOMAIN page :
        \E r \in MatchWorkflowRule(StoredRules(page), page[i].type, page[i].conn, page[i].sens) :
            r.id = i}

-----------------------------------------------------------------------------
(* Resolving *)

ReviewPermission(type) ==
    CASE type = "sensitive_query_access" -> "sensitive.review"
      [] type = "sql_export"             -> "export.review"
      [] OTHER                           -> "tickets.review"

ResolveWorkflowUsers(active, groups, perm) ==
    {u \in active : MemberOf[u] \cap groups # {} /\ perm \in Perms[u]}

\* A resolution, also the form of the snapshot stored with the ticket.
Resolution(err, approval, auto, approvers, executors) ==
    [err |-> err, approval |-> approval, auto |-> auto,
     approvers |-> approvers, executors |-> executors]

\* The error of a resolution whose user sets came out empty.
MissingUsers(type, approval, auto, approvers, executors) ==
    IF approval /\ approvers = {} THEN "no_approvers"
    ELSE IF type \in Executable /\ ~auto /\ executors = {} THEN "no_executors"
    ELSE ""

ResolveWorkflow(rules, active, type, conn, sens) ==
    LET match == MatchWorkflowRule(rules, type, conn, sens)
        rule  == CHOOSE r \in match : TRUE
        approvers == ResolveWorkflowUsers(active, rule.approvers, ReviewPermission(type))
        executors == IF rule.auto THEN {}
                     ELSE ResolveWorkflowUsers(active, rule.executors, "tickets.execute")
    IN  IF match = {} THEN Resolution("no_matching_rule", TRUE, FALSE, {}, {})
        ELSE Resolution(MissingUsers(type, rule.approval, rule.auto, approvers, executors),
                        rule.approval, rule.auto, approvers, executors)

\* A rule can be saved enabled only if, taken alone, it resolves without error; the preview
\* of one rule does not look at its enabled flag.
ValidRules(page, active, production) ==
    /\ page # <<>>
    /\ \A i \in DOMAIN page :
          LET rule == page[i]
          IN  /\ ValidShape(rule, production)
              /\ rule.enabled =>
                   ResolveWorkflow({rule}, active, rule.type, rule.conn, rule.sens).err = ""

\* The submitter leaves both sets unless a bypass keeps them; that may leave a set empty.
ExcludeSubmitter(type, submitter, res, selfReview, selfExecute) ==
    LET approvers == IF selfReview  THEN res.approvers ELSE res.approvers \ {submitter}
        executors == IF selfExecute THEN res.executors ELSE res.executors \ {submitter}
        err == IF res.err # "" THEN res.err
               ELSE MissingUsers(type, res.approval, res.auto, approvers, executors)
    IN  Resolution(err, res.approval, res.auto, approvers, executors)
=============================================================================
