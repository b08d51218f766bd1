------------------------------ MODULE RollbackPlan ------------------------------
(***************************************************************************)
(* The planner of MySQL prior backups (handler/ticket_rollback.go): which  *)
(* tables of an UPDATE or DELETE have to be copied before it runs, or that *)
(* the statement has a shape the planner refuses.  A statement is a record *)
(*   kind   "insert", "update", "delete" or "other"                        *)
(*   cte    the names its WITH clause defines                              *)
(*   where, limit   whether it has that clause (limit: LIMIT 1)            *)
(*   order  the column it orders by, "" without ORDER BY                   *)
(*   refs   its table references, left to right: table, alias and schema   *)
(*          ("" when absent) and form: "table", "partition" or "subquery"  *)
(*   multi  whether it is a multi-table DELETE, of the tables in names     *)
(*   sets   the columns an UPDATE assigns: schema, qual (the table or      *)
(*          alias in front, "" when absent) and col                        *)
(*   keys, val, to   what it does to the rows (see TicketRollback)         *)
(***************************************************************************)
EXTENDS Integers, FiniteSets, Sequences, SequencesExt

\* A plan that was refused has no targets; a plan that was accepted has at least one.
Refused == <<>>

Qualifier(ref) == IF ref.alias = "" THEN ref.table ELSE ref.alias
Target(ref, qualifier, columns) ==
    [table |-> ref.table, schema |-> ref.schema, qualifier |-> qualifier, columns |-> columns]

\* The reference a name stands for: both the table name and the alias of every direct
\* reference are entered, and a later reference replaces an earlier one.
Named(refs, n) ==
    {i \in DOMAIN refs : refs[i].form = "table" /\ n \in {refs[i].table, refs[i].alias}}
Lookup(refs, n) == refs[Max(Named(refs, n))]
TableRefMapRefuses(refs) == \E i \in DOMAIN refs : refs[i].form = "partition"
FirstTableRefRefuses(refs) == refs[1].form # "table"
HasJoin(refs) == Len(refs) > 1

SameTarget(a, b) == a.schema = b.schema /\ a.table = b.table /\ a.qualifier = b.qualifier
SamePhysicalTable(a, b) ==
    a.table = b.table /\ (a.schema = "" \/ b.schema = "" \/ a.schema = b.schema)

\* One assignment of an UPDATE: refused, or one more column of a known or a new target.
AssignmentRefused(s, set) ==
    \/ set.schema # ""
    \/ set.qual = "" /\ (HasJoin(s.refs) \/ FirstTableRefRefuses(s.refs))
    \/ set.qual # "" /\ Named(s.refs, set.qual) = {}
AssignmentTarget(s, set) ==
    LET ref == IF set.qual = "" THEN s.refs[1] ELSE Lookup(s.refs, set.qual)
    IN  Target(ref, Qualifier(ref), {set.col})
AddColumn(targets, t) ==
    LET known == {i \in DOMAIN targets : targets[i].qualifier = t.qualifier}
    IN  IF known = {} THEN Append(targets, t)
        ELSE [i \in DOMAIN targets |->
                IF i \in known THEN [targets[i] EXCEPT !.columns = @ \cup t.columns]
                ELSE targets[i]]

UpdateTargets(s) ==
    LET assigned == {AssignmentTarget(s, set) : set \in ToSet(s.sets)}
        step(targets, set) == AddColumn(targets, AssignmentTarget(s, set))
    IN  IF \/ TableRefMapRefuses(s.refs)
           \/ s.sets = <<>>
           \/ \E set \in ToSet(s.sets) : AssignmentRefused(s, set)
           \/ \E a, b \in assigned :
                 IF a.qualifier = b.qualifier THEN ~SameTarget(a, b) ELSE SamePhysicalTable(a, b)
        THEN Refused
        ELSE FoldLeft(step, <<>>, s.sets)

DeleteTargets(s) ==
    LET target(n) == Target(Lookup(s.refs, n), n, {})
        single == Target(s.refs[1], Qualifier(s.refs[1]), {})
    IN  IF s.multi
        THEN IF \/ TableRefMapRefuses(s.refs)
                \/ \E n \in ToSet(s.names) : Named(s.refs, n) = {}
                \/ \E i, j \in DOMAIN s.names :
                      i < j /\ SamePhysicalTable(target(s.names[i]), target(s.names[j]))
             THEN Refused
             ELSE [i \in DOMAIN s.names |-> target(s.names[i])]
        ELSE IF FirstTableRefRefuses(s.refs) THEN Refused ELSE <<single>>

\* Every target is a table of the ticket's database, and none is a name of the WITH clause.
TablePlans(s, database, targets) ==
    IF \E t \in ToSet(targets) :
          \/ t.schema = "" /\ t.table \in s.cte
          \/ t.schema \notin {"", database}
    THEN Refused
    ELSE targets

\* A planner that forgets that LIMIT without ORDER BY may pick other rows the second time.
OrderForgotten(s) == FALSE
OrderLimitRefuses(s) == s.limit /\ s.order = ""

BuildPlan(s, database) ==
    IF database = "" \/ ~s.where \/ OrderLimitRefuses(s) THEN Refused
    ELSE TablePlans(s, database, IF s.kind = "update" THEN UpdateTargets(s) ELSE DeleteTargets(s))
=============================================================================
