---------------------------- MODULE MCTicketRollback ----------------------------
(* Small instances of TicketRollback for TLC: two statements of a ticket, the first of   *)
(* any shape; and four generation jobs on their way at once.                             *)
EXTENDS TicketRollback

t == <<"app", "t">>
u == <<"app", "u">>
x == <<"other", "x">>
w == <<"app", "w">>
MCTables == {t, u, w, x}
MCHasPrimaryKey == {t, w, x}
MCStamped == {w}

Ref(table, alias, schema, form) == [table |-> table, alias |-> alias, schema |-> schema, form |-> form]
OnT == <<Ref("t", "", "", "table")>>
Set(qual, col) == [schema |-> "", qual |-> qual, col |-> col]

Plain == [kind |-> "update", cte |-> {}, where |-> TRUE, limit |-> FALSE, order |-> "",
          refs |-> OnT, multi |-> FALSE, names |-> <<>>, sets |-> <<Set("", "v")>>,
          keys |-> {1, 2}, val |-> 1, to |-> 3]
Joined == [Plain EXCEPT !.refs = <<Ref("t", "a", "", "table"), Ref("u", "b", "", "table")>>,
                        !.sets = <<Set("a", "v")>>]
Delete == [Plain EXCEPT !.kind = "delete", !.sets = <<>>]
Insert == [Plain EXCEPT !.kind = "insert", !.sets = <<>>, !.keys = {3}, !.where = FALSE]

Shapes == {
    Plain,
    [Plain EXCEPT !.limit = TRUE],
    [Plain EXCEPT !.limit = TRUE, !.order = "id"],
    [Plain EXCEPT !.limit = TRUE, !.order = "v"],
    [Plain EXCEPT !.where = FALSE],
    [Plain EXCEPT !.sets = <<Set("", "id")>>, !.keys = {1}],
    [Plain EXCEPT !.sets = <<[schema |-> "app", qual |-> "t", col |-> "v"]>>],
    [Plain EXCEPT !.refs = <<Ref("u", "", "", "table")>>],
    [Plain EXCEPT !.refs = <<Ref("w", "", "", "table")>>],
    [Plain EXCEPT !.refs = <<Ref("x", "", "other", "table")>>],
    [Plain EXCEPT !.refs = <<Ref("t", "", "", "partition")>>],
    [Plain EXCEPT !.refs = <<Ref("t", "", "app", "table")>>, !.cte = {"t"}],
    Joined,
    [Joined EXCEPT !.sets = <<Set("", "v")>>],
    [Joined EXCEPT !.sets = <<Set("a", "v"), Set("b", "v")>>],
    [Joined EXCEPT !.refs[2] = Ref("t", "b", "", "table"),
                   !.sets = <<Set("a", "v"), Set("b", "v")>>],
    [Joined EXCEPT !.kind = "delete", !.multi = TRUE, !.names = <<"a">>, !.sets = <<>>],
    [Joined EXCEPT !.kind = "delete", !.multi = TRUE, !.names = <<"a", "b">>, !.sets = <<>>],
    Delete,
    [Delete EXCEPT !.refs[1].form = "subquery"],
    Insert,
    [Plain EXCEPT !.kind = "other", !.refs = <<>>, !.sets = <<>>]}

Contents == (t :> SetToBag({<<1, 0, 0>>, <<2, 0, 0>>})) @@ (u :> SetToBag({<<1, 0, 0>>, <<2, 1, 0>>}))
              @@ (w :> SetToBag({<<1, 0, 0>>})) @@ (x :> SetToBag({<<1, 0, 0>>}))
Over == [NewRun EXCEPT !.pc = "over"]

Start(database0, running, statements, disturbed) ==
    /\ database = database0
    /\ stmt = statements
    /\ tabs = Contents
    /\ binlog = <<>>
    /\ ex = [e \in Executions |-> IF e \in running THEN NewRun ELSE Over]
    /\ rec = [e \in Executions |-> NoRecord]
    /\ jobs = [e \in Executions |-> NoJob]
    /\ used = disturbed

\* The other statements failed; the first has any shape and, in the second form, a second
\* one deletes a row of t; there the engine is the one that uses both methods.
OneStatement ==
    \E s \in Shapes : \E db \in {"app"} \cup {"" : ref \in {r \in ToSet(s.refs) : r.schema # ""}} :
        Start(db, {1}, [e \in Executions |-> s], 0)
TwoStatements ==
    /\ settings.engine = "hybrid"
    /\ \E s \in {Plain, Insert} :
          Start("app", {1, 2}, [e \in Executions |-> IF e = 1 THEN s ELSE [Delete EXCEPT !.keys = {2}]], 1)

\* Four statements that changed nothing have run with my2sql; no job has started yet.
FourJobs ==
    /\ database = "app"
    /\ stmt = [e \in Executions |-> [Delete EXCEPT !.keys = {3}]]
    /\ settings = [enabled |-> TRUE, engine |-> "my2sql"]
    /\ tabs = Contents
    /\ binlog = <<>>
    /\ ex = [e \in Executions |-> [Over EXCEPT !.method = "my2sql", !.before = Contents,
                                               !.after = Contents]]
    /\ rec = [e \in Executions |-> [NoRecord EXCEPT !.status = "generating", !.method = "my2sql"]]
    /\ jobs = [e \in Executions |-> [NoJob EXCEPT !.pc = "spawned"]]
    /\ used = MaxDisturbances

MCInit == settings \in [enabled : {TRUE}, engine : Engines] /\ (OneStatement \/ TwoStatements \/ FourJobs) /\ Init
MCSpec == MCInit /\ [][Next]_vars
=============================================================================
