--------------------------- MODULE MCTicketWorkflow ---------------------------
(* Small instances of TicketWorkflow for TLC. *)
EXTENDS TicketWorkflow

T == INSTANCE TLC

\* ann submits and could review and execute; bob reviews and executes; adm administers.
People  == {"ann", "bob", "adm"}
Groups3 == [u \in People |-> IF u = "adm" THEN {"admin"} ELSE {"owner", "dba"}]
Rights  == [u \in People |->
    CASE u = "ann" -> {"tickets.apply", "tickets.review", "tickets.execute",
                       "sql_editor.export", "sensitive.apply"}
      [] u = "bob" -> {"tickets.review", "tickets.execute", "sensitive.review", "export.review"}
      [] u = "adm" -> {"tickets.apply", "tickets.review", "sensitive.review", "export.review",
                       "settings.write"}]

Ticket(type, sens) == [type |-> type, by |-> "ann", conn |-> "c1", sens |-> sens]
AllDocs == {Ticket("dml", Any), Ticket("query_access", Any),
            Ticket("sensitive_query_access", Any), Ticket("sql_export", "sensitive"),
            Ticket("sql_export", "normal")}

Rule(id, type, conn, sens, approval, auto, priority) ==
    [id |-> id, type |-> type, conn |-> conn, sens |-> sens, approval |-> approval,
     auto |-> auto, approvers |-> {"owner"}, executors |-> {"dba"},
     priority |-> priority, enabled |-> TRUE]

\* One rule for every type, reviewed or not, automatic or not.
ForAll(approval, auto) == <<
    Rule(1, "dml", Any, Any, approval, auto, 100),
    Rule(2, "query_access", Any, Any, approval, FALSE, 100),
    Rule(3, "sensitive_query_access", Any, Any, approval, FALSE, 100),
    Rule(4, "sql_export", Any, "sensitive", approval, FALSE, 100),
    Rule(5, "sql_export", Any, "normal", approval, FALSE, 100)>>

\* The list of the migrations, with their choice of no review for normal exports, and a rule
\* without review for the changes of one connection.
Seeded == [ForAll(TRUE, FALSE) EXCEPT ![5].approval = FALSE]
            \o <<Rule(6, "dml", "c2", Any, FALSE, FALSE, 50)>>

\* A list without a rule for any submitted ticket: resolution fails.
Unmatched == <<Rule(1, "ddl", Any, Any, TRUE, FALSE, 100)>>

AllLists  == {ForAll(TRUE, FALSE), ForAll(TRUE, TRUE), ForAll(FALSE, FALSE), Seeded, Unmatched}
\* What an administrator may save meanwhile: the review comes back, or goes and with it the
\* person who executes.
SavedLists == {ForAll(TRUE, FALSE), ForAll(FALSE, TRUE)}

NoBypass  == [review |-> {}, execute |-> {}, multi |-> {}]
SomeBypasses == {NoBypass, [review |-> {"ann"}, execute |-> {}, multi |-> {"bob"}]}

\* Production starts with the lists found there.  Bypasses matter where a person reviews and
\* a person executes.  Three requests come by themselves, two with a change and a failure.
MCInit ==
    /\ Init
    /\ production <=> list \in {ForAll(TRUE, FALSE), Seeded}
    /\ bypass # NoBypass => list = ForAll(TRUE, FALSE)
Quiet == requests = 3 => changes = 0 /\ faults = 0
MCSpec == MCInit /\ [][Next /\ Quiet']_vars

\* Lists on the settings page: two saved rules and a new one, in any order and with any
\* priorities, also none.
Variants(id) == {[Rule(id, "dml", c, Any, TRUE, FALSE, n) EXCEPT !.enabled = e] :
                    c \in {Any, "c1"}, n \in {0, 1, 2}, e \in BOOLEAN}
SomePages == UNION {{<<a, b, c>> : a \in Variants(o[1]), b \in Variants(o[2]), c \in Variants(o[3])} :
                o \in {<<3, 5, 0>>, <<5, 3, 0>>, <<0, 3, 5>>}}

CONSTANTS p1, p2
TwoProcs == {p1, p2}
Symmetric == T!Permutations({p1, p2})
=============================================================================
