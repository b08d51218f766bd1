---------------------------- MODULE MCSQLEditor ----------------------------
(* Small instances of SQLEditor: two users, two requests, one execution id.  *)
(* Each initial state belongs to one scenario, which says what the           *)
(* environment may still do (left) and which policy is in force.  In the     *)
(* last one the pools that queries run on change hands.                      *)
EXTENDS SQLEditor, ConnectionPools

VARIABLE scenario

phone == <<"users", "phone">>
mail == <<"users", "mail">>
orphan == <<"", "phone">>
secret == <<"pay:", "pay:1">>

From(db, name) == [NoSelect EXCEPT !.from = <<[kind |-> "table", db |-> db, name |-> name]>>]
users == From("", "users")

\* SELECT ... FROM users UNION (SELECT ... FROM users UNION SELECT ... FROM logs)
Union == [NoSelect EXCEPT !.arms = <<users, [NoSelect EXCEPT !.arms = <<users, From("", "logs")>>]>>]

\* WITH c AS (SELECT ... FROM hr.users) SELECT ... FROM c JOIN (SELECT ... FROM logs)
With == [NoSelect EXCEPT
    !.with = <<[name |-> "c", query |-> From("hr", "users")]>>,
    !.from = <<[kind |-> "join", left |-> [kind |-> "table", db |-> "", name |-> "c"],
                right |-> [kind |-> "sub", query |-> From("", "logs")]]>>]

Reads(conn, stmts, cols, labels) ==
    [conn |-> conn, stmts |-> stmts, cols |-> cols, labels |-> labels, ro |-> TRUE]

\* WITH logs AS (SELECT ... FROM logs) SELECT ... FROM users WHERE ... IN (SELECT ... FROM logs)
Hiding == [users EXCEPT !.with = <<[name |-> "logs", query |-> From("", "logs")]>>, !.subs = <<From("hr", "logs")>>]

\* a computed and a plain column; two statements, the last one beyond what the extractor
\* walks; two statements of PostgreSQL; a write; a Redis command
MCQueries == <<
    Reads("mysql", <<Union>>, <<<<phone, mail>>, <<mail>>>>, <<"concat", "mail">>),
    Reads("mysql", <<NoSelect, Hiding>>, <<<<phone>>>>, <<"phone">>),
    Reads("postgres", <<NoSelect, With>>, <<<<phone>>, <<phone, mail>>>>, <<"phone", "concat">>),
    [Reads("mysql", <<users>>, <<<<mail>>>>, <<"mail">>) EXCEPT !.ro = FALSE],
    Reads("redis", <<"pay:1">>, <<<<secret>>>>, <<>>)>>

Rule(effect, table) == [effect |-> effect, db |-> "*", table |-> table]
MCAccessSets == {{Rule("allow", "*")}, {Rule("allow", "*"), Rule("deny", "logs")}}

MCPatterns == <<{"phone"}, {"phone", "mail"}>>
NoRules == <<NoRule, NoRule>>
TwoRules == << [pattern |-> MCPatterns[1], mode |-> "email", config |-> "none", enabled |-> TRUE],
               [pattern |-> MCPatterns[2], mode |-> "partial", config |-> "odd", enabled |-> TRUE] >>

Ticket(u, q, scopes, status, until) ==
    [type |-> "sensitive_query_access", user |-> u, q |-> q, scopes |-> scopes,
     sensitive |-> TRUE, status |-> status, until |-> until, made |-> 0]

Budget(p, c, t, d, k) == [policy |-> p, cancel |-> c, ticket |-> t, download |-> d, tick |-> k]

\* who may run what, under which execution ids, in each scenario
Scenario(slots, who, ids, queries) == [slots |-> slots, users |-> who, ids |-> ids, queries |-> queries]
Cancelling == Scenario(Requests, <<{"u1"}, Users>>, {"e"}, <<{2}, {3, 4}>>)
Masking == Scenario({1}, <<{"u1"}, {}>>, {""}, <<DOMAIN Queries, {}>>)
Exporting == Scenario({1}, <<{"u1"}, {}>>, {""}, <<{1}, {}>>)
Pooling == Scenario({}, <<{}, {}>>, {}, <<{}, {}>>)

AllowAll == [u \in Users |-> {Rule("allow", "*")}]
Nobody == [u \in Users |-> "none"]

MCInit ==
    /\ now = 0
    /\ scenario \in {Cancelling, Masking, Exporting, Pooling}
    /\ req = [r \in Requests |-> IF r \in scenario.slots THEN Idle ELSE Unused]
    /\ white \in [{phone, mail} -> {"none"}] /\ prefixes \in [{"pay:"} -> {"none"}]
    /\ reach = Users
    /\ \/ /\ scenario = Cancelling /\ left = Budget(0, 2, 0, 0, 2)
          /\ rules = NoRules /\ grade = Nobody /\ access = AllowAll
          /\ tickets = <<>> /\ runs = {}
       \/ /\ scenario = Masking
          /\ rules \in {NoRules, TwoRules}
          /\ grade = Nobody
          /\ \/ access = AllowAll /\ left \in {Budget(IF rules = NoRules THEN 1 ELSE 2, 0, 0, 0, 0), Budget(1, 0, 1, 0, 1)}
             \/ /\ access = [AllowAll EXCEPT !["u1"] = {Rule("allow", "*"), Rule("deny", "logs")}]
                /\ left = Budget(0, 0, 1, 0, 1)
          /\ \/ tickets = <<>> /\ runs = {}
             \/ \E q \in {q \in DOMAIN Queries : Queries[q].conn = "mysql" /\ Queries[q].ro}, scopes \in {{phone}, {orphan}, {phone, mail}} :
                    /\ scopes \subseteq BaseColumns(Queries[q]) \cup Labelled(Queries[q])
                    /\ tickets = <<Ticket("u1", q, scopes, "approved", 1)>>
                    /\ runs = {[user |-> "u1", q |-> q, at |-> 0, read |-> scopes, plain |-> {}]}
       \/ /\ scenario = Exporting /\ left = Budget(0, 0, 3, 3, 2)
          /\ rules = TwoRules
          /\ grade = [Nobody EXCEPT !["u1"] = "sensitive"]
          /\ access = AllowAll /\ tickets = <<>> /\ runs = {}
       \/ /\ scenario = Pooling /\ left = Budget(0, 0, 0, 0, 0)
          /\ rules = NoRules /\ grade = Nobody /\ access = AllowAll
          /\ tickets = <<>> /\ runs = {}
    /\ row = [n \in Connections |-> "v1"]
    /\ Init
    /\ PoolInit

MCEditorNext ==
    /\ Next
    /\ \A r \in Requests : req'[r].pc # "idle" =>
            \/ req'[r].user = ""
            \/ /\ req'[r].user \in scenario.users[r]
               /\ req'[r].id \in scenario.ids /\ req'[r].q \in scenario.queries[r]
    \* masking is the other scenarios' subject
    /\ scenario = Cancelling => \A r \in Requests : req'[r].pc # "rules"
    \* the initial states vary the policy before a request, so it changes only during one
    /\ \A u \in Users \ scenario.users[1] : grade'[u] = grade[u] /\ access'[u] = access[u] /\ u \in reach'
    /\ left'.policy # left.policy => \E r \in Requests : req[r].pc \notin {"idle", "done", "failed"}

MCNext ==
    /\ UNCHANGED scenario
    /\ \/ scenario # Pooling /\ MCEditorNext /\ UNCHANGED poolVars
       \/ scenario = Pooling /\ PoolNext /\ UNCHANGED vars

MCSpec == MCInit /\ [][MCNext]_<<vars, poolVars, scenario>>
=============================================================================
