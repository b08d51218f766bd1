----------------------------- MODULE SQLEditor -----------------------------
(***************************************************************************)
(* The SQL editor: running a query (handler/query.go Execute, executeRedis *)
(* and the admin console of query_admin.go), cancelling it by its client   *)
(* chosen execution id, masking its result, asking for a sensitive access  *)
(* or an export with the token the run returned, and downloading the       *)
(* export.  Requests run concurrently; every read of the meta database is  *)
(* a step of its own, so the policy may change between two of them.        *)
(***************************************************************************)
EXTENDS QueryPolicy

CONSTANTS
    Users,          \* the users of the editor
    Requests,       \* request slots: each runs one query
    ExecIds,        \* execution ids a client may send; "" sends none
    Queries,        \* the queries of the instance: a sequence of records of QueryPolicy
    AccessSets,     \* the sets of query access rules a user may have
    Patterns,       \* the column names that each possible masking rule matches, in rule order
    RuleModes,      \* mask modes and
    RuleConfigs,    \* configurations an administrator may send
    NoRequest,      \* an absent registry entry
    Database,       \* the database every request selects
    MaxTickets,     \* bound on the tickets created
    PendingTTL,     \* minutes a cancel is remembered (2 in the code)
    TokenTTL,       \* minutes a query context token is valid (30)
    GrantTTL,       \* minutes an approved sensitive access lasts
    ExportTTL,      \* minutes an export stays downloadable (24 hours)
    Limit, Window   \* downloads per key and window (5 per minute)

ASSUME SQLEditorBounds ==
    /\ {PendingTTL, TokenTTL, GrantTTL, ExportTTL, Limit, Window} \subseteq Nat \ {0}
    /\ MaxTickets \in Nat
    /\ \A q \in DOMAIN Queries : Queries[q].conn = "redis" => Len(Queries[q].stmts) = 1

VARIABLES
    rules,      \* masking_rules, by position in the column order; NoRule is an absent row
    white,      \* masking_whitelist: column -> "none", "on" or "off"
    prefixes,   \* redis_sensitive_key_prefixes: prefix -> "none", "on" or "off"
    grade,      \* "none", "sensitive" (global.sensitive) or "all" (every permission)
    access,     \* query access rules in force for each user
    reach,      \* users whose effective connections include the connection
    req,        \* the requests
    active,     \* registry: execution id -> request, or NoRequest
    pending,    \* registry: execution id -> remembered cancel [user, at], or None
    tokens,     \* query context tokens handed out
    tickets,    \* sensitive_query_access and sql_export tickets, in order
    exports,    \* export_requests, by ticket
    hits,       \* download limiter: <<ticket, user>> -> admission times
    edit,       \* a masking rule PATCH between its read and its write
    now,        \* minutes
    left,       \* what the environment may still do, by kind
    runs,       \* history: every answered SQL run, as its token saw it
    ever,       \* history: base columns readable, or not sensitive, at some moment of a request
    asked,      \* history: when the cancel now remembered for a waiting request was sent
    admitted    \* history: every admitted download [key, at]

policy == <<rules, white, prefixes, grade, access, reach, edit>>
registry == <<active, pending>>
workflow == <<tokens, tickets, exports>>
downloads == <<hits, admitted>>
vars == <<policy, req, registry, workflow, downloads, now, left, runs, ever, asked>>

None == [user |-> "", at |-> 0]
Never == -1
Idle == [pc |-> "idle", user |-> "", q |-> 0, id |-> "", console |-> FALSE, stmt |-> 0, at |-> Never,
         reg |-> FALSE, deps |-> <<>>, rules |-> <<>>, origins |-> <<>>, shown |-> {}]

Unused == [Idle EXCEPT !.pc = "failed"]     \* a slot no request will use

Query(r) == Queries[req[r].q]

Kinds == {"policy", "cancel", "ticket", "download", "tick"}
Spend(kind) == left[kind] > 0 /\ left' = [left EXCEPT ![kind] = @ - 1]

-----------------------------------------------------------------------------
(* What is readable for a user: the policy as the code would decide it at   *)
(* this moment, for one base column.                                        *)

ActiveScopes(u) ==
    UNION {t.scopes : t \in {tickets[i] : i \in {i \in DOMAIN tickets :
        /\ tickets[i].type = "sensitive_query_access"
        /\ tickets[i].user = u
        /\ tickets[i].status = "approved"
        /\ tickets[i].until > now}}}

Override(u) == grade[u] \in {"sensitive", "all"}

Plain(c) == ~Matched(rules, c) \/ Whitelisted(c, white)

Readable(u, c) ==
    \/ Plain(c)
    \/ Override(u)
    \/ \E scope \in ActiveScopes(u) : scopeMatchesOrigin(scope, c)

(* History of what each running request could have read so far; a request that
   is over keeps what it had. *)
Seen(r) ==
    IF req[r].user = "" THEN [readable |-> {}, plain |-> {}]
    ELSE LET columns == BaseColumns(Query(r)) \cup Labelled(Query(r)) IN
         IF Query(r).conn = "redis"
         THEN [readable |-> {c \in columns : prefixes[Table(c)] # "on"}, plain |-> {}]
         ELSE [readable |-> {c \in columns : Readable(req[r].user, c)},
               plain |-> {c \in columns : Plain(c)}]

Observe ==
    ever' = [r \in Requests |->
                IF req[r].pc \in {"done", "failed"} THEN ever[r]
                ELSE LET seen == Seen(r)' IN
                     [readable |-> ever[r].readable \cup seen.readable,
                      plain |-> ever[r].plain \cup seen.plain]]

-----------------------------------------------------------------------------
(* The registry of running statements                                       *)

Fresh(id) == pending[id] # None /\ now - pending[id].at <= PendingTTL

(* pruneLocked drops the remembered cancels that are older than two minutes. *)
Pruned == [id \in ExecIds |-> IF Fresh(id) THEN pending[id] ELSE None]

(* The deferred remove deletes whatever is registered under the id. *)
Removed(id) == [i \in ExecIds |-> IF i = id THEN NoRequest ELSE active[i]]

\* mutant: any cancel under the id stops the request, whoever sent it
WillStopAny(r) == req[r].id # "" /\ Fresh(req[r].id)

WillStop(r) == req[r].id # "" /\ Fresh(req[r].id) /\ pending[req[r].id].user = req[r].user

Fail(r) == req' = [req EXCEPT ![r].pc = "failed"]

-----------------------------------------------------------------------------
(* Running a query                                                          *)

InReach(u) == u \in reach

Allowed(u, q) ==
    /\ InReach(u)
    /\ IF Queries[q].conn = "redis"
       THEN CheckRedis(Queries[q], Database, access[u], grade[u] = "all")
       ELSE CheckSQL(Queries[q], Database, access[u], grade[u] = "all")
    /\ Queries[q].ro

(* Execute up to the moment a connection is taken from the pool: connection scope,
   query access, read-only check. *)
Execute(r, u, q, id) ==
    /\ req[r].pc = "idle"
    /\ req' = [req EXCEPT ![r] = [Idle EXCEPT !.user = u, !.q = q, !.id = id, !.stmt = 1,
                !.pc = CASE ~Allowed(u, q) -> "failed"
                         [] Allowed(u, q) /\ Queries[q].conn = "redis" -> "redis"
                         [] OTHER -> "ready"]]
    /\ UNCHANGED <<policy, registry, workflow, downloads, now, left, runs, asked>>

(* executeRedis after the access check: the sensitive prefixes are loaded, the
   command runs, its values are answered unmasked. *)
ExecuteRedis(r) ==
    /\ req[r].pc = "redis"
    /\ \/ redisKeyBlocked(Query(r), prefixes) /\ Fail(r)
       \/ /\ ~redisKeyBlocked(Query(r), prefixes)
          /\ req' = [req EXCEPT ![r].pc = "done", ![r].shown = DOMAIN Query(r).cols, ![r].deps = Query(r).cols]
    /\ UNCHANGED <<policy, registry, workflow, downloads, now, left, runs, asked>>

(* ExecuteAdmin: scope only, exactly one statement, no masking; the slot is marked
   as console so that the result is answered as it is. *)
ExecuteAdmin(r, u, q, id) ==
    /\ req[r].pc = "idle"
    /\ req' = [req EXCEPT ![r] = [Idle EXCEPT !.user = u, !.q = q, !.id = id, !.stmt = 1, !.console = TRUE,
                !.pc = IF InReach(u) /\ Len(Queries[q].stmts) = 1 THEN "ready" ELSE "failed"]]
    /\ UNCHANGED <<policy, registry, workflow, downloads, now, left, runs, asked>>

(* A Redis command of the console is sent as it is, and is never registered. *)
RunAdminRedis(r) ==
    /\ req[r].pc = "ready" /\ req[r].console /\ Query(r).conn = "redis"
    /\ Fail(r) \/ req' = [req EXCEPT ![r].pc = "done"]
    /\ UNCHANGED <<policy, registry, workflow, downloads, now, left, runs, asked>>

(* Before each statement with an execution id: register it, unless a cancel of the
   same user is waiting for it, which is consumed. *)
Register(r) ==
    LET id == req[r].id IN
    /\ req[r].pc = "ready"
    /\ \/ /\ WillStop(r)
          /\ pending' = [Pruned EXCEPT ![id] = None]
          /\ Fail(r)
          /\ asked' = [s \in Requests |->
                IF req[s].id = id /\ req[s].user = req[r].user THEN Never ELSE asked[s]]
          /\ UNCHANGED active
       \/ /\ ~WillStop(r)
          /\ pending' = IF id = "" THEN pending ELSE Pruned
          /\ active' = [i \in ExecIds |-> IF i = id THEN r ELSE active[i]]
          /\ req' = [req EXCEPT ![r].pc = "running", ![r].at = now, ![r].reg = id # ""]
          /\ UNCHANGED asked
    /\ UNCHANGED <<policy, workflow, downloads, now, left, runs>>

(* SELECT CONNECTION_ID() failed: the statement is sent without registration. *)
SendUnregistered(r) ==
    /\ req[r].pc = "ready" /\ req[r].id # ""
    /\ req' = [req EXCEPT ![r].pc = "running", ![r].at = now, ![r].reg = FALSE]
    /\ UNCHANGED <<policy, registry, workflow, downloads, now, left, runs, asked>>

StartStatement(r) ==
    ~req[r].console /\ req[r].q # 0 /\ Query(r).conn = "mysql" /\ (Register(r) \/ SendUnregistered(r))

StartPostgresStatement(r) ==
    ~req[r].console /\ req[r].q # 0 /\ Query(r).conn = "postgres" /\ Register(r)

StartAdminStatement(r) ==
    req[r].console /\ Query(r).conn # "redis" /\ (Register(r) \/ SendUnregistered(r))

(* However the statement ended, its registration is removed. *)
StatementEnds(r) ==
    /\ req[r].pc = "running"
    /\ active' = IF req[r].reg THEN Removed(req[r].id) ELSE active
    /\ UNCHANGED <<policy, pending, workflow, downloads, now, left, runs, asked>>

(* An error (timeout, kill, cancelled context, the server's own) ends the request; the
   rows of any statement but the last are dropped. *)
NextStatement(r) ==
    \/ Fail(r)
    \/ req[r].stmt < Len(Query(r).stmts) /\ req' = [req EXCEPT ![r].pc = "ready", ![r].stmt = @ + 1]

(* What a MySQL result column depends on: what the lineage of the statement says,
   or only its label when the lineage cannot be resolved. *)
FinishStatement(r) ==
    /\ req[r].pc = "running" /\ ~req[r].console /\ Query(r).conn = "mysql"
    /\ \/ NextStatement(r)
       \/ /\ req[r].stmt = Len(Query(r).stmts)
          /\ \E deps \in {Query(r).cols, Labels(Query(r))} :
                req' = [req EXCEPT ![r].pc = "rows", ![r].deps = deps]
    /\ StatementEnds(r)

FinishPostgresStatement(r) ==
    /\ req[r].pc = "running" /\ ~req[r].console /\ Query(r).conn = "postgres"
    /\ \/ NextStatement(r)
       \/ /\ req[r].stmt = Len(Query(r).stmts)
          /\ req' = [req EXCEPT ![r].pc = "rows", ![r].deps = resolvePostgresOrigins(Query(r))]
    /\ StatementEnds(r)

FinishAdminStatement(r) ==
    /\ req[r].pc = "running" /\ req[r].console
    /\ Fail(r) \/ req' = [req EXCEPT ![r].pc = "done"]
    /\ StatementEnds(r)

(* No statement of the request is registered: it is about to send one, or sent one
   without registering it. *)
Waiting(r) == req[r].pc = "ready" \/ (req[r].pc = "running" /\ ~req[r].reg)

(* POST /query/cancel: the entry of the same user is taken out and killed (its
   statement then fails as it ends); with no entry the cancel is remembered;
   an entry of somebody else leaves everything as it is. *)
Cancel(u, id) ==
    /\ Spend("cancel")
    /\ \/ /\ active[id] # NoRequest /\ req[active[id]].user = u
          /\ active' = Removed(id)
          /\ pending' = Pruned
          /\ UNCHANGED asked
       \/ /\ active[id] # NoRequest /\ req[active[id]].user # u
          /\ pending' = Pruned
          /\ UNCHANGED <<active, asked>>
       \/ /\ active[id] = NoRequest
          /\ pending' = [Pruned EXCEPT ![id] = [user |-> u, at |-> now]]
          /\ asked' = [r \in Requests |->
                IF ~Waiting(r) \/ req[r].id # id THEN asked[r]
                ELSE IF req[r].user = u THEN now ELSE Never]
          /\ UNCHANGED active
    /\ UNCHANGED <<policy, req, workflow, downloads, now, runs>>

-----------------------------------------------------------------------------
(* Masking the result: four reads of the meta database                      *)

LoadRules(r) ==
    /\ req[r].pc = "rows"
    /\ req' = [req EXCEPT ![r].pc = "rules", ![r].rules = rules]
    /\ UNCHANGED <<policy, registry, workflow, downloads, now, left, runs, asked>>

(* analyzeSensitiveColumns, its whitelist lookups. *)
MatchWhitelist(r) ==
    /\ req[r].pc = "rules"
    /\ req' = [req EXCEPT ![r].pc = "analyzed",
                ![r].origins = [i \in DOMAIN req[r].deps |->
                    sensitiveOrigins(req[r].deps[i], req[r].rules, white)]]
    /\ UNCHANGED <<policy, registry, workflow, downloads, now, left, runs, asked>>

Columns(r) == DOMAIN req[r].deps
Origins(r, i) == {req[r].origins[i][j] : j \in DOMAIN req[r].origins[i]}
Scopes(r) == UNION {Origins(r, i) : i \in DOMAIN req[r].origins}

(* The columns that the analysis of the result knows of: the base columns of a result
   column whose lineage is known, the label of any other. *)
Analyzed(r) == UNION {{req[r].deps[i][j] : j \in DOMAIN req[r].deps[i]} : i \in Columns(r)}

(* History: what a run whose token is handed out now has seen. *)
RunRecord(r) ==
    [user |-> req[r].user, q |-> req[r].q, at |-> now, read |-> Analyzed(r), plain |-> ever[r].plain]

(* The end of Execute: the token carries the analysis, not what was masked. *)
Answer(r, shown) ==
    LET token == [user |-> req[r].user, q |-> req[r].q, scopes |-> Scopes(r), at |-> now]
    IN  /\ req' = [req EXCEPT ![r].pc = "done", ![r].shown = shown]
        /\ tokens' = tokens \cup {token}
        /\ runs' = runs \cup {RunRecord(r)}

Sensitive(r) == {i \in Columns(r) : req[r].origins[i] # <<>>}

(* applyAnalyzedResult: nothing sensitive, or a user with global.sensitive, answers
   the rows as they are; otherwise the grants are looked up next. *)
CheckOverride(r) ==
    /\ req[r].pc = "analyzed"
    /\ \/ /\ Sensitive(r) = {} \/ Override(req[r].user)
          /\ Answer(r, Columns(r))
       \/ /\ Sensitive(r) # {} /\ ~Override(req[r].user)
          /\ req' = [req EXCEPT ![r].pc = "grants"]
          /\ UNCHANGED <<tokens, runs>>
    /\ UNCHANGED <<policy, registry, tickets, exports, downloads, now, left, asked>>

(* MaskColumns: a mask that cannot be applied to one of the columns is an error. *)
MaskColumns(r, masked) ==
    \A i \in masked :
        LET mask == decideMaskRuleForResultColumn(req[r].origins[i], req[r].rules)
        IN  ~applyFails(mask.mode, mask.config)

(* activeSensitiveAccessIndexes: a column is left alone when all its sensitive origins
   are granted, masked otherwise; an error fails the whole request. *)
ApplyMask(r) ==
    LET granted == {i \in Sensitive(r) : allGranted(req[r].origins[i], ActiveScopes(req[r].user))}
        masked  == Sensitive(r) \ granted
    IN  /\ req[r].pc = "grants"
        /\ IF MaskColumns(r, masked)
           THEN Answer(r, Columns(r) \ masked)
           ELSE Fail(r) /\ UNCHANGED <<tokens, runs>>
        /\ UNCHANGED <<policy, registry, tickets, exports, downloads, now, left, asked>>

-----------------------------------------------------------------------------
(* Tickets asked for with a query context token                             *)

\* mutant: a token never expires
TokenEverValid(token, u, q) ==
    token.user = u /\ token.q = q

(* validateQueryContextToken: same user, same SQL in the same database, not expired. *)
TokenValid(token, u, q) ==
    token.user = u /\ token.q = q /\ now - token.at < TokenTTL

NewTicket(type, u, q, token, status) ==
    [type |-> type, user |-> u, q |-> q, scopes |-> token.scopes,
     sensitive |-> token.scopes # {}, status |-> status, until |-> 0, made |-> now]

(* The workflow of a new sensitive access either resolves, approval or not, to a
   review, or asks for an administrator. *)
StartSensitiveWorkflow(u, q, token) ==
    \E status \in {"pending_review", "needs_admin_attention"} :
        tickets' = Append(tickets, NewTicket("sensitive_query_access", u, q, token, status))

(* CreateSensitiveAccessTicket: MySQL only, something sensitive must have been seen. *)
CreateSensitiveAccessTicket(u, q, token) ==
    /\ Spend("ticket") /\ Len(tickets) < MaxTickets
    /\ Queries[q].conn = "mysql" /\ Queries[q].ro /\ InReach(u)
    /\ TokenValid(token, u, q) /\ token.scopes # {}
    /\ StartSensitiveWorkflow(u, q, token)
    /\ UNCHANGED <<policy, req, registry, tokens, exports, downloads, now, runs, asked>>

NoExport == [ready |-> FALSE, until |-> 0, taken |-> FALSE]

(* ensureReadyExportRequest: an existing request of the ticket is kept. *)
Ensured(i) == IF exports[i].ready THEN exports
              ELSE [exports EXCEPT ![i] = [NoExport EXCEPT !.ready = TRUE, !.until = now + ExportTTL]]

(* The rest of POST /exports once the ticket row exists: a workflow that does not
   resolve asks for an administrator, one without approval makes the export ready. *)
StartExportWorkflow(u, q, token) ==
    \E status \in {"pending_review", "needs_admin_attention", "approved"} :
        /\ tickets' = Append(tickets, NewTicket("sql_export", u, q, token, status))
        /\ exports' = IF status = "approved" THEN Ensured(Len(tickets) + 1) ELSE exports

CreateExport(u, q, token) ==
    /\ Spend("ticket") /\ Len(tickets) < MaxTickets
    /\ Queries[q].conn # "redis" /\ Allowed(u, q) /\ TokenValid(token, u, q)
    /\ StartExportWorkflow(u, q, token)
    /\ UNCHANGED <<policy, req, registry, tokens, downloads, now, runs, asked>>

(* What the review handlers do to such a ticket: approve it (a sensitive access gets
   its end, an export becomes ready), reject it, or revoke a sensitive access. *)
Review(i) ==
    /\ Spend("ticket")
    /\ \/ /\ tickets[i].status = "pending_review"
          /\ \/ /\ tickets[i].type = "sensitive_query_access"
                /\ tickets' = [tickets EXCEPT ![i].status = "approved", ![i].until = now + GrantTTL]
                /\ UNCHANGED exports
             \/ /\ tickets[i].type = "sql_export"
                /\ tickets' = [tickets EXCEPT ![i].status = "approved"]
                /\ exports' = Ensured(i)
             \/ /\ tickets' = [tickets EXCEPT ![i].status = "rejected"]
                /\ UNCHANGED exports
       \/ /\ tickets[i].type = "sensitive_query_access" /\ tickets[i].status = "approved"
          /\ tickets' = [tickets EXCEPT ![i].status = "stopped"]
          /\ UNCHANGED exports
    /\ UNCHANGED <<policy, req, registry, tokens, downloads, now, runs, asked>>

-----------------------------------------------------------------------------
(* Downloads                                                                *)

Hits(key) == IF key \in DOMAIN hits THEN hits[key] ELSE <<>>

(* Both routes, by token and by id, find the row that is ready or nothing. *)
FindExport(i) == IF exports[i].ready THEN exports[i] ELSE NoExport

(* downloadExportRequest for the requester or a reviewer: the limiter is asked before
   the ticket is looked up, so that a refused ticket has used up a hit; the rows of an
   approved ticket are sent without masking. *)
Download(u, i, reviewer) ==
    LET key == <<i, u>> IN
    /\ Spend("download")
    /\ FindExport(i) # NoExport /\ now <= exports[i].until
    /\ tickets[i].user = u \/ reviewer
    /\ hits' = [k \in DOMAIN hits \cup {key} |->
                IF k # key THEN hits[k]
                ELSE IF Allow(Hits(key), now, Limit, Window)
                     THEN Append(Recent(Hits(key), now, Window), now)
                     ELSE Recent(Hits(key), now, Window)]
    /\ IF Allow(Hits(key), now, Limit, Window)
       THEN /\ admitted' = Append(admitted, [key |-> key, at |-> now])
            /\ exports' = IF tickets[i].status = "approved"
                          THEN [exports EXCEPT ![i].taken = TRUE] ELSE exports
       ELSE UNCHANGED <<admitted, exports>>
    /\ UNCHANGED <<policy, req, registry, tokens, tickets, now, runs, asked>>

-----------------------------------------------------------------------------
(* Administration of the policy, and time                                   *)

NoRule == [pattern |-> {}, mode |-> "full", config |-> "none", enabled |-> FALSE]
NoEdit == [rule |-> 0, to |-> 0, row |-> NoRule]
Rest == <<req, registry, workflow, downloads, now, runs, asked>>

(* The row that a column, mode and configuration make, or NoRule when they are refused. *)
validateMaskingRulePayload(i, mode, config) ==
    LET stored == IF mode = "" THEN "full" ELSE mode
    IN  IF stored \in MaskModes /\ normalizeMaskConfig(stored, config) # "refused"
        THEN [pattern |-> Patterns[i], mode |-> stored,
              config |-> normalizeMaskConfig(stored, config), enabled |-> TRUE]
        ELSE NoRule

parseMaskingRulePayload(i, mode, config) == validateMaskingRulePayload(i, mode, config)

ExistsGlobal(i, except) == i # except /\ rules[i] # NoRule
WhitelistExists(c, except) == c # except /\ white[c] # "none"
PrefixExists(p, except) == p # except /\ prefixes[p] # "none"

(* POST /masking-rules: the rule of a column that exists is refused, and so is a
   configuration that does not suit the mode. *)
CreateMaskingRule(i, mode, config) ==
    /\ Spend("policy")
    /\ ~ExistsGlobal(i, 0) /\ parseMaskingRulePayload(i, mode, config) # NoRule
    /\ rules' = [rules EXCEPT ![i] = parseMaskingRulePayload(i, mode, config)]
    /\ UNCHANGED <<white, prefixes, grade, access, reach, edit, Rest>>

(* PATCH /masking-rules/{id} reads the row and validates it with what the request
   changes: its column, mode, configuration or flag ... *)
PatchMaskingRule(i, to, mode, config, enabled) ==
    /\ Spend("policy") /\ edit = NoEdit /\ rules[i] # NoRule
    /\ validateMaskingRulePayload(to, mode, config) # NoRule
    /\ edit' = [rule |-> i, to |-> to,
                 row |-> [validateMaskingRulePayload(to, mode, config) EXCEPT !.enabled = enabled]]
    /\ UNCHANGED <<rules, white, prefixes, grade, access, reach, Rest>>

(* ... and writes every field back, unless another rule has the column by now; a
   row deleted meanwhile is not found by the UPDATE. *)
SaveMaskingRule ==
    /\ edit # NoEdit
    /\ rules' = IF rules[edit.rule] = NoRule \/ ExistsGlobal(edit.to, edit.rule) THEN rules
                ELSE [rules EXCEPT ![edit.rule] = NoRule, ![edit.to] = edit.row]
    /\ edit' = NoEdit
    /\ UNCHANGED <<white, prefixes, grade, access, reach, left, Rest>>

DeleteMaskingRule(i) ==
    /\ Spend("policy") /\ rules[i] # NoRule
    /\ rules' = [rules EXCEPT ![i] = NoRule]
    /\ UNCHANGED <<white, prefixes, grade, access, reach, edit, Rest>>

parseMaskingWhitelistPayload(c) == Table(c) # "" /\ Name(c) # ""

(* The whitelist handlers: a new row, a row switched, moved to another column with
   whatever flag the request or the row read before had, or deleted. *)
CreateWhitelist(c) ==
    /\ Spend("policy") /\ parseMaskingWhitelistPayload(c) /\ ~WhitelistExists(c, <<>>)
    /\ white' = [white EXCEPT ![c] = "on"]
    /\ UNCHANGED <<rules, prefixes, grade, access, reach, edit, Rest>>

PatchWhitelist(c, to, flag) ==
    /\ Spend("policy") /\ white[c] # "none"
    /\ to = c \/ (parseMaskingWhitelistPayload(to) /\ ~WhitelistExists(to, c))
    /\ white' = [white EXCEPT ![c] = "none", ![to] = flag]
    /\ UNCHANGED <<rules, prefixes, grade, access, reach, edit, Rest>>

DeleteWhitelist(c) ==
    /\ Spend("policy") /\ white[c] # "none"
    /\ white' = [white EXCEPT ![c] = "none"]
    /\ UNCHANGED <<rules, prefixes, grade, access, reach, edit, Rest>>

(* The Redis prefix handlers, in the same way; a payload without a flag means active. *)
PrefixFlag(flag) == IF flag = "absent" THEN "on" ELSE flag

CreatePrefix(p, flag) ==
    /\ Spend("policy") /\ ~PrefixExists(p, "") /\ p # ""
    /\ prefixes' = [prefixes EXCEPT ![p] = PrefixFlag(flag)]
    /\ UNCHANGED <<rules, white, grade, access, reach, edit, Rest>>

PatchPrefix(p, to, flag) ==
    /\ Spend("policy") /\ prefixes[p] # "none" /\ ~PrefixExists(to, p) /\ to # ""
    /\ prefixes' = [prefixes EXCEPT ![p] = "none", ![to] = PrefixFlag(flag)]
    /\ UNCHANGED <<rules, white, grade, access, reach, edit, Rest>>

DeletePrefix(p) ==
    /\ Spend("policy") /\ prefixes[p] # "none"
    /\ prefixes' = [prefixes EXCEPT ![p] = "none"]
    /\ UNCHANGED <<rules, white, grade, access, reach, edit, Rest>>

(* Users, groups and query access rules change; AccessControl and TicketWorkflow
   say how, here only the reads of the editor see it. *)
ChangeUser(u) ==
    /\ Spend("policy")
    /\ \/ /\ \E g \in {"none", "sensitive", "all"} : grade' = [grade EXCEPT ![u] = g]
          /\ UNCHANGED <<access, reach>>
       \/ /\ reach' = IF u \in reach THEN reach \ {u} ELSE reach \cup {u}
          /\ UNCHANGED <<access, grade>>
       \/ /\ \E new \in AccessSets : access' = [access EXCEPT ![u] = new]
          /\ UNCHANGED <<grade, reach>>
    /\ UNCHANGED <<rules, white, prefixes, edit, Rest>>

Tick ==
    /\ Spend("tick")
    /\ now' = now + 1
    /\ UNCHANGED <<policy, req, registry, workflow, downloads, runs, asked>>

-----------------------------------------------------------------------------
Init ==
    /\ edit = NoEdit
    /\ req \in [Requests -> {Idle, Unused}]
    /\ active = [id \in ExecIds |-> NoRequest]
    /\ pending = [id \in ExecIds |-> None]
    /\ tokens = {} /\ exports = [i \in 1..MaxTickets |-> NoExport]
    /\ hits = <<>> /\ admitted = <<>>
    /\ ever = [r \in Requests |-> Seen(r)]
    /\ asked = [r \in Requests |-> Never]

RunStep(r) ==
    \/ ExecuteRedis(r) \/ RunAdminRedis(r)
    \/ StartStatement(r) \/ StartPostgresStatement(r) \/ StartAdminStatement(r)
    \/ FinishStatement(r) \/ FinishPostgresStatement(r) \/ FinishAdminStatement(r)
    \/ LoadRules(r) \/ MatchWhitelist(r) \/ CheckOverride(r) \/ ApplyMask(r)

Client ==
    \/ \E r \in Requests, u \in Users, q \in DOMAIN Queries, id \in ExecIds \cup {""} :
        Execute(r, u, q, id) \/ ExecuteAdmin(r, u, q, id)
    \/ \E u \in Users, id \in ExecIds : Cancel(u, id)
    \/ \E u \in Users, q \in DOMAIN Queries, token \in tokens :
        CreateSensitiveAccessTicket(u, q, token) \/ CreateExport(u, q, token)
    \/ \E u \in Users, i \in DOMAIN tickets, reviewer \in BOOLEAN : Download(u, i, reviewer)

Flags == {"on", "off"}

Administration ==
    \/ \E i \in DOMAIN rules, mode \in RuleModes, config \in RuleConfigs :
        \/ CreateMaskingRule(i, mode, config)
        \/ \E to \in DOMAIN rules, enabled \in BOOLEAN : PatchMaskingRule(i, to, mode, config, enabled)
    \/ \E i \in DOMAIN rules : DeleteMaskingRule(i)
    \/ SaveMaskingRule
    \/ \E c, to \in DOMAIN white, flag \in Flags : PatchWhitelist(c, to, flag)
    \/ \E c \in DOMAIN white : CreateWhitelist(c) \/ DeleteWhitelist(c)
    \/ \E p, to \in DOMAIN prefixes, flag \in Flags \cup {"absent"} : CreatePrefix(p, flag) \/ PatchPrefix(p, to, flag)
    \/ \E p \in DOMAIN prefixes : DeletePrefix(p)
    \/ \E u \in Users : ChangeUser(u)
    \/ \E i \in DOMAIN tickets : Review(i)

Next ==
    /\ Client \/ (\E r \in Requests : RunStep(r)) \/ Administration \/ Tick
    /\ Observe

Spec == Init /\ [][Next]_vars

-----------------------------------------------------------------------------
(* Properties                                                               *)

(* The base columns that a result column is really computed from, and whether the
   analysis knew them: it does not for a MySQL statement whose lineage cannot be
   resolved, nor for a computed column of PostgreSQL. *)
Base(r, i) == {Query(r).cols[i][j] : j \in DOMAIN Query(r).cols[i]}
Traced(r, i) == req[r].deps[i] = Query(r).cols[i]


(* The tables a statement reads, as SQL scopes its names and without regard to how
   the code walks the tree: a common table expression sees the names before its own,
   everything else of the statement sees them all. *)
RECURSIVE Tables(_, _), SourceTables(_, _)
Tables(stmt, names) ==
    LET all == AllNames(stmt, names)
    IN  UNION {SourceTables(stmt.from[i], all) : i \in DOMAIN stmt.from}
        \cup UNION {Tables(stmt.arms[i], all) : i \in DOMAIN stmt.arms}
        \cup UNION {Tables(stmt.subs[i], all) : i \in DOMAIN stmt.subs}
        \cup UNION {Tables(stmt.with[i].query, Scope(stmt, names, i - 1)) : i \in DOMAIN stmt.with}
SourceTables(source, names) ==
    CASE source.kind = "table" -> IF source.db = "" /\ source.name \in names THEN {} ELSE {source}
      [] source.kind = "sub" -> Tables(source.query, names)
      [] source.kind = "join" -> SourceTables(source.left, names) \cup SourceTables(source.right, names)

(* The statements whose every table the two extractors promise to find.  They do not
   look into the subqueries of expressions; they take a table inside a common table
   expression of the same name for that expression; and on MySQL they visit the
   operands of a list within a list no further. *)
RECURSIVE Walked(_, _), WalkedSource(_, _)
Walked(conn, stmt) ==
    /\ stmt.subs = <<>>
    /\ \A i \in DOMAIN stmt.with :
        /\ Walked(conn, stmt.with[i].query)
        /\ stmt.with[i].name \notin {table.name : table \in Tables(stmt.with[i].query, {})}
    /\ \A i \in DOMAIN stmt.from : WalkedSource(conn, stmt.from[i])
    /\ \A arm \in Operands(stmt) :
        /\ Walked(conn, arm)
        /\ conn = "mysql" => \A inner \in Operands(arm) : ~IsList(inner)
WalkedSource(conn, source) ==
    CASE source.kind = "table" -> TRUE
      [] source.kind = "sub" -> Walked(conn, source.query)
      [] source.kind = "join" -> WalkedSource(conn, source.left) /\ WalkedSource(conn, source.right)


(* What a reviewer is not told about is at most a token's life out of date: of the
   columns that the analysis of the SQL found, the scopes of a sensitive access or
   export ticket leave out only those that were not sensitive at some moment of a run
   of that SQL by the submitter, answered less than TokenTTL before the ticket was
   made.  In particular the run of a user who could read everything still lists them
   (newQueryContextToken, validateQueryContextToken). *)
ReviewerSeesSensitive ==
    \A i \in DOMAIN tickets : \E run \in runs :
        /\ run.user = tickets[i].user /\ run.q = tickets[i].q
        /\ tickets[i].made - run.at < TokenTTL
        /\ run.read \subseteq tickets[i].scopes \cup run.plain

(* A cancel that was remembered for a request with no registered statement stops it:
   the request registers nothing more for as long as the cancel is kept
   (activeSQLQueryRegistry.cancel and register). *)
RememberedCancelStops ==
    \A r \in Requests :
        asked[r] # Never /\ ~Waiting(r) /\ req[r].pc # "failed" /\ req[r].reg => req[r].at - asked[r] > PendingTTL

(* No user gets more than Limit downloads of one export within any window
   (inMemoryRequestRateLimiter.Allow: "At most five downloads are allowed per minute"). *)
DownloadRate ==
    \A i \in DOMAIN admitted :
        Cardinality({j \in DOMAIN admitted :
            /\ admitted[j].key = admitted[i].key
            /\ admitted[j].at > admitted[i].at - Window
            /\ admitted[j].at <= admitted[i].at}) <= Limit
=============================================================================
