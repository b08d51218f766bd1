---------------------------- MODULE QueryPolicy ----------------------------
(***************************************************************************)
(* What the SQL editor decides without changing anything: which tables a   *)
(* statement may read (queryaccess/service.go), which result columns are   *)
(* sensitive and which of them stay readable (handler/masking_runtime.go), *)
(* which masking configurations are stored and which can be applied        *)
(* (handler/masking_rule.go, masking/rules.go), which Redis keys are       *)
(* blocked (sqlreview/redis_check.go) and whether a download is within its *)
(* rate (handler/rate_limiter.go).                                         *)
(*                                                                         *)
(* A base column is <<table, name>>; the table is "" when the lineage of a *)
(* result column could not be resolved.  A query is a record               *)
(*   conn   "mysql", "postgres" or "redis"                                 *)
(*   stmts  the trees of its statements (QueryRefs); for a Redis command   *)
(*          the one key it names, or ""                                    *)
(*   cols   for each result column, the base columns it depends on, in     *)
(*          order; a Redis command has one, the keys it returns content of *)
(*   labels the labels of the result columns                               *)
(*   ro     what CheckReadOnly (or the Redis command tables) says of it    *)
(* A masking rule is [pattern, mode, config, enabled]: the column names it *)
(* matches (one for an exact rule), the mask and its configuration.        *)
(***************************************************************************)
EXTENDS FiniteSets, FiniteSetsExt, QueryRefs

-----------------------------------------------------------------------------
(* Access to tables                                                         *)

matchesPattern(pattern, value) == pattern = "*" \/ pattern = value

matchesRule(ref, rule) ==
    matchesPattern(rule.db, ref.db) /\ matchesPattern(rule.table, ref.table)

(* A deny rule wins over any number of allow rules; no rule at all is a refusal. *)
isAllowedByRules(ref, rules) ==
    LET matching == {rule \in rules : matchesRule(ref, rule)}
    IN  matching # {} /\ \A rule \in matching : rule.effect # "deny"

CheckSQL(q, database, rules, all) ==
    all \/ \A ref \in ObjectRefs(q, database) : isAllowedByRules(ref, rules)

(* A Redis command is checked against one key, "" when it names none or several;
   that reference is never dropped. *)
CheckRedis(q, database, rules, all) ==
    all \/ isAllowedByRules([db |-> database, table |-> q.stmts[1]], rules)

-----------------------------------------------------------------------------
(* Masking configurations                                                   *)

MaskModes == {"full", "partial", "hash", "email", "fixed", "numeric", "datetime", "ip"}

(* normalizeMaskConfig: what is stored for a mode and the configuration of the
   request, or "refused".  A configuration is absent ("none"), right for the mode
   ("good"), wrong in a field that is looked at ("bad"), or wrong only in the type
   of a field that is not ("odd": a number as mask_char, operation or granularity,
   a string as keep_domain). *)
normalizeMaskConfig(mode, config) ==
    CASE mode \in {"full", "hash"} -> "none"
      [] mode \in {"partial", "fixed"} /\ config = "none" -> "refused"
      [] config = "bad" -> "refused"
      [] OTHER -> config

(* Rule.Apply fails on what its configuration struct cannot hold; the fields of
   "fixed" and "ip" are all looked at when the rule is saved. *)
applyFails(mode, config) == mode \in {"partial", "email", "numeric", "datetime"} /\ config = "odd"

-----------------------------------------------------------------------------
(* Sensitive columns                                                        *)

Table(c) == c[1]
Name(c) == c[2]
BaseColumns(q) == UNION {{q.cols[i][j] : j \in DOMAIN q.cols[i]} : i \in DOMAIN q.cols}

(* inferColumnOriginsFromLabels: all that is known of a result column is its label. *)
Labels(q) == [i \in DOMAIN q.labels |-> <<<<"", q.labels[i]>>>>]
Labelled(q) == {<<"", q.labels[i]>> : i \in DOMAIN q.labels}

(* resolvePostgresOrigins: the server names the table of a result column that is a
   plain column; a computed one has only its label. *)
resolvePostgresOrigins(q) ==
    [i \in DOMAIN q.cols |-> IF Len(q.cols[i]) = 1 THEN q.cols[i] ELSE Labels(q)[i]]

(* ListForConnection returns the enabled rules ordered by column name, which
   is their index here. *)
ListForConnection(rules) == {i \in DOMAIN rules : rules[i].enabled}

(* The first rule that matches decides; 0 is none. *)
findMaskRule(rules, name) ==
    LET matching == {i \in ListForConnection(rules) : name \in rules[i].pattern}
    IN  IF matching = {} THEN 0 ELSE Min(matching)

Matched(rules, c) == findMaskRule(rules, Name(c)) # 0

(* A dependency with a resolved table may be exempted by an enabled whitelist row. *)
Whitelisted(c, white) == Table(c) # "" /\ white[c] = "on"

sensitiveOrigins(deps, rules, white) ==
    SelectSeq(deps, LAMBDA c : Matched(rules, c) /\ ~Whitelisted(c, white))

(* One mask for the whole result column: that of its first origin, or full masking
   when the rules of the others differ in mode. *)
decideMaskRuleForResultColumn(origins, rules) ==
    LET rule(j) == rules[findMaskRule(rules, Name(origins[j]))]
    IN  IF \A j \in DOMAIN origins : rule(j).mode = rule(1).mode
        THEN [mode |-> rule(1).mode, config |-> rule(1).config]
        ELSE [mode |-> "full", config |-> "none"]

scopeMatchesOrigin(scope, c) ==
    Name(scope) = Name(c) /\ Table(scope) \in {"", Table(c)}


(* A result column is readable only when every sensitive origin of it is. *)
allGranted(origins, scopes) ==
    \A j \in DOMAIN origins : \E scope \in scopes : scopeMatchesOrigin(scope, origins[j])

-----------------------------------------------------------------------------
(* Redis keys and download rate                                             *)

ListActiveForConnection(prefixes) == {p \in DOMAIN prefixes : prefixes[p] = "on"}

(* CheckRedisSensitiveKeyPrefixes over the keys whose content the command returns;
   a key's prefix is its table part. *)
redisKeyBlocked(q, prefixes) == \E k \in BaseColumns(q) : Table(k) \in ListActiveForConnection(prefixes)

(* inMemoryRequestRateLimiter.Allow: the hits that are still inside the window,
   and whether one more fits. *)
Recent(hits, now, window) == SelectSeq(hits, LAMBDA at : at > now - window)

\* mutant: the limit is reached one download too late
AllowOneMore(hits, now, limit, window) == Len(Recent(hits, now, window)) <= limit

Allow(hits, now, limit, window) == Len(Recent(hits, now, window)) < limit
=============================================================================
