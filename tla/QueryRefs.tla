----------------------------- MODULE QueryRefs -----------------------------
(***************************************************************************)
(* The tables that a query reads, as queryaccess/extract.go collects them  *)
(* from the syntax tree.  A statement that is no SELECT has the tree       *)
(* NoSelect.  A SELECT or set operation is a record                        *)
(*   with   its common table expressions in order, as [name, query]        *)
(*   from   its FROM clause: [kind |-> "table", db, name] (db is "" for an *)
(*          unqualified name, the schema on PostgreSQL),                   *)
(*          [kind |-> "sub", query] or [kind |-> "join", left, right]      *)
(*   arms   the operands of a set operation                                *)
(*   subs   the subqueries of its expressions (select list, WHERE, ...),   *)
(*          which neither extractor visits                                 *)
(***************************************************************************)
EXTENDS Integers, Sequences

NoSelect == [with |-> <<>>, from |-> <<>>, arms |-> <<>>, subs |-> <<>>]

(* The names in scope once the first i common table expressions are read: a common
   table expression sees its own name and those before it. *)
Scope(stmt, ctes, i) == ctes \cup {stmt.with[j].name : j \in 1..i}
AllNames(stmt, ctes) == Scope(stmt, ctes, Len(stmt.with))

-----------------------------------------------------------------------------
(* MySQL                                                                    *)


Operands(stmt) == {stmt.arms[i] : i \in DOMAIN stmt.arms}
IsList(arm) == arm.arms # <<>>

(* A parenthesised operand is parsed to a list node, of which only the plain
   SELECTs are visited. *)
Arms(stmt) ==
    {arm \in Operands(stmt) : ~IsList(arm)}
    \cup UNION {{inner \in Operands(list) : ~IsList(inner)} : list \in {arm \in Operands(stmt) : IsList(arm)}}

RECURSIVE MySQLSelectRefs(_, _), MySQLSourceRefs(_, _)
MySQLSelectRefs(stmt, ctes) ==
    UNION {MySQLSelectRefs(stmt.with[i].query, Scope(stmt, ctes, i)) : i \in DOMAIN stmt.with}
    \cup UNION {MySQLSourceRefs(stmt.from[i], AllNames(stmt, ctes)) : i \in DOMAIN stmt.from}
    \cup UNION {MySQLSelectRefs(arm, AllNames(stmt, ctes)) : arm \in Arms(stmt)}

MySQLSourceRefs(source, ctes) ==
    CASE source.kind = "sub"  -> MySQLSelectRefs(source.query, ctes)
      [] source.kind = "join" -> MySQLSourceRefs(source.left, ctes) \cup MySQLSourceRefs(source.right, ctes)
      [] source.kind = "table" ->
            IF source.db = "" /\ source.name \in ctes THEN {}
            ELSE {[db |-> source.db, table |-> source.name]}

-----------------------------------------------------------------------------
(* PostgreSQL: both operands of a set operation are SELECTs themselves, and the
   qualifier of a table is a schema, its database that of the request.      *)

RECURSIVE PostgresSelectRefs(_, _), PostgresFromRefs(_, _)
PostgresSelectRefs(stmt, ctes) ==
    UNION {PostgresSelectRefs(stmt.with[i].query, Scope(stmt, ctes, i)) : i \in DOMAIN stmt.with}
    \cup UNION {PostgresFromRefs(stmt.from[i], AllNames(stmt, ctes)) : i \in DOMAIN stmt.from}
    \cup UNION {PostgresSelectRefs(stmt.arms[i], AllNames(stmt, ctes)) : i \in DOMAIN stmt.arms}

PostgresFromRefs(node, ctes) ==
    CASE node.kind = "sub"  -> PostgresSelectRefs(node.query, ctes)
      [] node.kind = "join" -> PostgresFromRefs(node.left, ctes) \cup PostgresFromRefs(node.right, ctes)
      [] node.kind = "table" ->
            IF node.db = "" /\ node.name \in ctes THEN {} ELSE {[db |-> "", table |-> node.name]}

-----------------------------------------------------------------------------
StatementRefs(conn, stmt) ==
    IF conn = "postgres" THEN PostgresSelectRefs(stmt, {}) ELSE MySQLSelectRefs(stmt, {})

(* ExtractObjectRefs: every statement, unqualified tables in the database of the
   request, and without the references that have no database or no table. *)
ObjectRefs(q, database) ==
    LET refs == UNION {StatementRefs(q.conn, q.stmts[i]) : i \in DOMAIN q.stmts}
    IN  {ref \in {[r EXCEPT !.db = IF @ = "" THEN database ELSE @] : r \in refs} :
            ref.db # "" /\ ref.table # ""}
=============================================================================
