-------------------------- MODULE MCTableSchemaSync --------------------------
(* Small instances of TableSchemaSync for TLC. *)
EXTENDS TableSchemaSync, TLC

CONSTANTS q1, q2

TwoRequests == {q1, q2}

\* Requests differ in nothing but their names.
RequestSymmetry == Permutations(TwoRequests)
=============================================================================
