----------------------------- MODULE MCOnlineDDL -----------------------------
(* Small instances of OnlineDDL for TLC. *)
EXTENDS OnlineDDL

TwoRuns == {"r1", "r2"}
OneReq  == {"q1"}
\* Every run has a connection of its own; all of them lead to one server.
OwnConn    == [r \in Runs |-> IF r = "r1" THEN "c1" ELSE "c2"]
AllR1      == [q \in Reqs |-> "r1"]
SharedHost == [c \in {"c1", "c2"} |-> "db"]
=============================================================================
