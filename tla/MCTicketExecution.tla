-------------------------- MODULE MCTicketExecution --------------------------
(* Small instances of TicketExecution for TLC. *)
EXTENDS TicketExecution, TLC

CONSTANTS p1, p2

TwoProcs == {p1, p2}
Auto     == {p1}
NoAuto   == {}

\* Sound where no process is singled out by AutoStart.
ProcSymmetry == Permutations(TwoProcs)
=============================================================================
