-------------------------- MODULE MCAccessManager --------------------------
(* Model values for checking AccessManager with TLC. *)
EXTENDS AccessManager, TLC

CONSTANTS p1, p2, p3

Procs == {p1, p2, p3}
ProcPair == {p1, p2}
============================================================================
