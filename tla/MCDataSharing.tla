--------------------------- MODULE MCDataSharing ---------------------------
(* Model values for checking DataSharing with TLC. *)
EXTENDS DataSharing, TLC

CONSTANTS p1, p2, p3

Procs == {p1, p2, p3}
============================================================================
