------------------------------- MODULE MCNotify -------------------------------
(* Small instances of SessionNotify for TLC. *)
EXTENDS SessionNotify, TLC

CONSTANTS b1, m1, e1, e2, u1, u2

MonitorOfEvent == [e \in Events |-> m1]
Symmetry == Permutations(Events)
=============================================================================
