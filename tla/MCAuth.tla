-------------------------------- MODULE MCAuth --------------------------------
(* Small instances of AuthRefresh for TLC. *)
EXTENDS AuthRefresh

CONSTANTS pa, pb, ca, cb, ea, fa

\* Each task is named after its process.
OwnerOf == [t \in Tasks |-> IF t = cb THEN pb ELSE pa]
=============================================================================
