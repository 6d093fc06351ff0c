------------------------------- MODULE MCSampler -------------------------------
(* Small instances of Sampler for TLC. *)
EXTENDS Sampler

CONSTANTS s1, s2, i1

\* Both submissions carry the same request id.
OneId == [s \in Subs |-> i1]
=============================================================================
