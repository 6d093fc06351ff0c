--------------------------- MODULE MCCircuitBreaker ---------------------------
(* Small instances of CircuitBreaker for TLC. *)
EXTENDS CircuitBreaker, TLC

\* Threads are interchangeable.
ThreadSymmetry == Permutations(Threads)

\* States that differ only in locals no step will read again are one state.
LiveLocals ==
    LET Live(local, points) == [t \in Threads |-> IF pc[t] \in points THEN local[t] ELSE None]
    IN  <<state, opened, probes, claimed, fast, window, time, pc, history,
          Live(now, {"casState", "recheck", "claim", "stamp", "unclaim", "loadClaimed", "reclaim", "recordState",
                     "pushClosed", "pushOpen", "tripOpened"}),
          Live(seen, {"openClock", "reclaim"}),
          Live(failed, {"recordState", "pushClosed", "pushOpen"})>>
=============================================================================
