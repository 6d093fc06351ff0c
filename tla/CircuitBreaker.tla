---------------------------- MODULE CircuitBreaker ----------------------------
(***************************************************************************)
(* The lock-free circuit breaker of xai-circuit-breaker.  Each thread runs *)
(* requests one after another: check(), the request itself ("flight"), and *)
(* record() unless its owner is cancelled first.  Only the sliding window  *)
(* is behind a mutex; everything else is a set of independent atomics, so  *)
(* a step here is one atomic operation, one read of the clock or one hold  *)
(* of the window's lock.  Steps interleave as if memory were sequentially  *)
(* consistent, which the Acquire/Release orderings only approximate.       *)
(*                                                                         *)
(* The runtime has several workers, so any number of calls overlap.        *)
(*                                                                         *)
(* Definitions named X_Y are mutations of X, as in PromptQueue.            *)
(***************************************************************************)
EXTENDS Naturals, Sequences, FiniteSets, FiniteSetsExt

CONSTANTS
    Threads,
    OpenDuration,    \* config.open_duration: the cool-down and the probe lease
    WindowDuration,  \* config.window_duration
    MinSamples,      \* config.min_samples
    RateNum, RateDen,\* config.error_rate_threshold = RateNum / RateDen
    MaxProbes,       \* config.half_open_max_probes, clamped to at least 1
    MaxEntries,      \* MAX_WINDOW_ENTRIES
    CounterMod,      \* half_open_probes wraps at this value (2^64 in the code)
    MaxTime,         \* bound of the clock
    None

ASSUME ConfigAssumption ==
    /\ IsFiniteSet(Threads)
    /\ {OpenDuration, WindowDuration, MinSamples, RateNum, MaxTime} \subseteq Nat
    /\ {RateDen, MaxProbes, MaxEntries} \subseteq Nat \ {0}
    /\ CounterMod \in Nat /\ CounterMod > MaxProbes

VARIABLES
    state,     \* authoritative state
    opened,    \* opened_at_millis
    probes,    \* half_open_probes
    claimed,   \* probe_claimed_at_millis
    fast,      \* is_open_fast
    window,    \* the mutex-protected SlidingWindow
    time,      \* the clock, from the breaker's baseline
    pc, now, seen, failed,  \* each thread's place and locals
    probeAt,   \* history: when the probe a thread has in flight was claimed
    cause      \* history: when the breaker last tripped or admitted a probe

locals == <<now, seen, failed>>
history == <<probeAt, cause>>
vars == <<state, opened, probes, claimed, fast, window, time, pc, now, seen, failed, probeAt, cause>>

States == {"Closed", "Open", "HalfOpen"}

Points == {"idle", "flight",
           "loadOpened", "openClock", "casState", "clearFast", "recheck",
           "probeClock", "claim", "stamp", "unclaim", "loadClaimed", "reclaim",
           "recordState", "pushClosed", "pushOpen",
           "tripState", "tripClock", "tripOpened", "tripProbes", "tripFast",
           "closeState", "closeWindow", "closeProbes", "closeFast"}

Sample == [at : 0..MaxTime, failure : BOOLEAN]

EmptyWindow == [entries |-> <<>>, failures |-> 0]

\* The atomics hold stamps of the clock and a counter of its width; the window
\* never holds more than its cap.
TypeOK ==
    /\ state \in States
    /\ opened \in 0..MaxTime /\ claimed \in 0..MaxTime /\ time \in 0..MaxTime
    /\ probes \in 0..(CounterMod - 1)
    /\ fast \in BOOLEAN
    /\ window.entries \in Seq(Sample) /\ Len(window.entries) <= MaxEntries
    /\ window.failures \in Nat
    /\ pc \in [Threads -> Points]
    /\ now \in [Threads -> 0..MaxTime] /\ seen \in [Threads -> 0..MaxTime]
    /\ failed \in [Threads -> BOOLEAN]
    /\ probeAt \in [Threads -> (0..MaxTime) \cup {None}]
    /\ cause \in 0..MaxTime

Init ==
    /\ state = "Closed" /\ opened = 0 /\ probes = 0 /\ claimed = 0 /\ fast = FALSE
    /\ window = EmptyWindow
    /\ time = 0
    /\ pc = [t \in Threads |-> "idle"]
    /\ now = [t \in Threads |-> 0] /\ seen = [t \in Threads |-> 0]
    /\ failed = [t \in Threads |-> FALSE]
    /\ probeAt = [t \in Threads |-> None] /\ cause = 0

-----------------------------------------------------------------------------
(* SlidingWindow.                                                          *)

Elapsed(later, earlier) == IF later < earlier THEN 0 ELSE later - earlier

Pushed_NoCap(w, failure, at) ==
    [entries |-> Append(w.entries, [at |-> at, failure |-> failure]),
     failures |-> w.failures + (IF failure THEN 1 ELSE 0)]

\* push: at the cap the oldest sample makes room.
Pushed(w, failure, at) ==
    LET full == Len(w.entries) >= MaxEntries
    IN  [entries |-> Append(IF full THEN Tail(w.entries) ELSE w.entries,
                            [at |-> at, failure |-> failure]),
         failures |-> w.failures - (IF full /\ Head(w.entries).failure THEN 1 ELSE 0)
                                 + (IF failure THEN 1 ELSE 0)]

\* How many samples evict pops: it stops at the first that is recent enough,
\* even if a later one is older.
StaleCount(entries, at) ==
    CHOOSE n \in 0..Len(entries) :
        /\ \A i \in 1..n : Elapsed(at, entries[i].at) > WindowDuration
        /\ n = Len(entries) \/ Elapsed(at, entries[n + 1].at) <= WindowDuration

Evicted_KeepsCount(w, at) ==
    [w EXCEPT !.entries = SubSeq(@, StaleCount(@, at) + 1, Len(@))]

Evicted(w, at) ==
    LET n == StaleCount(w.entries, at)
    IN  [entries |-> SubSeq(w.entries, n + 1, Len(w.entries)),
         failures |-> w.failures - Quantify(1..n, LAMBDA i : w.entries[i].failure)]

ShouldTrip(w) ==
    /\ Len(w.entries) >= MinSamples
    /\ w.failures * RateDen >= RateNum * Len(w.entries)

-----------------------------------------------------------------------------
(* check.                                                                  *)

Goto(t, point) == pc' = [pc EXCEPT ![t] = point]

\* Where each state sends check() and the loser of the Open -> HalfOpen race.
CheckIn == [Closed |-> "flight", Open |-> "loadOpened", HalfOpen |-> "probeClock"]
RecheckIn == [Closed |-> "flight", Open |-> "idle", HalfOpen |-> "probeClock"]

Check(t) ==
    /\ pc[t] = "idle"
    /\ Goto(t, CheckIn[state])
    /\ UNCHANGED <<state, opened, probes, claimed, fast, window, time, locals, history>>

LoadOpened(t) ==
    /\ pc[t] = "loadOpened"
    /\ seen' = [seen EXCEPT ![t] = opened]
    /\ Goto(t, "openClock")
    /\ UNCHANGED <<state, opened, probes, claimed, fast, window, time, now, failed, history>>

OpenClock(t) ==
    /\ pc[t] = "openClock"
    /\ now' = [now EXCEPT ![t] = time]
    /\ Goto(t, IF Elapsed(time, seen[t]) >= OpenDuration THEN "casState" ELSE "idle")
    /\ UNCHANGED <<state, opened, probes, claimed, fast, window, time, seen, failed, history>>

CasState(t) ==
    /\ pc[t] = "casState"
    /\ state' = IF state = "Open" THEN "HalfOpen" ELSE state
    /\ Goto(t, IF state = "Open" THEN "clearFast" ELSE "recheck")
    /\ UNCHANGED <<opened, probes, claimed, fast, window, time, locals, history>>

Recheck(t) ==
    /\ pc[t] = "recheck"
    /\ Goto(t, RecheckIn[state])
    /\ UNCHANGED <<state, opened, probes, claimed, fast, window, time, locals, history>>

StoreFast(t, from, value, to) ==
    /\ pc[t] = from
    /\ fast' = value
    /\ Goto(t, to)
    /\ UNCHANGED <<state, opened, probes, claimed, window, time, locals, history>>

StoreProbes(t, from, to) ==
    /\ pc[t] = from
    /\ probes' = 0
    /\ Goto(t, to)
    /\ UNCHANGED <<state, opened, claimed, fast, window, time, locals, history>>

ReadClock(t, from, to) ==
    /\ pc[t] = from
    /\ now' = [now EXCEPT ![t] = time]
    /\ Goto(t, to)
    /\ UNCHANGED <<state, opened, probes, claimed, fast, window, time, seen, failed, history>>

ClearFast(t) == StoreFast(t, "clearFast", FALSE, "probeClock")

\* try_half_open_probe.
ProbeClock(t) == ReadClock(t, "probeClock", "claim")

Claim(t) ==
    /\ pc[t] = "claim"
    /\ probes' = (probes + 1) % CounterMod
    /\ Goto(t, IF probes < MaxProbes THEN "stamp" ELSE "unclaim")
    /\ UNCHANGED <<state, opened, claimed, fast, window, time, locals, history>>

Admit(t) ==
    /\ Goto(t, "flight")
    /\ probeAt' = [probeAt EXCEPT ![t] = now[t]]
    /\ cause' = time

Stamp(t) ==
    /\ pc[t] = "stamp"
    /\ claimed' = now[t]
    /\ Admit(t)
    /\ UNCHANGED <<state, opened, probes, fast, window, time, locals>>

Unclaim(t) ==
    /\ pc[t] = "unclaim"
    /\ probes' = (probes + CounterMod - 1) % CounterMod
    /\ Goto(t, "loadClaimed")
    /\ UNCHANGED <<state, opened, claimed, fast, window, time, locals, history>>

LoadClaimed_NoLease(t) ==
    /\ pc[t] = "loadClaimed"
    /\ Goto(t, "idle")
    /\ UNCHANGED <<state, opened, probes, claimed, fast, window, time, locals, history>>

\* A claim older than the lease may be taken over.
LoadClaimed(t) ==
    /\ pc[t] = "loadClaimed"
    /\ seen' = [seen EXCEPT ![t] = claimed]
    /\ Goto(t, IF Elapsed(now[t], claimed) >= OpenDuration THEN "reclaim" ELSE "idle")
    /\ UNCHANGED <<state, opened, probes, claimed, fast, window, time, now, failed, history>>

Reclaim(t) ==
    /\ pc[t] = "reclaim"
    /\ \/ claimed = seen[t] /\ claimed' = now[t] /\ Admit(t)
       \/ claimed # seen[t] /\ Goto(t, "idle") /\ UNCHANGED <<claimed, history>>
    /\ UNCHANGED <<state, opened, probes, fast, window, time, locals>>

-----------------------------------------------------------------------------
(* record, trip and close.                                                 *)

\* The request is over, or its future is dropped and nobody records it.
LeaveFlight(t) ==
    /\ pc[t] = "flight"
    /\ probeAt' = [probeAt EXCEPT ![t] = None]
    /\ UNCHANGED cause

Abandon(t) ==
    /\ LeaveFlight(t)
    /\ Goto(t, "idle")
    /\ UNCHANGED <<state, opened, probes, claimed, fast, window, time, locals>>

Record(t, failure) ==
    /\ LeaveFlight(t)
    /\ now' = [now EXCEPT ![t] = time]
    /\ failed' = [failed EXCEPT ![t] = failure]
    /\ Goto(t, "recordState")
    /\ UNCHANGED <<state, opened, probes, claimed, fast, window, time, seen>>

RecordIn(t) == [Closed   |-> "pushClosed",
                HalfOpen |-> IF failed[t] THEN "tripState" ELSE "closeState",
                Open     |-> "pushOpen"]

RecordState(t) ==
    /\ pc[t] = "recordState"
    /\ Goto(t, RecordIn(t)[state])
    /\ UNCHANGED <<state, opened, probes, claimed, fast, window, time, locals, history>>

Push(t) ==
    /\ pc[t] \in {"pushClosed", "pushOpen"}
    /\ window' = Evicted(Pushed(window, failed[t], now[t]), now[t])
    /\ Goto(t, IF pc[t] = "pushClosed" /\ ShouldTrip(window') THEN "tripState" ELSE "idle")
    /\ UNCHANGED <<state, opened, probes, claimed, fast, time, locals, history>>

StoreState(t, from, value, to) ==
    /\ pc[t] = from
    /\ state' = value
    /\ Goto(t, to)
    /\ UNCHANGED <<opened, probes, claimed, fast, window, time, locals, probeAt>>

TripState(t) == StoreState(t, "tripState", "Open", "tripClock") /\ cause' = time
TripClock(t) == ReadClock(t, "tripClock", "tripOpened")

TripOpened(t) ==
    /\ pc[t] = "tripOpened"
    /\ opened' = now[t] /\ cause' = time
    /\ Goto(t, "tripProbes")
    /\ UNCHANGED <<state, probes, claimed, fast, window, time, locals, probeAt>>

TripProbes(t) == StoreProbes(t, "tripProbes", "tripFast")
TripFast(t) == StoreFast(t, "tripFast", TRUE, "idle")

CloseState(t) == StoreState(t, "closeState", "Closed", "closeWindow") /\ UNCHANGED cause

CloseWindow(t) ==
    /\ pc[t] = "closeWindow"
    /\ window' = EmptyWindow
    /\ Goto(t, "closeProbes")
    /\ UNCHANGED <<state, opened, probes, claimed, fast, time, locals, history>>

CloseProbes(t) == StoreProbes(t, "closeProbes", "closeFast")

CloseFast(t) == StoreFast(t, "closeFast", FALSE, "idle")

\* error_rate() evicts too; its caller is none of the threads.
ErrorRate ==
    /\ window' = Evicted(window, time)
    /\ window' # window
    /\ UNCHANGED <<state, opened, probes, claimed, fast, time, pc, locals, history>>

Tick ==
    /\ time < MaxTime
    /\ time' = time + 1
    /\ UNCHANGED <<state, opened, probes, claimed, fast, window, pc, locals, history>>

CheckStep(t) ==
    \/ Check(t) \/ LoadOpened(t) \/ OpenClock(t) \/ CasState(t) \/ Recheck(t) \/ ClearFast(t)
    \/ ProbeClock(t) \/ Claim(t) \/ Stamp(t) \/ Unclaim(t) \/ LoadClaimed(t) \/ Reclaim(t)

RecordStep(t) ==
    \/ Abandon(t) \/ RecordState(t) \/ Push(t)
    \/ \E failure \in BOOLEAN : Record(t, failure)
    \/ TripState(t) \/ TripClock(t) \/ TripOpened(t) \/ TripProbes(t) \/ TripFast(t)
    \/ CloseState(t) \/ CloseWindow(t) \/ CloseProbes(t) \/ CloseFast(t)

Next ==
    \/ \E t \in Threads : CheckStep(t) \/ RecordStep(t)
    \/ ErrorRate
    \/ Tick

Spec == Init /\ [][Next]_vars

-----------------------------------------------------------------------------
(* Properties.                                                             *)

\* The failure count SlidingWindow keeps on every push, pop, eviction and clear
\* is the number of failures in it: error_rate() never scans.
WindowCountsFailures ==
    window.failures = Quantify(DOMAIN window.entries, LAMBDA i : window.entries[i].failure)

\* check() answers BreakerOpen.
Refused(t) ==
    pc[t] \in {"openClock", "recheck", "loadClaimed", "reclaim"} /\ pc'[t] = "idle"

\* The breaker never keeps shedding on its own: a check is refused only when,
\* by its own clock, the breaker tripped or admitted a probe less than
\* open_duration ago.  A probe whose owner was dropped, a slot another thread
\* counted after the trip reset it and stores of two trips that overlap may
\* delay recovery by one such period, never longer.
RefusedWithCause ==
    [][\A t \in Threads :
          Refused(t) => now'[t] <= cause' \/ now'[t] - cause' < OpenDuration]_vars

-----------------------------------------------------------------------------
(* What the code's comments and tests say, and a run refutes.              *)

\* Of the probes in flight, at most MaxProbes were claimed within one lease of
\* each other: a replacement is admitted only for an expired claim.
ProbesWithin(t) ==
    {u \in Threads : /\ probeAt[u] # None
                     /\ probeAt[u] <= probeAt[t]
                     /\ probeAt[t] - probeAt[u] < OpenDuration}

ProbesLimited ==
    \A t \in Threads : probeAt[t] # None => Cardinality(ProbesWithin(t)) <= MaxProbes
=============================================================================
