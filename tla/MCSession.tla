------------------------------ MODULE MCSession ------------------------------
(* Small instances of Session for TLC. *)
EXTENDS Session, TLC

\* The first client owns every prompt but u2.
MCOwner == [u \in UserPrompts |-> IF ToString(u) = "u2" THEN "bob" ELSE "ann"]
MCClients == {"ann", "bob"}

\* States that differ only in what no step and no invariant reads again are one
\* state: how an item was answered (but for the answers the invariants name),
\* the send_now flag of an item that has left the queue, whether a task that is
\* over returned or was dropped, and a cancel's locals after it has returned.
Observable ==
    <<unsent, pending, running, rewindable, suppressed, pin, goalGate, waitDepth, waiters, waited,
      buffer, completions, mcpPending, planKick, pc, completing, flushing, started, terminals,
      sendNow \cap ToSet(pending),
      IF pc \in {"cancel", "cancelLock", "cancelGate", "cancelAbort", "cancelEnd"} THEN cancel ELSE cancel.items,
      [i \in Ids |-> IF task[i] = "done" THEN "gone" ELSE task[i]],
      [i \in Ids |-> IF reply[i] \in {None, "dropped", "rewound"} THEN reply[i] ELSE "answered"]>>

\* Bound: what meets in one behaviour.  Two users' prompts and an auto-wake, or a
\* prompt whose turn waits, an interjection and a goal turn, with the kick of the
\* MCP initialisation; that prompt and the interjection with a plan resume, which
\* brings a kick of its own, or with a notification batch.
Scenario ==
    LET submitted == Ids \ unsent
        One == Waiting \cup Interjections
    IN  \/ submitted \subseteq UserPrompts \cup WakePrompts
        \/ submitted \subseteq One \cup GoalPrompts
        \/ mcpPending /\ \E kind \in {PlanPrompts, DrainPrompts} : submitted \subseteq One \cup kind
=============================================================================
