----------------------------- MODULE PromptQueue -----------------------------
(***************************************************************************)
(* The queue of prompts a session holds (State::pending_inputs) as a       *)
(* sequence of prompt ids, and what the session actor's handlers do to it. *)
(* An InputItem is identified by its prompt id; the fields the scheduler   *)
(* reads (origin, owner, send_now) are sets and functions over the ids.    *)
(*                                                                         *)
(* Every handler that rebuilds the VecDeque keeps the relative order of    *)
(* the items it keeps.  Kept states that once: the j-th item of the result *)
(* is the j-th item of the queue that belongs to "keep".  It is written    *)
(* with ranks instead of SelectSeq so that PromptQueueProofs can show what *)
(* it returns; PromptQueueLoops tests it against SelectSeq.                *)
(*                                                                         *)
(* Definitions named X_Y are mutations of X: what a plausible slip in that *)
(* code would do.  They are used only to confirm that the properties of    *)
(* the runs notice.                                                        *)
(***************************************************************************)
EXTENDS Naturals, Sequences, FiniteSets, SequencesExt

\* How many of the first i items of q are kept.
Rank(q, keep, i) == Cardinality({k \in 1..i : q[k] \in keep})

\* The items of q that are in keep, in the order of q.
Kept(q, keep) ==
    [j \in 1..Rank(q, keep, Len(q)) |->
        q[CHOOSE i \in 1..Len(q) : q[i] \in keep /\ Rank(q, keep, i) = j]]

\* The front of the queue is the in-flight turn's own slot.
FrontIs(q, id) == q # <<>> /\ Head(q) = id

-----------------------------------------------------------------------------
\* State::sweep_pending_inputs: drop the items in "drop", except the running
\* turn's own slot.
Sweep_Everything(q, running, drop) == Kept(q, {running})
Sweep(q, running, drop) == Kept(q, (ToSet(q) \ drop) \cup {running})

\* The number of items a send-now prompt lands behind: the running front, then
\* the send-now prompts that follow it without a gap.
SendNowSlot(q, running, sendNow) ==
    LET base == IF FrontIs(q, running) THEN 1 ELSE 0
    IN  CHOOSE n \in base..Len(q) :
            /\ \A m \in (base + 1)..n : q[m] \in sendNow
            /\ n = Len(q) \/ q[n + 1] \notin sendNow

InsertSendNow_AtEnd(q, running, sendNow, id) == Append(q, id)
InsertSendNow(q, running, sendNow, id) ==
    InsertAt(q, SendNowSlot(q, running, sendNow) + 1, id)

\* queue_interjection_fallback_prompt with front = true: the head of the queue,
\* but never in front of the running turn.
InsertFallback_AtHead(q, running, id) == <<id>> \o q
InsertFallback(q, running, id) ==
    InsertAt(q, IF FrontIs(q, running) THEN 2 ELSE 1, id)

\* handle_reorder_queue: the running turn and the items without queue metadata
\* first, then the named prompts in the requested order, then the others.
Reordered_KeepsNamed(q, running, meta, order) ==
    LET queued == (ToSet(q) \cap meta) \ {running}
    IN  Kept(q, ToSet(q) \ queued) \o Kept(order, queued) \o Kept(q, queued)

Reordered(q, running, meta, order) ==
    LET queued == (ToSet(q) \cap meta) \ {running}
    IN  Kept(q, ToSet(q) \ queued)
            \o Kept(order, queued)
            \o Kept(q, queued \ ToSet(order))
=============================================================================
