----------------------------- MODULE ClientTurns -----------------------------
(***************************************************************************)
(* One pager attached to a session that other clients also drive: the      *)
(* pager's copy of the shared prompt queue and of the running turn, and    *)
(* the shell's queue they are copies of.                                   *)
(*                                                                         *)
(* The shell owns the queue.  It tells every client through three rails:   *)
(* ext notifications (queue/changed, the durable TurnCompleted, and        *)
(* prompt_complete) in one order, session/update deltas in another, and    *)
(* the response to each session/prompt call on its own.  The pager's view  *)
(* (its current prompt, the stashed hand-over to the next one, optimistic  *)
(* rows for prompts not confirmed yet) has to come out right whatever      *)
(* order the rails deliver in, and when a response is lost.                *)
(*                                                                         *)
(* The shell's side is Session reduced to what the wire shows: a turn ends *)
(* or is cancelled in two steps, its answer goes out in others.  Replay on *)
(* attach, bash and compact rows, send-now and the paywall exits of        *)
(* handle_prompt_response are not in this model.                           *)
(*                                                                         *)
(* Definitions named X_Y are mutations of X (see PromptQueue).             *)
(***************************************************************************)
EXTENDS PromptQueue

CONSTANTS
    None,         \* no prompt
    Mine,         \* prompts this pager's user types
    Theirs,       \* prompts of other clients (plain or cron: both are adoptable)
    Wakes,        \* the shell's own auto-wake turns, not on the wire queue
    Images,       \* those of Mine that carry images
    Twins,        \* prompts typed with the same text
    MaxPrompts,   \* prompts the shell accepts
    MaxDeltas,    \* deltas a turn streams
    MaxCommands,  \* queue edits by any client, and cancels
    MaxLost       \* prompt responses lost on the way

Prompts == Mine \cup Theirs
Ids == Prompts \cup Wakes

ASSUME ClientTurnsAssumption ==
    /\ IsFiniteSet(Ids) /\ None \notin Ids
    /\ Mine \cap Theirs = {} /\ Prompts \cap Wakes = {}
    /\ Images \subseteq Mine /\ Twins \subseteq Prompts
    /\ {MaxPrompts, MaxDeltas, MaxCommands, MaxLost} \subseteq Nat

VARIABLES
    \* the pager
    pager,        \* what AppView and the session's AgentView hold, see PagerInit
    typed,        \* own prompts in the order the user typed them
    \* the shell
    queue,        \* State::pending_inputs: the running prompt's slot first
    running,      \* State::running_prompt_id
    deltas,       \* deltas the running turn has sent: rewindable while 0
    ending,       \* a turn popped but not finished with: [id, terminal] or None
    version,      \* queue_meta.version of each prompt
    rpc,          \* MvpAgent::prompt for each prompt
    \* the wire
    calls,        \* prompts and cancels of this pager, in dispatch order
    removes,      \* x.ai/queue/remove calls of this pager
    events,       \* ext notifications and responses
    updates,      \* session/update deltas
    answers,      \* own session/prompt calls whose response is there, not handled
    \* bounds and history
    commands,     \* edits and cancels so far
    lost,         \* own prompts whose response was lost
    missed        \* prompts whose end the pager was not told of in time

shellVars == <<queue, running, deltas, ending, version, rpc>>
wireVars == <<calls, removes, events, updates, answers>>
vars == <<pager, typed, shellVars, wireVars, commands, lost, missed>>

-----------------------------------------------------------------------------
(* What the pager holds.                                                   *)

Row(id, v) == [id |-> id, version |-> v]
RowIds(rows) == {r.id : r \in ToSet(rows)}
Without(rows, ids) == Kept(rows, {r \in ToSet(rows) : r.id \notin ids})
Pinned(ids) == [i \in 1..Len(ids) |-> Row(ids[i], 0)]

\* An edited row has a text of its own.
SameText(r, s) == r.version = 0 /\ s.version = 0 /\ {r.id, s.id} \subseteq Twins

PagerInit(viewer) ==
    [cur |-> None,        \* session.current_prompt_id
     state |-> "idle",    \* session.state
     viewer |-> viewer,   \* attached_as_viewer: TRUE after a session/load attach
     inFlight |-> FALSE,  \* session.in_flight_prompt: the cancel can rewind
     stash |-> None,      \* pending_running_adoptions: [id, known, ended]
     fed |-> None,        \* the prompt pending_adoption_updates holds deltas of
     armed |-> None,      \* pending_turn_end_reconcile
     shared |-> <<>>,     \* shared_prompt_queues
     mirror |-> <<>>,     \* shared_queue: the rows on screen
     echoes |-> <<>>,     \* optimistic_prompt_echoes
     local |-> <<>>]      \* pending_prompts: typed, not handed over yet

\* AgentSession::finish_turn.
FinishTurn(p) == [p EXCEPT !.cur = None, !.state = "idle", !.inFlight = FALSE]

\* apply_turn_start_shim: bind the running prompt and show it.  The prompt can
\* be rewound while its text is known and no delta of it has been buffered.
TurnStartShim(p, id, known) ==
    [p EXCEPT !.cur = id, !.state = "running", !.viewer = id \notin Mine,
              !.inFlight = known /\ p.fed # id, !.fed = None]

\* Take up the stashed adoption now that the turn "id" is over.
HandOver(p, id) ==
    LET done == [FinishTurn(p) EXCEPT !.stash = None]
    IN  IF p.stash # None /\ p.stash.id # id
        THEN TurnStartShim(done, p.stash.id, p.stash.known)
        ELSE [done EXCEPT !.fed = None]

\* What the pager calls: session/prompt, and session/cancel, which names no prompt.
PromptCall(id) == [kind |-> "prompt", id |-> id]
CancelCall(rewind) == [kind |-> "cancel", rewind |-> rewind]

\* maybe_drain_queue: send the oldest local prompt, unless a turn runs or a
\* server row is still ahead of it.
Drains(p) == p.state = "idle" /\ RowIds(p.mirror) \subseteq {p.cur} /\ p.local # <<>>
Drain(p) ==
    IF Drains(p)
    THEN [p EXCEPT !.cur = Head(p.local), !.state = "running", !.viewer = FALSE,
                   !.inFlight = TRUE, !.local = Tail(p.local)]
    ELSE p
SendDrained(p) == IF Drains(p) THEN <<PromptCall(Head(p.local))>> ELSE <<>>

-----------------------------------------------------------------------------
(* The pager's handlers, as functions of what it holds.                    *)

\* AppView::apply_queue_changed: the broadcast replaces the queue; an echo is
\* retired by its id or its text, the others are pinned at the end.
EchoRetired(p, m, e) ==
    LET seen == ToSet(m.rows) \cup {r \in ToSet(p.shared) : r.id = m.running}
    IN  \/ e \in RowIds(m.rows) \cup {m.running}
        \/ \E r \in seen : SameText(r, Row(e, 0))

ApplyQueueChanged(p, m) ==
    LET kept == Kept(p.echoes, {e \in Mine : ~EchoRetired(p, m, e)})
        rows == m.rows \o Pinned(kept)
    IN  [p EXCEPT !.echoes = kept, !.shared = rows, !.mirror = rows]

\* handle_queue_changed, no running prompt: the stash survives one such
\* broadcast, for the deltas it can overtake.
SpendStash(p) ==
    IF p.stash # None /\ ~p.stash.ended
    THEN [p EXCEPT !.stash.ended = TRUE]
    ELSE [p EXCEPT !.stash = None, !.fed = None]

\* handle_queue_changed, "id" runs: a wake is never adopted, the prompt on
\* screen needs nothing, another one is adopted at once or stashed.
AdoptRunning(p, id, known) ==
    CASE id \in Wakes \cup {p.cur} -> p
      [] id \in Prompts /\ p.cur = None -> TurnStartShim(p, id, known)
      [] id \in Prompts \ {p.cur} /\ p.cur # None ->
             IF p.stash # None /\ p.stash.id = id THEN p
             ELSE [p EXCEPT !.fed = None,
                            !.stash = [id |-> id, known |-> known, ended |-> FALSE]]

HandleQueueChanged(p, m) ==
    LET q == ApplyQueueChanged(p, m)
    IN  IF m.running = None THEN SpendStash(q)
        ELSE AdoptRunning(q, m.running, m.running \in RowIds(p.shared))

\* arm_driver_turn_end_reconcile: only for the turn this client drives.
ArmsReconcile(p, id) == p.state # "idle" /\ p.cur = id /\ p.armed \in {None, id}

\* finalize_turn_from_terminal and apply_terminal_outcome, for TurnCompleted
\* and prompt_complete alike.  The driver waits for its response and arms the
\* reconcile; a viewer finishes whatever turn it shows.
Finalize_RunningOnly(p, id) ==
    CASE ~p.viewer /\ ArmsReconcile(p, id) /\ p.state = "running" -> [p EXCEPT !.armed = id]
      [] p.viewer /\ (p.state # "idle" \/ p.cur # None) ->
             [FinishTurn(p) EXCEPT !.stash = None, !.fed = None]
      [] OTHER -> p
Finalize(p, id) ==
    CASE ~p.viewer /\ ArmsReconcile(p, id) -> [p EXCEPT !.armed = id]
      [] p.viewer /\ (p.state # "idle" \/ p.cur # None) ->
             [FinishTurn(p) EXCEPT !.stash = None, !.fed = None]
      [] OTHER -> p

\* handle, for a live session/update: the viewer flag follows the delta's
\* owner, then it is buffered for the stashed turn, dropped, or applied.
HandleUpdate(p, id) ==
    LET q == IF p.cur # id /\ id \in Prompts THEN [p EXCEPT !.viewer = id \notin Mine] ELSE p
        foreign == q.cur # id /\ ~q.viewer
        cur == IF q.viewer THEN id ELSE q.cur
    IN  CASE foreign /\ q.stash # None /\ q.stash.id = id -> [q EXCEPT !.fed = id]
          [] foreign /\ ~(q.stash # None /\ q.stash.id = id)
                     /\ ~(id \in Wakes /\ q.cur \in Wakes \cup {None}) -> q
          [] OTHER ->
                 [q EXCEPT !.cur = cur, !.inFlight = FALSE,
                           !.state = IF q.viewer /\ cur \in Prompts THEN "running" ELSE q.state]

\* handle_prompt_response for a turn the pager does not show: its stash, echo
\* and row are retired, the turn on screen is left alone.
ForeignResponse(p, id) ==
    LET own == p.stash # None /\ p.stash.id = id
    IN  [p EXCEPT !.stash = IF own THEN None ELSE @,
                  !.fed = IF own THEN None ELSE @,
                  !.echoes = Kept(@, Mine \ {id}),
                  !.shared = Without(@, {id}),
                  !.mirror = Without(@, {id})]

\* immediate_server_send_eligible.
SendEligible_BesideLocal(p) == p.state = "running" \/ p.mirror # <<>>
SendEligible(p) == (p.state = "running" \/ p.mirror # <<>>) /\ p.local = <<>>

-----------------------------------------------------------------------------
(* What the shell says.                                                    *)

\* build_queue_wire: the queued prompts without the running one and the wakes.
Rows(q, run, ver) ==
    LET ids == Kept(q, Prompts \ {run})
    IN  [i \in 1..Len(ids) |-> Row(ids[i], ver[ids[i]])]

\* broadcast_queue_changed.
Changed(q, run, ver) == [kind |-> "changed", running |-> run, rows |-> Rows(q, run, ver)]
Terminal(id) == [kind |-> "turn_completed", id |-> id]
Complete(id) == [kind |-> "prompt_complete", id |-> id]
Response(id) == [kind |-> "response", id |-> id]

\* maybe_start_running_task after a handler that leaves the queue "q" and the
\* running prompt "run", having sent "out".
StartNext_Silently(q, run, out) ==
    /\ queue' = q
    /\ running' = IF run = None /\ q # <<>> THEN Head(q) ELSE run
    /\ deltas' = IF run = None THEN 0 ELSE deltas
    /\ events' = events \o out
StartNext(q, run, out) ==
    LET starts == run = None /\ q # <<>>
    IN  /\ queue' = q
        /\ running' = IF starts THEN Head(q) ELSE run
        /\ deltas' = IF run = None THEN 0 ELSE deltas
        /\ events' = events \o out
                         \o (IF starts THEN <<Changed(q, Head(q), version)>> ELSE <<>>)

\* No handler of the actor is under way.
AtSelect == ending = None

Init ==
    /\ \E viewer \in BOOLEAN : pager = PagerInit(viewer)
    /\ typed = <<>>
    /\ queue = <<>> /\ running = None /\ deltas = 0 /\ ending = None
    /\ version = [id \in Prompts |-> 0]
    /\ rpc = [id \in Ids |-> "new"]
    /\ calls = <<>> /\ removes = {} /\ events = <<>> /\ updates = <<>> /\ answers = {}
    /\ commands = 0 /\ lost = {} /\ missed = {}

-----------------------------------------------------------------------------
(* The user at the pager.                                                  *)

\* The pager takes the step that leaves "p", then drains a local prompt.
Settle(p) == pager' = Drain(p) /\ calls' = calls \o SendDrained(p)

\* dispatch_send_prompt, while the session is busy: straight to the shell's
\* queue, with an optimistic row.
SendNow(id) ==
    /\ id \in Mine \ (ToSet(typed) \cup Images)
    /\ SendEligible(pager)
    /\ typed' = Append(typed, id)
    /\ LET rows == Append(pager.shared, Row(id, 0))
       IN  pager' = [pager EXCEPT !.shared = rows, !.mirror = rows,
                                  !.echoes = Append(pager.echoes, id)]
    /\ calls' = Append(calls, PromptCall(id))
    /\ UNCHANGED <<shellVars, removes, events, updates, answers, commands, lost, missed>>

\* dispatch_send_prompt otherwise, images always: behind the local prompts.
SendLocal(id) ==
    /\ id \in Mine \ ToSet(typed)
    /\ id \in Images \/ ~SendEligible(pager)
    /\ typed' = Append(typed, id)
    /\ Settle([pager EXCEPT !.local = Append(@, id)])
    /\ UNCHANGED <<shellVars, removes, events, updates, answers, commands, lost, missed>>

\* do_cancel_turn: a prompt nothing has been seen of goes back to the input box
\* when the setting allows it; otherwise the turn waits for its end.
CancelTurn(enabled) ==
    LET rewind == enabled /\ pager.inFlight /\ pager.mirror = <<>> /\ pager.local = <<>>
    IN  /\ pager.state = "running"
        /\ commands < MaxCommands
        /\ commands' = commands + 1
        /\ pager' = IF rewind THEN FinishTurn(pager) ELSE [pager EXCEPT !.state = "cancelling"]
        /\ calls' = Append(calls, CancelCall(rewind))
        /\ UNCHANGED <<typed, shellVars, removes, events, updates, answers, lost, missed>>

\* Deleting a server row takes it off the screen before the shell answers.
RemoveRow(row) ==
    /\ row \in ToSet(pager.mirror)
    /\ commands < MaxCommands
    /\ commands' = commands + 1
    /\ pager' = [pager EXCEPT !.mirror = Without(@, {row.id})]
    /\ removes' = removes \cup {row}
    /\ UNCHANGED <<typed, shellVars, calls, events, updates, answers, lost, missed>>

-----------------------------------------------------------------------------
(* The pager's event loop.                                                 *)

\* No announcement of the prompt's end is still to reach the pager.
Announced(id) ==
    /\ rpc[id] \notin {"new", "waiting", "announce"}
    /\ ending # None => ending # [id |-> id, terminal |-> TRUE]
    /\ {Terminal(id), Complete(id)} \cap ToSet(events') = {}

\* History: the prompts whose end the pager has missed.  The prompt on screen
\* was taken up when nothing could end it any more, or its end came while the
\* reconcile was armed for another turn or the viewer flag was off.
TakenUpLate == {id \in Prompts : id = pager'.cur /\ id # pager.cur /\ Announced(id)}
Ignored(m) ==
    {id \in Prompts : /\ m.kind # "changed" /\ m.id = id
                      /\ ~pager.viewer /\ pager.cur = id
                      /\ id \in Theirs \/ pager.armed \notin {None, id}}

\* The next ext notification.  The durable end of a wake turn only adds a marker.
ReceiveEvent ==
    /\ events # <<>> /\ Head(events).kind # "response"
    /\ events' = Tail(events)
    /\ LET m == Head(events)
       IN  pager' = CASE m.kind = "changed" -> HandleQueueChanged(pager, m)
                      [] m.kind # "changed" /\ m.id \in Wakes -> pager
                      [] m.kind # "changed" /\ m.id \in Prompts -> Finalize(pager, m.id)
    /\ UNCHANGED <<typed, shellVars, calls, removes, updates, answers, commands, lost>>
    /\ missed' = missed \cup TakenUpLate \cup Ignored(Head(events))

\* A response resolves the task that waits for it.  The loop polls its tasks
\* after the notifications, so the response overtakes none of them, but the
\* task may be handled later.
ResolveTask ==
    /\ events # <<>> /\ Head(events).kind = "response"
    /\ events' = Tail(events)
    /\ answers' = answers \cup {Head(events).id}
    /\ UNCHANGED <<pager, typed, shellVars, calls, removes, updates, commands, lost, missed>>

ReceiveUpdate ==
    /\ updates # <<>>
    /\ updates' = Tail(updates)
    /\ pager' = HandleUpdate(pager, Head(updates))
    /\ UNCHANGED <<typed, shellVars, calls, removes, events, answers, commands, lost>>
    /\ missed' = missed \cup TakenUpLate

\* handle_prompt_response.
ReceiveAnswer(id) ==
    LET disarmed == [pager EXCEPT !.armed = IF @ = id THEN None ELSE @]
    IN  /\ id \in answers
        /\ answers' = answers \ {id}
        /\ IF pager.cur = id
           THEN Settle(HandOver(disarmed, id))
           ELSE pager' = ForeignResponse(disarmed, id) /\ UNCHANGED calls
        /\ UNCHANGED <<typed, shellVars, removes, events, updates, commands, lost>>
        /\ missed' = missed \cup TakenUpLate

\* reconcile_overdue_turn_ends: the response did not follow within the grace
\* period.  It may only be slow.
Reconcile ==
    LET id == pager.armed
        disarmed == [pager EXCEPT !.armed = None]
    IN  /\ id # None
        /\ IF pager.cur = id /\ pager.state # "idle"
           THEN Settle(HandOver(disarmed, id))
           ELSE pager' = disarmed /\ UNCHANGED calls
        /\ UNCHANGED <<typed, shellVars, removes, events, updates, answers, commands, lost>>
        /\ missed' = missed \cup TakenUpLate

-----------------------------------------------------------------------------
(* The shell.                                                              *)

\* SessionCommand::Prompt: a user's prompt sweeps the queued wakes.
QueueInput(id) ==
    LET q == Append(Sweep(queue, running, IF id \in Wakes THEN {} ELSE Wakes), id)
    IN  /\ Cardinality({i \in Ids : rpc[i] # "new"}) < MaxPrompts
        /\ StartNext(q, running, <<Changed(q, running, version)>>)
        /\ rpc' = [rpc EXCEPT ![id] = "waiting"]
        /\ UNCHANGED <<ending, version>>

AcceptPrompt ==
    /\ AtSelect
    /\ calls # <<>> /\ Head(calls).kind = "prompt"
    /\ QueueInput(Head(calls).id)
    /\ calls' = Tail(calls)
    /\ UNCHANGED <<pager, typed, removes, updates, answers, commands, lost, missed>>

\* Another client's prompt, or a wake.
OtherPrompt(id) ==
    /\ AtSelect
    /\ id \in Ids \ Mine /\ rpc[id] = "new"
    /\ QueueInput(id)
    /\ UNCHANGED <<pager, typed, calls, removes, updates, answers, commands, lost, missed>>

StreamDelta ==
    /\ running # None /\ deltas < MaxDeltas
    /\ deltas' = deltas + 1
    /\ updates' = Append(updates, running)
    /\ UNCHANGED <<pager, typed, queue, running, ending, version, rpc, calls, removes, events,
                   answers, commands, lost, missed>>

\* handle_completion up to the broadcast: pop the front and answer its caller.
EndTurn ==
    LET q == Tail(queue)
    IN  /\ AtSelect /\ running # None
        /\ queue' = q /\ running' = None
        /\ ending' = [id |-> running, terminal |-> TRUE]
        /\ events' = IF running \in Wakes THEN events
                     ELSE Append(events, Changed(q, None, version))
        /\ rpc' = [rpc EXCEPT ![running] = IF running \in Wakes THEN "gone" ELSE "announce"]
        /\ UNCHANGED <<pager, typed, deltas, version, calls, removes, updates, answers, commands,
                       lost, missed>>

\* cancel_running_task: no broadcast; a turn that has said nothing is rewound
\* without a durable end.  The cancel names no prompt: it hits what runs.
AcceptCancel ==
    /\ AtSelect
    /\ calls # <<>> /\ Head(calls).kind = "cancel"
    /\ calls' = Tail(calls)
    /\ IF running = None
       THEN UNCHANGED <<queue, running, ending, rpc>>
       ELSE /\ queue' = Tail(queue) /\ running' = None
            /\ ending' = [id |-> running,
                          terminal |-> ~(Head(calls).rewind /\ deltas = 0)]
            /\ rpc' = [rpc EXCEPT ![running] = IF running \in Wakes THEN "gone" ELSE "announce"]
    /\ UNCHANGED <<pager, typed, deltas, version, removes, events, updates, answers, commands,
                   lost, missed>>

\* emit_turn_completed, then maybe_start_running_task.
FinishEnd ==
    /\ ending # None
    /\ StartNext(queue, running, IF ending.terminal THEN <<Terminal(ending.id)>> ELSE <<>>)
    /\ ending' = None
    /\ UNCHANGED <<pager, typed, version, rpc, calls, removes, updates, answers, commands, lost,
                   missed>>

\* handle_remove_queued_prompt: a stale version or the running turn is refused,
\* and the queue is sent again either way.
Removable(row) ==
    /\ row.id \in ToSet(queue) \ {running}
    /\ version[row.id] = row.version
RemoveQueued(row) ==
    /\ IF Removable(row)
       THEN /\ queue' = Kept(queue, Ids \ {row.id})
            /\ rpc' = [rpc EXCEPT ![row.id] = IF row.id \in Mine THEN "removed" ELSE "gone"]
       ELSE UNCHANGED <<queue, rpc>>
    /\ events' = Append(events, Changed(queue', running, version))
    /\ UNCHANGED <<running, deltas, ending, version>>

AcceptRemove(row) ==
    /\ AtSelect
    /\ row \in removes
    /\ removes' = removes \ {row}
    /\ RemoveQueued(row)
    /\ UNCHANGED <<pager, typed, calls, updates, answers, commands, lost, missed>>

\* handle_edit_queued_prompt by any client: last write wins; nothing is sent
\* when there is nothing to edit.
EditQueued(id) ==
    /\ AtSelect
    /\ id \in (ToSet(queue) \cap Prompts) \ {running}
    /\ commands < MaxCommands
    /\ commands' = commands + 1
    /\ version' = [version EXCEPT ![id] = @ + 1]
    /\ events' = Append(events, Changed(queue, running, version'))
    /\ UNCHANGED <<pager, typed, queue, running, deltas, ending, rpc, calls, removes, updates,
                   answers, lost, missed>>

\* handle_reorder_queue by any client.
ReorderQueue(order) ==
    /\ AtSelect
    /\ commands < MaxCommands
    /\ commands' = commands + 1
    /\ queue' = Reordered(queue, running, Prompts, order)
    /\ events' = Append(events, Changed(queue', running, version))
    /\ UNCHANGED <<pager, typed, running, deltas, ending, version, rpc, calls, removes, updates,
                   answers, lost, missed>>

\* MvpAgent::prompt after the turn: prompt_complete to every client, and later
\* the response to the caller.
Announce(id) ==
    /\ rpc[id] = "announce"
    /\ events' = Append(events, Complete(id))
    /\ rpc' = [rpc EXCEPT ![id] = IF id \in Mine THEN "answer" ELSE "gone"]
    /\ UNCHANGED <<pager, typed, queue, running, deltas, ending, version, calls, removes, updates,
                   answers, commands, lost, missed>>

Respond(id) ==
    /\ rpc[id] \in {"answer", "removed"}
    /\ rpc' = [rpc EXCEPT ![id] = "gone"]
    /\ events' = Append(events, Response(id))
    /\ UNCHANGED <<pager, typed, queue, running, deltas, ending, version, calls, removes, updates,
                   answers, commands, lost, missed>>

\* The response is lost in the leader's routing.  Nothing else tells of the end
\* of a removed prompt.
LoseResponse(id) ==
    /\ rpc[id] \in {"answer", "removed"} /\ Cardinality(lost) < MaxLost
    /\ rpc' = [rpc EXCEPT ![id] = "gone"]
    /\ lost' = lost \cup {id}
    /\ missed' = IF rpc[id] = "removed" THEN missed \cup {id} ELSE missed
    /\ UNCHANGED <<pager, typed, queue, running, deltas, ending, version, wireVars, commands>>

PagerStep ==
    \/ \E id \in Mine : SendNow(id) \/ SendLocal(id) \/ ReceiveAnswer(id)
    \/ \E enabled \in BOOLEAN : CancelTurn(enabled)
    \/ \E row \in ToSet(pager.mirror) : RemoveRow(row)
    \/ ReceiveEvent
    \/ ResolveTask
    \/ ReceiveUpdate
    \/ Reconcile

ShellStep ==
    \/ AcceptPrompt
    \/ AcceptCancel
    \/ EndTurn
    \/ FinishEnd
    \/ StreamDelta
    \/ \E row \in removes : AcceptRemove(row)
    \/ \E id \in Ids : OtherPrompt(id) \/ Announce(id) \/ Respond(id) \/ LoseResponse(id)
    \/ \E id \in Prompts : EditQueued(id)
    \/ \E order \in SetToSeqs(Prompts) : ReorderQueue(order)

Next == PagerStep \/ ShellStep

Spec == Init /\ [][Next]_vars

-----------------------------------------------------------------------------
(* Properties.                                                             *)

\* Nothing is on its way between the pager and the shell, and the pager's
\* deferred reconcile has fired.
Quiet ==
    /\ calls = <<>> /\ removes = {} /\ events = <<>> /\ updates = <<>> /\ answers = {}
    /\ ending = None /\ pager.armed = None
    /\ \A id \in Ids : rpc[id] \notin {"announce", "answer", "removed"}

\* Once the wire is quiet the rows the pager shows are the shell's queue, with
\* the shell's versions, and no optimistic row is left: whatever was reordered,
\* edited, removed optimistically or refused (AppView::apply_queue_changed: the
\* broadcast is authoritative).
MirrorConverges ==
    Quiet => pager.mirror = Rows(queue, running, version) /\ pager.echoes = <<>>

\* A turn of this pager's own does not stay on screen once it is over: with the
\* wire quiet, an own prompt shown as running is one the shell still has.  Its
\* response ends it or, when that is lost, its announced end and the reconcile do
\* (reconcile_overdue_turn_ends: a lost response once "left the TUI latched in
\* TurnCancelling").  Only losing both strands it: the response was lost, and the
\* announcement came before the turn was on screen, while the reconcile was armed
\* for another turn, or, for a removed prompt, not at all.
FinishedTurnLeavesScreen ==
    Quiet /\ pager.state # "idle" /\ pager.cur \in Mine =>
        pager.cur \in ToSet(queue) \cup (missed \cap lost)

\* The shell is handed this user's prompts in the order they were typed, though
\* some go straight to its queue and some wait in the pager
\* (immediate_server_send_eligible, "preserving FIFO"): it has had the first n of
\* them, and the others are on their way and waiting, in this order.
TypedOrderKept ==
    LET CallsOf(ids) == [i \in 1..Len(ids) |-> PromptCall(ids[i])]
    IN  \E n \in 0..Len(typed) :
            /\ {id \in Mine : rpc[id] # "new"} = ToSet(SubSeq(typed, 1, n))
            /\ Kept(calls, {PromptCall(id) : id \in Mine}) \o CallsOf(pager.local)
                   = CallsOf(SubSeq(typed, n + 1, Len(typed)))

=============================================================================
