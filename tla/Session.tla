------------------------------- MODULE Session -------------------------------
(***************************************************************************)
(* The turn scheduler of a session: the SessionActor's command loop, the   *)
(* turn task it spawns for the prompt at the front of the queue, and the   *)
(* two detached tasks (MCP initialisation, plan-approval resume) that also *)
(* start turns.  Everything runs on one LocalSet, so steps interleave only *)
(* where the code awaits: an action here is the code between two awaits    *)
(* that touch shared state, and "pc" says where the actor is parked.       *)
(*                                                                         *)
(* A prompt is promoted without leaving the queue: while a turn runs, its  *)
(* item stays at the front of pending until the completion or a cancel     *)
(* removes it.  Most of what can go wrong comes from that and from the     *)
(* turn's identity being kept twice, in running_task (under the state      *)
(* lock) and in current_prompt_id (the "pin", under a lock of its own).    *)
(***************************************************************************)
EXTENDS PromptQueue

CONSTANTS
    UserPrompts,    \* typed by a client; on the shared queue; an RPC waits
    CronPrompts,    \* scheduler-fired: synthetic, yet sent by a client's RPC
    WakePrompts,    \* auto-wake of a completed task or subagent
    PlanPrompts,    \* follow-up of a resumed plan approval
    GoalPrompts,    \* goal-summary turns
    DrainPrompts,   \* batched notification turns
    Interjections,  \* mid-turn steering text (and its fallback prompt)
    Waiting,        \* prompts whose turn calls an interruptible wait tool
    Clients,        \* clients attached to the session
    Owner,          \* the client that submitted each user prompt
    None            \* no prompt

Synthetic == CronPrompts \cup WakePrompts \cup PlanPrompts
                \cup GoalPrompts \cup DrainPrompts

Ids == UserPrompts \cup Interjections \cup Synthetic

\* PromptOrigin is decided by the id's prefix: a user's text is never synthetic.
ASSUME KindsDisjoint ==
    /\ UserPrompts \cap (Interjections \cup Synthetic) = {}
    /\ Interjections \cap Synthetic = {}

Answers == {"done", "cancelled", "removed", "rewound",
            "dropped",            \* respond_to dropped without an answer
            "merged", "cleared"}  \* an interjection's fate

ASSUME NoneAssumption == None \notin Ids \cup Answers
ASSUME WaitingAssumption == Waiting \subseteq Ids
ASSUME OwnerAssumption == Owner \in [UserPrompts -> Clients]

VARIABLES
    unsent,      \* ids nobody has submitted yet
    pending,     \* State::pending_inputs
    sendNow,     \* the ids whose InputItem has send_now set
    running,     \* State::running_task's prompt id, or None
    rewindable,  \* State::rewindable
    suppressed,  \* State::notifications_suppressed
    pin,         \* current_prompt_id
    task,        \* life of the turn task spawned for each id
    goalGate,    \* tool_context.goal_loop_active_gate
    waitDepth,   \* tool_context.blocking_wait_depth
    waiters,     \* turns whose BlockingWaitGuard is alive
    waited,      \* turns that have entered their wait (bound: one each)
    buffer,      \* pending_interjections
    completions, \* the completion channel
    mcpPending,  \* the MCP-initialisation task has not yet kicked the queue
    planKick,    \* plan-resume prompts queued but not yet kicked
    pc,          \* where the actor is
    completing,  \* prompt id of the completion being handled
    flushing,    \* interjections being turned into fallback prompts
    cancel,      \* locals of cancel_running_task
    reply,       \* how each item's respond_to was resolved, or None
    started,     \* how often a turn was spawned for each id
    terminals    \* how many TurnCompleted each id has published

queueVars == <<pending, sendNow, running, rewindable, suppressed>>
turnVars  == <<pin, task, started>>
gateVars  == <<goalGate, waitDepth, waiters, waited>>
envVars   == <<unsent, mcpPending, planKick>>
actorVars == <<completions, completing, flushing, cancel>>
ghostVars == <<reply, terminals>>

vars == <<unsent, pending, sendNow, running, rewindable, suppressed, pin, task, goalGate,
          waitDepth, waiters, waited, buffer, completions, mcpPending, planKick, pc,
          completing, flushing, cancel, reply, started, terminals>>

-----------------------------------------------------------------------------
TaskStates == {"none",      \* never spawned
               "live",      \* spawned; its scope guard holds the pin
               "ending",    \* scope guard dropped, completion not yet sent
               "done",      \* completion sent
               "aborted",   \* abort() called, future not yet dropped
               "gone"}      \* future dropped

CancelModes == {"user", "kill", "rewind", "send_now"}

Replies == Answers \cup {None}

ActorPoints == {"loop", "start", "cancel", "cancelLock", "cancelGate", "cancelAbort",
                "cancelEnd", "completionGate", "completionLock", "turnEnd", "strand",
                "flush", "startAfterTurn", "drain", "stopped"}

NoCancel == [mode |-> "user", pinned |-> None, victim |-> None, abortee |-> None,
             items |-> <<>>, rewound |-> FALSE]

CancelRecords == [mode : CancelModes, pinned : Ids \cup {None}, victim : Ids \cup {None},
                  abortee : Ids \cup {None}, items : Seq(Ids), rewound : BOOLEAN]

QueueType ==
    /\ pending \in Seq(Ids)
    /\ sendNow \in SUBSET Ids
    /\ running \in Ids \cup {None}
    /\ rewindable \in BOOLEAN
    /\ suppressed \in BOOLEAN

TurnType ==
    /\ pin \in Ids \cup {None}
    /\ task \in [Ids -> TaskStates]
    /\ started \in [Ids -> Nat]

GateType ==
    /\ goalGate \in BOOLEAN
    /\ waitDepth \in Nat
    /\ waiters \in SUBSET Ids
    /\ waited \in SUBSET Ids

EnvType ==
    /\ unsent \in SUBSET Ids
    /\ mcpPending \in BOOLEAN
    /\ planKick \in SUBSET Ids

ActorType ==
    /\ completions \in Seq(Ids)
    /\ completing \in Ids \cup {None}
    /\ flushing \in Seq(Interjections)
    /\ cancel \in CancelRecords

GhostType ==
    /\ reply \in [Ids -> Replies]
    /\ terminals \in [Ids -> Nat]

\* The types of the State fields, the turn bookkeeping and the handlers' locals.
TypeOK ==
    /\ QueueType /\ TurnType /\ GateType /\ EnvType /\ ActorType /\ GhostType
    /\ buffer \in Seq(Interjections)
    /\ pc \in ActorPoints

Init ==
    /\ unsent = Ids
    /\ pending = <<>> /\ sendNow = {} /\ running = None
    /\ rewindable = FALSE /\ suppressed = FALSE
    /\ pin = None /\ task = [i \in Ids |-> "none"] /\ started = [i \in Ids |-> 0]
    /\ goalGate = FALSE /\ waitDepth = 0 /\ waiters = {} /\ waited = {}
    /\ buffer = <<>> /\ completions = <<>>
    /\ mcpPending = TRUE /\ planKick = {}
    /\ pc = "loop" /\ completing = None /\ flushing = <<>> /\ cancel = NoCancel
    /\ reply = [i \in Ids |-> None] /\ terminals = [i \in Ids |-> 0]

-----------------------------------------------------------------------------
(* Helpers shared by the handlers.                                         *)

\* respond_to of every id in S is resolved with r (a second send is lost).
Answer(S, r) == reply' = [i \in Ids |-> IF i \in S /\ reply[i] = None THEN r ELSE reply[i]]

\* The select! loop is biased: a waiting completion goes before any command.
AtSelect == pc = "loop" /\ completions = <<>>

\* maybe_start_running_task: promote the front, which stays in the queue.
StartFront ==
    \/ /\ running = None /\ pending # <<>>
       /\ running' = Head(pending)
       /\ pin' = Head(pending)
       /\ rewindable' = TRUE
       /\ task' = [task EXCEPT ![Head(pending)] = "live"]
       /\ started' = [started EXCEPT ![Head(pending)] = @ + 1]
    \/ /\ running # None \/ pending = <<>>
       /\ UNCHANGED <<running, pin, rewindable, task, started>>

\* abort(): a task that has already sent its completion is left alone.
Abort(id) ==
    task' = [i \in Ids |-> IF i = id /\ task[i] \in {"live", "ending"} THEN "aborted" ELSE task[i]]

\* TurnSubagentScopeGuard::drop: only the turn's own pin is cleared.
Unpin_Never(id) == UNCHANGED pin

Unpin(id) == pin' = IF pin = id THEN None ELSE pin

\* A turn is running and no goal loop protects it from send-now.
Cancellable == running # None /\ ~goalGate

-----------------------------------------------------------------------------
(* queue_input.                                                            *)

\* A queued auto-wake arms the sweep of all queued synthetic prompts.
PreemptArmed(id) ==
    /\ id \notin Synthetic
    /\ \E w \in WakePrompts : w \in ToSet(pending) /\ w # running

QueueAfterPreempt(id) ==
    IF PreemptArmed(id) THEN Sweep(pending, running, Synthetic) ELSE pending

\* send_now requested, or implied: the turn is parked in an interruptible wait
\* and no other user prompt is being held.
RunsNext(id, requested) ==
    /\ id \notin Synthetic
    /\ \/ requested
       \/ /\ running # None
          /\ waitDepth > 0
          /\ \A q \in ToSet(pending) : q \in Synthetic \/ q = running

QueueInput(id, requested) ==
    LET kept == QueueAfterPreempt(id)
        next == RunsNext(id, requested)
    IN  /\ unsent' = unsent \ {id}
        /\ pending' = IF next THEN InsertSendNow(kept, running, sendNow, id)
                      ELSE Append(kept, id)
        /\ sendNow' = IF next THEN sendNow \cup {id} ELSE sendNow
        /\ Answer(ToSet(pending) \ ToSet(kept), "dropped")

-----------------------------------------------------------------------------
(* Commands of the actor's mailbox.                                        *)

\* SessionCommand::Prompt.  Only a user's own prompt re-enables notification
\* drains and can ask for send-now.
Prompt(id, requested) ==
    /\ AtSelect
    /\ id \in unsent \cap (UserPrompts \cup CronPrompts \cup WakePrompts)
    /\ requested => id \in UserPrompts
    /\ QueueInput(id, requested)
    /\ suppressed' = (suppressed /\ id \in Synthetic)
    /\ pc' = IF RunsNext(id, requested) /\ Cancellable THEN "cancel" ELSE "start"
    /\ UNCHANGED <<running, rewindable, turnVars, gateVars, buffer, mcpPending, planKick,
                   actorVars, terminals>>

\* SessionCommand::RemoveQueuedPrompt with a current version: the in-flight
\* turn and other clients' prompts are refused.
RemoveQueued(id, client) ==
    /\ AtSelect
    /\ id \in ToSet(pending) \cap UserPrompts
    /\ id # running
    /\ client \in {None, Owner[id]}
    /\ pending' = Kept(pending, Ids \ {id})
    /\ Answer({id}, "removed")
    /\ UNCHANGED <<unsent, sendNow, running, rewindable, suppressed, turnVars, gateVars, buffer,
                   mcpPending, planKick, pc, actorVars, terminals>>

\* SessionCommand::ClearQueue: one client's prompts, or everybody's.
ClearQueue(client) ==
    /\ AtSelect
    /\ LET mine == {u \in ToSet(pending) \cap UserPrompts : client \in {None, Owner[u]}}
       IN  /\ mine \ {running} # {}
           /\ pending' = Sweep(pending, running, mine)
           /\ Answer(mine \ {running}, "removed")
    /\ UNCHANGED <<unsent, sendNow, running, rewindable, suppressed, turnVars, gateVars, buffer,
                   mcpPending, planKick, pc, actorVars, terminals>>

\* SessionCommand::ReorderQueue.
ReorderQueue(order) ==
    /\ AtSelect
    /\ pending' = Reordered(pending, running, UserPrompts, order)
    /\ pending' # pending
    /\ UNCHANGED <<unsent, sendNow, running, rewindable, suppressed, turnVars, gateVars, buffer,
                   mcpPending, planKick, pc, actorVars, ghostVars>>

\* SessionCommand::InterjectQueuedPrompt: the row is promoted to run next.
InterjectQueued(id, client) ==
    /\ AtSelect
    /\ id \in ToSet(pending) \cap UserPrompts
    /\ id # running
    /\ client \in {None, Owner[id]}
    /\ pending' = InsertSendNow(Kept(pending, Ids \ {id}), running, sendNow, id)
    /\ sendNow' = sendNow \cup {id}
    /\ pc' = IF Cancellable THEN "cancel" ELSE "start"
    /\ UNCHANGED <<unsent, running, rewindable, suppressed, turnVars, gateVars, buffer,
                   mcpPending, planKick, actorVars, ghostVars>>

\* SessionCommand::Interject: buffered when the pin names a turn, else queued
\* as a prompt of its own.
Interject(i) ==
    /\ AtSelect
    /\ i \in unsent \cap Interjections
    /\ unsent' = unsent \ {i}
    /\ \/ /\ pin # None
          /\ buffer' = Append(buffer, i)
          /\ UNCHANGED <<pending, sendNow, pc>>
       \/ /\ pin = None
          /\ pending' = InsertFallback(pending, running, i)
          /\ sendNow' = sendNow \cup {i}
          /\ pc' = "start"
          /\ UNCHANGED buffer
    /\ UNCHANGED <<running, rewindable, suppressed, turnVars, gateVars, mcpPending, planKick,
                   actorVars, ghostVars>>

\* SessionCommand::GoalSummaryTurn.
GoalSummary(g) ==
    /\ AtSelect
    /\ g \in unsent \cap GoalPrompts
    /\ unsent' = unsent \ {g}
    /\ pending' = Append(pending, g)
    /\ pc' = "start"
    /\ UNCHANGED <<sendNow, running, rewindable, suppressed, turnVars, gateVars, buffer,
                   mcpPending, planKick, actorVars, ghostVars>>

\* SessionCommand::InjectNotification outside a turn: buffer, then try to drain.
InjectNotification ==
    /\ AtSelect
    /\ unsent \cap DrainPrompts # {}
    /\ pc' = "drain"
    /\ UNCHANGED <<queueVars, turnVars, gateVars, envVars, buffer, actorVars, ghostVars>>

\* SessionCommand::Shutdown: synthetic prompts are dropped, the running turn's
\* own slot included, and the loop returns.
Shutdown ==
    /\ AtSelect
    /\ pending' = Kept(pending, Ids \ Synthetic)
    /\ Answer(ToSet(pending) \cap Synthetic, "dropped")
    /\ pc' = "stopped"
    /\ UNCHANGED <<sendNow, running, rewindable, suppressed, turnVars, gateVars, envVars, buffer,
                   actorVars, terminals>>

\* The tail of most handlers: maybe_start_running_task, then back to select!.
Start ==
    /\ pc = "start"
    /\ StartFront
    /\ pc' = "loop"
    /\ UNCHANGED <<pending, sendNow, suppressed, gateVars, envVars, buffer, actorVars, ghostVars>>

-----------------------------------------------------------------------------
(* cancel_running_task, awaits and all.                                    *)

BeginCancel(mode) ==
    /\ buffer' = <<>>
    /\ Answer(ToSet(buffer), "cleared")
    /\ cancel' = [NoCancel EXCEPT !.mode = mode, !.pinned = pin]
    /\ pc' = "cancelLock"
    /\ UNCHANGED <<queueVars, turnVars, gateVars, envVars, completions, completing, flushing,
                   terminals>>

\* SessionCommand::Cancel: Ctrl-C, teardown, or Esc on a pristine turn.
CancelCommand(mode) == AtSelect /\ mode # "send_now" /\ BeginCancel(mode)

\* cancel_turn_for_send_now, after queue_input asked for it.
CancelForSendNow == pc = "cancel" /\ BeginCancel("send_now")

\* The section under the state lock: pop the front (all of the queue on
\* teardown) and take the task.
CancelRewinds == cancel.mode = "rewind" /\ rewindable /\ pending # <<>>

\* What the cancel takes out of the queue, and what it leaves there.
CancelledItems ==
    IF cancel.mode = "kill" \/ pending = <<>> THEN pending ELSE <<Head(pending)>>

QueueAfterCancel_Empty == <<>>
QueueAfterCancel ==
    IF cancel.mode = "kill" \/ pending = <<>> THEN <<>> ELSE Tail(pending)

CancelLock ==
    /\ pc = "cancelLock"
    /\ running' = None
    /\ \/ /\ CancelRewinds
          /\ Abort(running)
          /\ suppressed' = FALSE
          /\ pending' = Tail(pending)
          /\ cancel' = [cancel EXCEPT !.items = <<Head(pending)>>, !.rewound = TRUE]
       \/ /\ ~CancelRewinds
          /\ suppressed' = TRUE
          /\ pending' = QueueAfterCancel
          /\ cancel' = [cancel EXCEPT
                           !.items = CancelledItems,
                           !.abortee = running,
                           !.victim = IF running # None THEN running ELSE cancel.pinned]
          /\ UNCHANGED task
    /\ rewindable' = (rewindable /\ cancel.mode # "rewind")
    /\ pc' = "cancelGate"
    /\ UNCHANGED <<sendNow, pin, started, gateVars, envVars, buffer, completions, completing,
                   flushing, ghostVars>>

CancelGate ==
    /\ pc = "cancelGate"
    /\ goalGate' = FALSE
    /\ pc' = "cancelAbort"
    /\ UNCHANGED <<queueVars, turnVars, waitDepth, waiters, waited, envVars, buffer, actorVars,
                   ghostVars>>

CancelAbort ==
    /\ pc = "cancelAbort"
    /\ Abort(cancel.abortee)
    /\ waitDepth' = 0
    /\ pc' = "cancelEnd"
    /\ UNCHANGED <<queueVars, pin, started, goalGate, waiters, waited, envVars, buffer, actorVars,
                   ghostVars>>

\* A cancelled turn publishes its terminal, which also closes the rewind window;
\* a rewound one publishes nothing.
CancelPublishes == ~cancel.rewound /\ cancel.victim # None

\* Clear the pin whoever holds it, publish the terminal, answer the clients.
\* A send-now cancel then re-enables notification drains.
CancelEnd ==
    /\ pc = "cancelEnd"
    /\ pin' = None
    /\ terminals' = IF CancelPublishes THEN [terminals EXCEPT ![cancel.victim] = @ + 1]
                    ELSE terminals
    /\ rewindable' = (rewindable /\ ~CancelPublishes)
    /\ Answer(ToSet(cancel.items), IF cancel.rewound THEN "rewound" ELSE "cancelled")
    /\ suppressed' = (suppressed /\ cancel.mode # "send_now")
    /\ cancel' = NoCancel
    /\ pc' = "start"
    /\ UNCHANGED <<pending, sendNow, running, task, started, gateVars, envVars, buffer,
                   completions, completing, flushing>>

-----------------------------------------------------------------------------
(* The completion arm of the loop: handle_completion and what follows it.  *)

TakeCompletion ==
    /\ pc = "loop" /\ completions # <<>>
    /\ completing' = Head(completions)
    /\ completions' = Tail(completions)
    /\ Unpin(Head(completions))
    /\ pc' = IF pin' = None THEN "completionGate" ELSE "completionLock"
    /\ UNCHANGED <<queueVars, task, started, gateVars, envVars, buffer, flushing, cancel, ghostVars>>

\* became_idle: the goal turn is over.
CompletionGate ==
    /\ pc = "completionGate"
    /\ goalGate' = FALSE
    /\ pc' = "completionLock"
    /\ UNCHANGED <<queueVars, turnVars, waitDepth, waiters, waited, envVars, buffer, actorVars,
                   ghostVars>>

\* Only a completion that matches the front is owned; a stale one (its turn was
\* cancelled first) must leave the promoted turn's task alone.
CompletionOwned_AnyFront == pending # <<>>
CompletionOwned == FrontIs(pending, completing)

TaskAfterCompletion_Cleared == None
TaskAfterCompletion == IF running = completing \/ CompletionOwned THEN None ELSE running

CompletionLock ==
    /\ pc = "completionLock"
    /\ pending' = IF CompletionOwned THEN Tail(pending) ELSE pending
    /\ running' = TaskAfterCompletion
    /\ Answer(IF CompletionOwned THEN {completing} ELSE {}, "done")
    /\ terminals' = IF CompletionOwned THEN [terminals EXCEPT ![completing] = @ + 1]
                    ELSE terminals
    /\ rewindable' = (rewindable /\ ~CompletionOwned)
    /\ completing' = None
    /\ pc' = "turnEnd"
    /\ UNCHANGED <<sendNow, suppressed, turnVars, gateVars, envVars, buffer, completions,
                   flushing, cancel>>

\* handle_turn_end: an active goal may queue its next continuation, once.
TurnEnd ==
    /\ pc = "turnEnd"
    /\ pc' = "strand"
    /\ \/ UNCHANGED <<unsent, pending>>
       \/ \E g \in unsent \cap GoalPrompts :
             /\ ToSet(pending) \cap GoalPrompts = {}
             /\ unsent' = unsent \ {g}
             /\ pending' = Append(pending, g)
    /\ UNCHANGED <<sendNow, running, rewindable, suppressed, turnVars, gateVars, mcpPending,
                   planKick, buffer, actorVars, ghostVars>>

\* flush_stranded_interjections: drain the buffer, then re-queue its entries
\* last one first, each under a lock of its own.
Strand_Forgets ==
    /\ pc = "strand"
    /\ pc' = "startAfterTurn"
    /\ UNCHANGED <<queueVars, turnVars, gateVars, envVars, buffer, actorVars, ghostVars>>

Strand ==
    /\ pc = "strand"
    /\ flushing' = buffer
    /\ buffer' = <<>>
    /\ pc' = IF buffer = <<>> THEN "startAfterTurn" ELSE "flush"
    /\ UNCHANGED <<queueVars, turnVars, gateVars, envVars, completions, completing, cancel,
                   ghostVars>>

Flush ==
    LET i == flushing[Len(flushing)]
    IN  /\ pc = "flush"
        /\ flushing # <<>>
        /\ pending' = InsertFallback(pending, running, i)
        /\ sendNow' = sendNow \cup {i}
        /\ flushing' = SubSeq(flushing, 1, Len(flushing) - 1)
        /\ pc' = IF Len(flushing) = 1 THEN "startAfterTurn" ELSE "flush"
        /\ UNCHANGED <<running, rewindable, suppressed, turnVars, gateVars, envVars, buffer,
                       completions, completing, cancel, ghostVars>>

StartAfterTurn_Forgets ==
    /\ pc = "startAfterTurn"
    /\ pc' = "drain"
    /\ UNCHANGED <<queueVars, turnVars, gateVars, envVars, buffer, actorVars, ghostVars>>

StartAfterTurn ==
    /\ pc = "startAfterTurn"
    /\ StartFront
    /\ pc' = "drain"
    /\ UNCHANGED <<pending, sendNow, suppressed, gateVars, envVars, buffer, actorVars, ghostVars>>

\* is_session_idle_for_injection
IdleForInjection == running = None /\ pending = <<>> /\ ~suppressed

\* maybe_drain_notifications: an idle session turns buffered notifications into
\* one prompt.  Whether any are buffered is left open here.
Drain ==
    /\ pc = "drain"
    /\ \/ /\ pc' = "loop"
          /\ UNCHANGED <<unsent, pending>>
       \/ /\ IdleForInjection
          /\ \E d \in unsent \cap DrainPrompts :
                /\ unsent' = unsent \ {d}
                /\ pending' = Append(pending, d)
          /\ pc' = "start"
    /\ UNCHANGED <<sendNow, running, rewindable, suppressed, turnVars, gateVars, mcpPending,
                   planKick, buffer, actorVars, ghostVars>>

-----------------------------------------------------------------------------
(* The turn task.                                                          *)

Alive(id) == task[id] \in {"live", "ending"}

\* The first outbound update closes the rewind window.
TurnOutput(id) ==
    /\ Alive(id) /\ rewindable
    /\ rewindable' = FALSE
    /\ UNCHANGED <<pending, sendNow, running, suppressed, turnVars, gateVars, envVars, buffer, pc,
                   actorVars, ghostVars>>

\* drain_pending_interjections at a safe point of the turn.
TurnMergesInterjections(id) ==
    /\ task[id] = "live" /\ buffer # <<>>
    /\ buffer' = <<>>
    /\ Answer(ToSet(buffer), "merged")
    /\ UNCHANGED <<queueVars, turnVars, gateVars, envVars, pc, actorVars, terminals>>

\* Each round of the turn stores whether a goal is active.
TurnGoalRound(id) ==
    /\ task[id] = "live" /\ GoalPrompts # {}
    /\ goalGate' = ~goalGate
    /\ UNCHANGED <<queueVars, turnVars, waitDepth, waiters, waited, envVars, buffer, pc, actorVars,
                   ghostVars>>

\* BlockingWaitGuard::enter and its drop.  The tool future that owns the guard
\* may outlive an aborted turn.
TurnEntersWait(id) ==
    /\ task[id] = "live" /\ id \in Waiting \ waited
    /\ waitDepth' = waitDepth + 1
    /\ waiters' = waiters \cup {id}
    /\ waited' = waited \cup {id}
    /\ UNCHANGED <<queueVars, turnVars, goalGate, envVars, buffer, pc, actorVars, ghostVars>>

DropWaitGuard_Unguarded(id) ==
    /\ id \in waiters
    /\ waitDepth' = waitDepth - 1
    /\ waiters' = waiters \ {id}
    /\ UNCHANGED <<queueVars, turnVars, goalGate, waited, envVars, buffer, pc, actorVars,
                   ghostVars>>

DropWaitGuard(id) ==
    /\ id \in waiters
    /\ waitDepth' = IF waitDepth = 0 THEN 0 ELSE waitDepth - 1
    /\ waiters' = waiters \ {id}
    /\ UNCHANGED <<queueVars, turnVars, goalGate, waited, envVars, buffer, pc, actorVars,
                   ghostVars>>

\* drop_pending_items_for_consumed_completions: a tool result told the model of
\* the completion, so its queued auto-wake is dropped.
TurnConsumesCompletion(id, w) ==
    /\ task[id] = "live"
    /\ w \in WakePrompts \cap ToSet(pending)
    /\ pending' = Sweep(pending, running, {w})
    /\ Answer(ToSet(pending) \ ToSet(pending'), "dropped")
    /\ UNCHANGED <<sendNow, running, rewindable, suppressed, turnVars, gateVars, envVars, buffer,
                   pc, actorVars, terminals>>

\* The turn is over: its scope guard goes first, the completion is sent later.
TurnUnpins(id) ==
    /\ task[id] = "live" /\ id \notin waiters
    /\ task' = [task EXCEPT ![id] = "ending"]
    /\ Unpin(id)
    /\ UNCHANGED <<queueVars, started, gateVars, envVars, buffer, pc, actorVars, ghostVars>>

TurnFinishes(id) ==
    /\ task[id] = "ending"
    /\ task' = [task EXCEPT ![id] = "done"]
    /\ completions' = Append(completions, id)
    /\ UNCHANGED <<queueVars, pin, started, gateVars, envVars, buffer, pc, completing, flushing,
                   cancel, ghostVars>>

\* A slash command, or a prompt that fails to build, returns from handle_prompt
\* before the scope guard exists: only the completion clears the pin.
TurnReturnsEarly(id) ==
    /\ task[id] = "live" /\ id \notin waited
    /\ task' = [task EXCEPT ![id] = "done"]
    /\ completions' = Append(completions, id)
    /\ UNCHANGED <<queueVars, pin, started, gateVars, envVars, buffer, pc, completing, flushing,
                   cancel, ghostVars>>

\* The runtime drops an aborted future, and with it the scope guard.
DropAborted(id) ==
    /\ task[id] = "aborted"
    /\ task' = [task EXCEPT ![id] = "gone"]
    /\ Unpin(id)
    /\ UNCHANGED <<queueVars, started, gateVars, envVars, buffer, pc, actorVars, ghostVars>>

-----------------------------------------------------------------------------
(* Detached tasks that also start turns.                                   *)

McpInitialized ==
    /\ mcpPending /\ pc # "stopped"
    /\ mcpPending' = FALSE
    /\ StartFront
    /\ UNCHANGED <<pending, sendNow, suppressed, gateVars, unsent, planKick, buffer, pc, actorVars,
                   ghostVars>>

\* start_resume_turn: queue_input, then the kick.
PlanResume(p) ==
    /\ p \in unsent \cap PlanPrompts /\ pc # "stopped"
    /\ QueueInput(p, FALSE)
    /\ planKick' = planKick \cup {p}
    /\ UNCHANGED <<running, rewindable, suppressed, turnVars, gateVars, buffer, mcpPending, pc,
                   actorVars, terminals>>

PlanStart(p) ==
    /\ p \in planKick /\ pc # "stopped"
    /\ planKick' = planKick \ {p}
    /\ StartFront
    /\ UNCHANGED <<pending, sendNow, suppressed, gateVars, unsent, mcpPending, buffer, pc,
                   actorVars, ghostVars>>

-----------------------------------------------------------------------------
\* Nothing to do: the loop is parked in select!, or has returned.
Parked ==
    /\ \/ pc = "stopped"
       \/ AtSelect /\ running = None /\ pending = <<>> /\ buffer = <<>> /\ planKick = {}
    /\ UNCHANGED vars

\* The orders a client may ask for name prompts once each.
Orders == UNION {{s \in [1..n -> UserPrompts] : \A i, j \in 1..n : s[i] = s[j] => i = j}
                    : n \in 0..Cardinality(UserPrompts)}

Command ==
    \/ \E id \in Ids, requested \in BOOLEAN : Prompt(id, requested)
    \/ \E id \in UserPrompts, c \in Clients \cup {None} : RemoveQueued(id, c)
    \/ \E id \in UserPrompts, c \in Clients \cup {None} : InterjectQueued(id, c)
    \/ \E c \in Clients \cup {None} : ClearQueue(c)
    \/ \E order \in Orders : ReorderQueue(order)
    \/ \E i \in Interjections : Interject(i)
    \/ \E g \in GoalPrompts : GoalSummary(g)
    \/ \E mode \in CancelModes : CancelCommand(mode)
    \/ InjectNotification
    \/ Shutdown

\* Steps the actor takes by itself once a handler or a completion is in hand.
ActorStep ==
    \/ Start
    \/ CancelForSendNow \/ CancelLock \/ CancelGate \/ CancelAbort \/ CancelEnd
    \/ TakeCompletion \/ CompletionGate \/ CompletionLock \/ TurnEnd
    \/ Strand \/ Flush \/ StartAfterTurn \/ Drain

TurnStep(id) ==
    \/ TurnOutput(id) \/ TurnMergesInterjections(id) \/ TurnGoalRound(id)
    \/ TurnEntersWait(id) \/ DropWaitGuard(id)
    \/ \E w \in WakePrompts : TurnConsumesCompletion(id, w)
    \/ TurnUnpins(id) \/ TurnFinishes(id) \/ TurnReturnsEarly(id) \/ DropAborted(id)

DetachedStep == McpInitialized \/ \E p \in PlanPrompts : PlanResume(p) \/ PlanStart(p)

Next ==
    \/ Command
    \/ ActorStep
    \/ pc # "stopped" /\ \E id \in Ids : TurnStep(id)
    \/ DetachedStep
    \/ Parked

Spec == Init /\ [][Next]_vars

\* The actor's loop and the detached kicks are scheduled by the runtime.  That a
\* turn ends and drops its guards is an assumption about its environment: a model
\* stream, a tool or a permission prompt may take as long as it likes, but not
\* for ever.  Clients owe nothing.
Fairness ==
    /\ WF_vars(ActorStep)
    /\ \A id \in Ids : /\ WF_vars(DropWaitGuard(id)) /\ WF_vars(TurnUnpins(id))
                       /\ WF_vars(TurnFinishes(id))
    /\ \A p \in PlanPrompts : WF_vars(PlanStart(p))

FairSpec == Spec /\ Fairness

-----------------------------------------------------------------------------
(* Properties.                                                             *)

InCancel == pc \in {"cancelGate", "cancelAbort", "cancelEnd"}

\* The in-flight turn is always the front of the queue: cancel resolves index
\* 0, handle_completion pops the front, and every sweep, insertion, reorder and
\* clear must leave the running slot where it is.
FrontIsRunning == (running # None /\ pc # "stopped") => FrontIs(pending, running)

\* No prompt is ever run twice: a stale completion, or a kick of one of the
\* detached tasks, must not spawn a second turn for an item still queued.
NoDoubleRun == \A id \in Ids : started[id] <= 1

\* Where an item that was submitted is now.
Places(id) == {p \in {"queued", "held", "buffered", "flushing", "answered"} :
                  \/ p = "queued" /\ id \in ToSet(pending)
                  \/ p = "held" /\ id \in ToSet(cancel.items)
                  \/ p = "buffered" /\ id \in ToSet(buffer)
                  \/ p = "flushing" /\ id \in ToSet(flushing)
                  \/ p = "answered" /\ reply[id] # None}

\* Every submitted item is in exactly one place: queued once, held by a cancel
\* about to answer it, buffered or being flushed (an interjection), or answered.
\* An answered prompt is never still queued to run.
ExactlyOnePlace ==
    /\ \A id \in Ids \ unsent : Cardinality(Places(id)) = 1
    /\ \A id \in unsent : Places(id) = {}
    /\ \A i, j \in DOMAIN pending : pending[i] = pending[j] => i = j

\* A prompt a user typed is never dropped without its client being answered,
\* and an interjection is never lost: sweeps may only drop synthetic items.
UserTextNeverDropped == \A id \in UserPrompts \cup Interjections : reply[id] # "dropped"

\* A turn publishes one TurnCompleted, whether it completes, is cancelled or
\* does both at once; a rewound turn publishes none, nor does a prompt that
\* never ran.
OneTerminalPerTurn ==
    \A id \in Ids :
        /\ terminals[id] <= started[id]
        /\ terminals[id] <= 1
        /\ reply[id] = "rewound" => terminals[id] = 0
        /\ (AtSelect /\ started[id] > 0 /\ id # running /\ reply[id] # "rewound")
               => terminals[id] = 1

\* Interjections are only ever buffered for a turn that will drain or flush
\* them: with no turn in flight the buffer is empty.
NoStrandedInterjection == (pc = "loop" /\ running = None) => buffer = <<>>

\* The debug_assert of cancel_running_task: the pin it read before its awaits
\* cannot name another turn than the one it finds under the lock.
PinAgreesAtCancel ==
    pc = "cancelLock" => \/ cancel.pinned = None \/ running = None
                         \/ cancel.pinned = running

SendNowFirst ==
    \A i, j \in DOMAIN pending :
        (i < j /\ pending[j] \in sendNow /\ pending[i] # running) => pending[i] \in sendNow

\* A send-now prompt (queue_input, a promoted row, an interjection's fallback)
\* waits behind the running turn and other send-now prompts only; nothing but a
\* client's explicit reorder puts an ordinary prompt in front of one.
SendNowStaysFirst ==
    [][(SendNowFirst /\ ~ \E order \in Orders : ReorderQueue(order)) => SendNowFirst']_vars

\* The cancel that makes room for a send-now prompt never takes that prompt
\* with it: whatever the turn and the detached tasks did between queue_input and
\* the cancel's lock, the next prompt to run is a send-now one.
SendNowSurvivesItsCancel ==
    (InCancel /\ cancel.mode = "send_now") => pending # <<>> /\ Head(pending) \in sendNow

\* Once submitted, a prompt is eventually answered (or the session shut down),
\* whatever clients do meanwhile.
PromptsAnswered ==
    \A id \in UserPrompts : (id \in ToSet(pending)) ~> (reply[id] # None \/ pc = "stopped")

\* A buffered interjection eventually reaches a turn, becomes a prompt or is
\* cleared by a cancel.
InterjectionsLeaveBuffer ==
    \A i \in Interjections : (i \in ToSet(buffer)) ~> (i \notin ToSet(buffer) \/ pc = "stopped")

=============================================================================
