----------------------------- MODULE SessionNotify -----------------------------
(***************************************************************************)
(* How the model learns that a background task has finished, and what a    *)
(* monitor has printed.  Four paths tell it: the auto-wake prompt, the     *)
(* batch of notifications drained when the session is idle, the reminders  *)
(* of a tool call, and the reminders at the start of a turn.  The sets     *)
(* auto_wake_delivered and ReportedTaskCompletions keep them from telling  *)
(* it twice.                                                               *)
(*                                                                         *)
(* Two channels, both first in first out: from the terminal to the bridge, *)
(* from the bridge to the actor.  A handler of the actor is one step; the  *)
(* awaits inside a cancel are the subject of Session.  A turn and its tool *)
(* calls interleave with both.  Definitions named X_Y are mutations of X.  *)
(***************************************************************************)
EXTENDS PromptQueue

CONSTANTS
    Bash, Monitors,      \* background tasks
    Awaited,             \* the tasks the model may wait for or kill
    Events,              \* what the monitors print
    MonitorOf,           \* the monitor of each event
    Users,               \* user prompts
    AutoWake,            \* the settings of auto_wake_enabled to start with
    MaxNotes,            \* MAX_PENDING_NOTIFICATIONS
    MaxBuffer,           \* MAX_BUFFER_EVENTS
    MaxCancels,          \* bound: cancels
    MaxSent              \* bound: completions and events

Tasks == Bash \cup Monitors

ASSUME NotifyAssumption ==
    /\ Bash \cap Monitors = {} /\ Events \cap Tasks = {} /\ Users \cap (Tasks \cup Events) = {}
    /\ Awaited \subseteq Tasks /\ AutoWake \subseteq BOOLEAN
    /\ MonitorOf \in [Events -> Monitors]
    /\ MaxNotes \in Nat \ {0} /\ MaxBuffer \in Nat \ {0} /\ MaxCancels \in Nat /\ MaxSent \in Nat

VARIABLES
    autoWake,    \* NotificationBridgeConfig.auto_wake_enabled
    task,        \* task -> "running", "done" (list_tasks shows it completed)
    quiet,       \* completed tasks the model had waited for or killed
    toBridge,    \* tool notifications
    mailbox,     \* session commands of the bridge
    pending,     \* pending_inputs
    turn,        \* the running task: "none", "starting", "running", "over"
    pristine,    \* State::rewindable
    active,      \* is_turn_active
    ghost,       \* an aborted turn whose TurnActiveGuard has not dropped
    call,        \* the suppress list of a reminder pass under way, or NoCall
    delivered,   \* AutoWakeDeliveredIds
    reported,    \* ReportedTaskCompletions
    notes,       \* pending_notifications
    buffer,      \* monitor_event_buffer
    suppressed,  \* notifications_suppressed
    goal,        \* status of the goal: "none", "active", "complete"
    typed, cancels,   \* user prompts sent and cancels so far
    told,        \* history: the tasks and events the conversation speaks of
    inTurn,      \* history: those it speaks of behind the running turn's user item
    surfaced,    \* history: task -> how often a reminder has spoken of it
    gone,        \* history: id -> the step that dropped it untold, or ""
    rewound      \* history: a rewind has ended a turn and no drain has followed its guard's drop

taskVars == <<autoWake, task, quiet>>
turnVars == <<pending, turn, pristine, active, ghost>>
noteVars == <<notes, buffer, suppressed>>
setVars == <<delivered, reported>>
historyVars == <<told, inTurn, surfaced>>   \* and gone, see Ledger
vars == <<taskVars, toBridge, mailbox, turnVars, call, setVars, noteVars, goal, typed, cancels, historyVars, gone, rewound>>

Ids == Tasks \cup Events
NoCall == <<>>

\* A notification or a command is a kind and an id; a queue item a kind and the
\* ids it speaks of.
Msg(kind, id) == [kind |-> kind, id |-> id]
Item(kind, ids) == [kind |-> kind, ids |-> ids]
TaskOf(n) == IF n.kind = "event" THEN MonitorOf[n.id] ELSE n.id

Notes == [kind : {"event"}, id : Events] \cup [kind : {"done"}, id : Tasks]

TypeOK ==
    /\ autoWake \in BOOLEAN
    /\ task \in [Tasks -> {"running", "done"}] /\ quiet \subseteq Tasks
    /\ toBridge \in Seq(Notes)
    /\ mailbox \in Seq(Notes \cup [kind : {"wake", "drop"}, id : Tasks])
    /\ pending \in Seq([kind : {"user", "wake", "batch"}, ids : SUBSET (Ids \cup Users)])
    /\ turn \in {"none", "starting", "running", "over"} /\ (turn # "none" => pending # <<>>)
    /\ pristine \in BOOLEAN /\ active \in BOOLEAN /\ ghost \in BOOLEAN
    /\ call \in {NoCall} \cup [suppress : SUBSET Tasks, consumed : SUBSET Tasks]
    /\ delivered \subseteq Tasks /\ reported \subseteq Tasks
    /\ notes \in Seq(Notes)
    /\ buffer \in Seq(Events) /\ Len(buffer) <= MaxBuffer
    /\ suppressed \in BOOLEAN
    /\ goal \in {"none", "active", "complete"}
    /\ typed \subseteq Users /\ cancels \in 0..MaxCancels
    /\ told \subseteq Ids /\ inTurn \subseteq told /\ surfaced \in [Tasks -> 0..2]
    /\ gone \in [Ids -> {"", "goal", "bridge", "actor", "preempted", "cancelled", "rewound", "consumed"}]
    /\ rewound \in BOOLEAN

Init ==
    /\ autoWake \in AutoWake
    /\ task = [k \in Tasks |-> "running"] /\ quiet = {}
    /\ toBridge = <<>> /\ mailbox = <<>> /\ pending = <<>>
    /\ turn = "none" /\ pristine = FALSE /\ active = FALSE /\ ghost = FALSE
    /\ call = NoCall
    /\ delivered = {} /\ reported = {}
    /\ notes = <<>> /\ buffer = <<>> /\ suppressed = FALSE
    /\ goal = "none" /\ typed = {} /\ cancels = 0
    /\ told = {} /\ inTurn = {} /\ surfaced = [k \in Tasks |-> 0]
    /\ gone = [i \in Ids |-> ""] /\ rewound = FALSE

-----------------------------------------------------------------------------
\* On its way to the conversation by itself: in a channel, a queue or a buffer.
InFlight(i) ==
    \/ \E n \in 1..Len(toBridge) : toBridge[n].id = i
    \/ \E n \in 1..Len(mailbox) : mailbox[n].id = i /\ mailbox[n].kind # "drop"
    \/ \E n \in 1..Len(notes) : notes[n].id = i
    \/ \E n \in 1..Len(buffer) : buffer[n] = i
    \/ \E n \in 1..Len(pending) : i \in pending[n].ids

\* The history of a step: which ids it dropped, and why.
Ledger(why) ==
    gone' = [i \in Ids |-> IF InFlight(i) /\ ~InFlight(i)' /\ i \notin told'
                           THEN why ELSE gone[i]]

ByCancel(rewind) == IF rewind /\ pristine THEN "rewound" ELSE "cancelled"

ByGoalOr(why) == IF goal = "none" THEN why ELSE "goal"

-----------------------------------------------------------------------------
(* The terminal and the bridge.                                            *)

Done == {k \in Tasks : task[k] = "done"}

Printed == {e \in Events : InFlight(e) \/ e \in told \/ gone[e] # ""}

MaySend == Cardinality(Done \cup Printed) < MaxSent

\* The pipeline of a monitor forwards its lines on its own, after its exit too.
MonitorPrints(e) ==
    /\ e \notin Printed /\ MaySend
    /\ toBridge' = Append(toBridge, Msg("event", e))
    /\ UNCHANGED <<taskVars, mailbox, turnVars, call, setVars, noteVars, goal, typed, cancels, historyVars>>

Complete(k, q) ==
    /\ task[k] = "running" /\ MaySend /\ (q => k \in Awaited)
    /\ task' = [task EXCEPT ![k] = "done"]
    /\ quiet' = IF q THEN quiet \cup {k} ELSE quiet
    /\ toBridge' = Append(toBridge, Msg("done", k))
    /\ UNCHANGED <<autoWake, mailbox, turnVars, call, setVars, noteVars, goal, typed, cancels, historyVars>>

\* ToolNotification::TaskCompleted.
Wakes(k) == IF k \in Monitors THEN <<Msg("drop", k), Msg("wake", k)>> ELSE <<Msg("wake", k)>>

BridgeDone(k) ==
    \/ (k \in quiet \/ goal = "active") /\ UNCHANGED <<mailbox, delivered>>
    \/ /\ k \notin quiet /\ goal # "active" /\ autoWake
       /\ delivered' = delivered \cup {k}
       /\ mailbox' = mailbox \o Wakes(k)
    \/ /\ k \notin quiet /\ goal # "active" /\ ~autoWake
       /\ mailbox' = Append(mailbox, Msg("done", k))
       /\ UNCHANGED delivered

\* ToolNotification::MonitorEvent: not after the monitor's own wake.
BridgeEvent(e) ==
    /\ mailbox' = IF MonitorOf[e] \in delivered THEN mailbox ELSE Append(mailbox, Msg("event", e))
    /\ UNCHANGED delivered

Bridge ==
    /\ toBridge # <<>>
    /\ toBridge' = Tail(toBridge)
    /\ LET n == Head(toBridge)
       IN  \/ n.kind = "done" /\ BridgeDone(n.id)
           \/ n.kind = "event" /\ BridgeEvent(n.id)
    /\ UNCHANGED <<taskVars, turnVars, call, reported, noteVars, goal, typed, cancels, historyVars>>

-----------------------------------------------------------------------------
(* The actor.                                                              *)

\* maybe_start_running_task on the queue q, with t the running task so far.
Start(q, t) ==
    /\ pending' = q
    /\ turn' = IF t = "none" /\ q # <<>> THEN "starting" ELSE t
    /\ pristine' = IF t = "none" /\ q # <<>> THEN TRUE ELSE pristine

\* The notifications n, the oldest above the cap dropped.
Capped(n) == IF Len(n) > MaxNotes THEN SubSeq(n, 1 + Len(n) - MaxNotes, Len(n)) ELSE n

\* MonitorEventBuffer::push_capped: the oldest event makes room.
PushCapped(b, e) == Append(IF Len(b) < MaxBuffer THEN b ELSE Tail(b), e)

\* What drain_owned leaves in the buffer.
DrainOwned_Copies == buffer

DrainOwned == <<>>

\* sweep_monitor_buffer_into_pending: there is no cap here.
Swept(n, b) == n \o [i \in 1..Len(b) |-> Msg("event", b[i])]

\* maybe_drain_notifications, with the notifications n, the buffer b, the queue q
\* and t the running task.
DrainAll(all, b) ==
    /\ notes' = <<>> /\ buffer' = b
    /\ reported' = reported \cup {TaskOf(all[i]) : i \in 1..Len(all)}
    /\ rewound' = (rewound /\ active)
    /\ Start(IF all = <<>> \/ goal # "none" THEN <<>>
             ELSE <<Item("batch", {all[i].id : i \in 1..Len(all)})>>, "none")

Idle(q, t) == t = "none" /\ q = <<>> /\ ~suppressed

Stay(q, t, n, b) ==
    /\ notes' = n /\ buffer' = b /\ Start(q, t)
    /\ UNCHANGED <<reported, rewound>>

Drain_NoBackstop(q, t, n, b) == IF Idle(q, t) THEN DrainAll(n, b) ELSE Stay(q, t, n, b)

Drain(q, t, n, b) == IF Idle(q, t) THEN DrainAll(Swept(n, b), <<>>) ELSE Stay(q, t, n, b)

\* SessionCommand::Prompt of an auto-wake: marked as reported, then queued.
HandleWake(k) ==
    /\ reported' = reported \cup {k}
    /\ Start(Append(pending, Item("wake", {k})), turn)
    /\ UNCHANGED <<notes, buffer, rewound>>

\* SessionCommand::DropMonitorNotifications.
HandleDrop(k) ==
    /\ notes' = Kept(notes, {n \in Notes : n.kind = "event" => MonitorOf[n.id] # k})
    /\ buffer' = Kept(buffer, {e \in Events : MonitorOf[e] # k})
    /\ UNCHANGED <<pending, turn, pristine, reported, rewound>>

\* SessionCommand::InjectNotification: events of a running turn go to its buffer.
HandleInject(n) ==
    \/ /\ active /\ n.kind = "event"
       /\ buffer' = PushCapped(buffer, n.id)
       /\ UNCHANGED <<pending, turn, pristine, notes, reported, rewound>>
    \/ /\ ~(active /\ n.kind = "event")
       /\ Drain(pending, turn, Capped(Append(notes, n)), buffer)

Handle ==
    /\ mailbox # <<>>
    /\ mailbox' = Tail(mailbox)
    /\ LET c == Head(mailbox)
       IN  \/ c.kind = "wake" /\ HandleWake(c.id)
           \/ c.kind = "drop" /\ HandleDrop(c.id)
           \/ c.kind \in {"event", "done"} /\ HandleInject(c)
    /\ UNCHANGED <<taskVars, toBridge, active, ghost, call, delivered, suppressed, goal, typed, cancels,
                   historyVars>>

\* The running turn's own slot, and what is queued behind it.
Slot == IF turn = "none" THEN 0 ELSE 1
Queued == SubSeq(pending, Slot + 1, Len(pending))
RunningSlot == SubSeq(pending, 1, Slot)

WakesIn(q) == UNION {q[i].ids : i \in {j \in 1..Len(q) : q[j].kind = "wake"}}

\* The delivered set without the wakes that will not run.
Unmarked_Keeps(wakes) == delivered

Unmarked(wakes) == delivered \ wakes

\* What a cancel that takes the first cut items leaves: a rewind un-marks nothing.
UnmarkedByCancel_Keeps(pops, cut) == delivered

UnmarkedByCancel(pops, cut) ==
    IF pops THEN delivered ELSE Unmarked(WakesIn(SubSeq(pending, 1, cut)))

\* queue_input of a user prompt: a queued auto-wake arms the sweep of all
\* queued synthetic items, and its id is taken back from the delivered set.
UserPrompt(u) ==
    /\ u \notin typed /\ typed' = typed \cup {u}
    /\ suppressed' = FALSE
    /\ LET armed == WakesIn(Queued) # {}
           kept == IF armed THEN Kept(Queued, {i \in ToSet(Queued) : i.kind = "user"}) ELSE Queued
       IN  /\ delivered' = Unmarked(WakesIn(Queued))
           /\ Start(RunningSlot \o Append(kept, Item("user", {u})), turn)
    /\ UNCHANGED <<taskVars, toBridge, mailbox, active, ghost, call, reported, notes, buffer,
                   goal, cancels, historyVars>>

\* The turn's task is aborted: its guard drops when the runtime gets to it.
Abort ==
    /\ ghost' = (ghost \/ (turn = "running" /\ active))
    /\ call' = NoCall
    /\ inTurn' = {}
    /\ UNCHANGED active

\* SessionCommand::Cancel.  A rewind takes the conversation back to before the
\* turn's user item and returns; any other cancel resolves the front item, or all.
Cancel(kill, rewind) ==
    /\ cancels < MaxCancels /\ cancels' = cancels + 1
    /\ notes' = IF kill THEN <<>> ELSE Swept(notes, buffer)
    /\ buffer' = DrainOwned
    /\ LET pops == rewind /\ pristine
           cut == IF kill /\ ~pops THEN Len(pending) ELSE IF pending = <<>> THEN 0 ELSE 1
           rest == SubSeq(pending, cut + 1, Len(pending))
       IN  /\ suppressed' = ~pops
           /\ delivered' = UnmarkedByCancel(pops, cut)
           /\ rewound' = (rewound \/ pops)
           /\ told' = IF pops THEN told \ inTurn ELSE told
           /\ pending' = rest
           /\ turn' = IF rest # <<>> THEN "starting" ELSE "none"
           /\ pristine' = (rest # <<>>)
    /\ Abort
    /\ goal' = IF goal = "active" THEN "none" ELSE goal
    /\ UNCHANGED <<taskVars, toBridge, mailbox, reported, typed, surfaced>>

\* The completion arm of the loop: pop the front, sweep, start or drain.
HandleCompletion ==
    /\ turn = "over"
    /\ Drain(Tail(pending), "none", Swept(notes, buffer), DrainOwned)
    /\ inTurn' = {}
    /\ UNCHANGED <<taskVars, toBridge, mailbox, active, ghost, call, delivered, suppressed, goal,
                   typed, cancels, told, surfaced>>

-----------------------------------------------------------------------------
(* The turn.                                                               *)

\* Reminders about the tasks in S.
Surface(S) == surfaced' = [k \in Tasks |-> IF k \in S THEN surfaced[k] + 1 ELSE surfaced[k]]

\* handle_prompt: drain_between_turn_completions, then the prompt itself.
NewlyReported_All == Done \cap Bash

NewlyReported == (Done \cap Bash) \ reported

TurnBegins ==
    /\ turn = "starting"
    /\ turn' = "running" /\ active' = TRUE
    /\ reported' = reported \cup NewlyReported
    /\ LET shown == IF goal = "active" THEN {} ELSE NewlyReported
       IN  /\ Surface(shown)
           /\ told' = told \cup shown \cup (pending[1].ids \cap Ids)
    /\ inTurn' = pending[1].ids \cap Ids
    /\ UNCHANGED <<taskVars, toBridge, mailbox, pending, pristine, ghost, call, delivered,
                   noteVars, goal, typed, cancels>>

\* inject_pending_monitor_events, before each request to the model.
TurnInjects ==
    /\ turn = "running" /\ buffer # <<>>
    /\ told' = told \cup ToSet(buffer)
    /\ inTurn' = inTurn \cup ToSet(buffer)
    /\ buffer' = DrainOwned
    /\ UNCHANGED <<taskVars, toBridge, mailbox, turnVars, call, setVars, notes, suppressed, goal,
                   typed, cancels, surfaced>>

\* A tool call, whose result may be the output of a completed task.  Its
\* reminders first drain the delivered set, ...
ToolCall(consumed) ==
    /\ turn = "running" /\ call = NoCall
    /\ consumed \subseteq Done
    /\ pristine' = FALSE
    /\ call' = [suppress |-> delivered \cup consumed, consumed |-> consumed]
    /\ delivered' = {}
    /\ UNCHANGED <<taskVars, toBridge, mailbox, pending, turn, active, ghost, reported, noteVars,
                   goal, typed, cancels, historyVars>>

\* drop_pending_items: what the result has told leaves the queue and the notes.
Unconsumed_AnyWake(q, seen) == Kept(q, {i \in ToSet(q) : i.kind # "wake"})

Unconsumed(q, seen) == Kept(q, {i \in ToSet(q) : ~(i.kind = "wake" /\ i.ids \subseteq seen)})

\* ... then list the tasks.
ToolResult ==
    /\ turn = "running" /\ call # NoCall
    /\ LET new == Done \ (reported \cup call.suppress)
           shown == IF goal = "active" THEN {} ELSE new
       IN  /\ reported' = reported \cup call.suppress \cup new
           /\ Surface(shown)
           /\ told' = told \cup shown \cup call.consumed
    /\ pending' = RunningSlot \o Unconsumed(Queued, call.consumed)
    /\ notes' = Kept(notes, {n \in Notes : TaskOf(n) \notin call.consumed})
    /\ call' = NoCall
    /\ UNCHANGED <<taskVars, toBridge, mailbox, turn, pristine, active, ghost, delivered, buffer,
                   suppressed, goal, typed, cancels, inTurn>>

TurnEnds ==
    /\ turn = "running" /\ call = NoCall
    /\ turn' = "over" /\ active' = FALSE /\ pristine' = FALSE
    /\ UNCHANGED <<taskVars, toBridge, mailbox, pending, ghost, call, setVars, noteVars, goal,
                   typed, cancels, historyVars>>

\* The guard of an aborted turn drops, possibly into the next turn.
GhostDrops ==
    /\ ghost /\ ghost' = FALSE /\ active' = FALSE
    /\ UNCHANGED <<taskVars, toBridge, mailbox, pending, turn, pristine, call, setVars, noteVars,
                   goal, typed, cancels, historyVars>>

GoalChanges ==
    /\ turn = "running"
    /\ \/ goal = "none" /\ goal' = "active"
       \/ goal = "active" /\ goal' \in {"none", "complete"}
    /\ UNCHANGED <<taskVars, toBridge, mailbox, turnVars, call, setVars, noteVars, typed, cancels,
                   historyVars>>

Next ==
    \/ /\ \/ Bridge /\ Ledger(ByGoalOr("bridge"))
          \/ \E u \in Users : UserPrompt(u) /\ Ledger("preempted")
          \/ ToolResult /\ Ledger("consumed")
       /\ UNCHANGED rewound
    \/ Handle /\ Ledger(ByGoalOr("actor"))
    \/ \E kill, rewind \in BOOLEAN : Cancel(kill, rewind) /\ Ledger(ByCancel(rewind))
    \/ HandleCompletion /\ Ledger(ByGoalOr("actor"))
    \/ /\ \/ \E e \in Events : MonitorPrints(e)
          \/ \E k \in Tasks, q \in BOOLEAN : Complete(k, q)
          \/ \E consumed \in SUBSET Tasks : ToolCall(consumed)
          \/ TurnBegins \/ TurnInjects \/ TurnEnds \/ GhostDrops \/ GoalChanges
       /\ UNCHANGED <<gone, rewound>>

Spec == Init /\ [][Next]_vars

-----------------------------------------------------------------------------
(* Properties.                                                             *)

\* A reminder speaks of a completion at most once, whether a tool call or the
\* start of a turn finds it first, and whatever the bridge does meanwhile
\* (ReportedTaskCompletions).
SurfacedOnce == \A k \in Tasks : surfaced[k] <= 1

\* No path is left that would tell the model of k.
Lost(k) ==
    /\ task[k] = "done" /\ k \notin quiet \cup told
    /\ ~InFlight(k) /\ k \in reported
    /\ call = NoCall \/ k \notin call.consumed

\* A completion is silenced for good only where the code drops it knowingly: the
\* goal loop suppresses it, a preemption, a cancel or a rewind takes its wake, or
\* it was the oldest above the cap.  A consumed result of another task never does it
\* (drop_pending_items).
LossHasCause ==
    \A k \in Tasks : Lost(k) => gone[k] \in {"goal", "preempted", "cancelled", "rewound", "actor"}

\* The completion of a background task whose auto-wake was preempted or cancelled
\* is told to the model, or can still be (the comments of queue_input and
\* cancel_running_task).
NoReportLost == \A k \in Tasks : ~(Lost(k) /\ gone[k] \in {"preempted", "cancelled"})

\* The delivered set never silences a completion whose wake is not on its way:
\* a preemption and a cancel that take a queued wake also un-mark it (queue_input,
\* cancel_running_task).  Only a rewind does not: it pops the front item and
\* returns before the un-marking.
DeliveredHasWake ==
    \A k \in delivered : InFlight(k) \/ k \in told \/ gone[k] = "rewound"

\* At most one channel, queue or buffer holds i.
Places(i) ==
    LET In(s) == Cardinality({n \in 1..Len(s) : s[n].id = i /\ s[n].kind # "drop"})
    IN  In(toBridge) + In(mailbox) + In(notes)
           + Cardinality({n \in 1..Len(buffer) : buffer[n] = i})
           + Cardinality({n \in 1..Len(pending) : i \in pending[n].ids}) <= 1

\* A completion or an event is on its way along one path only, and an event the
\* conversation has is on none but the running turn's own item: moving the
\* buffer into the notifications at turn end, at a cancel and before an idle
\* drain never tells it twice (sweep_monitor_buffer_into_pending).
OnePath ==
    /\ \A i \in Ids : Places(i)
    /\ \A e \in Events \cap told : InFlight(e) => turn # "none" /\ e \in pending[1].ids

\* An idle session that is not suppressed holds no notification back, in either
\* buffer, although is_turn_active can lag the turn (maybe_drain_notifications).
\* After a rewind they wait for the next event: nothing drains there, nor when the
\* rewound turn's guard drops.
IdleIsDrained == Idle(pending, turn) /\ ~rewound => notes = <<>> /\ buffer = <<>>
=============================================================================
