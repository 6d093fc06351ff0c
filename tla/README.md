# Verification of the doit session runtime

`doit` is a coding-agent harness in Rust. A terminal client (or several, through a leader
process) talks to a *session*; the session owns a queue of prompts and runs one *turn* at a
time: build the prompt, sample the model, run tools, publish updates. Beside it run the pieces
it stands on: the sampler that talks to the model, the credentials that are refreshed by every
process of a machine, the queue that uploads traces, the breaker that protects the storage
service. This directory holds TLA+ models of the parts of that runtime whose correctness
depends on ordering, TLC configurations that check them on small instances, and TLAPS proofs
of every safety property the passing runs check: of the scheduler, the notifications, the
sampler, authentication, the breaker, the upload queue and the pager.

Paths below are relative to `src/crates/codegen/xai-grok-shell/src/session/` unless they
start with `src/` or name another crate.

## Inventory

| part | state | operations | hard behaviour | modelled |
|---|---|---|---|---|
| Turn scheduler (`acp_session.rs`, `acp_session_impl/{run_loop,prompt_queue,tasks_cancel,turn_end,notification_drain,interjection}.rs`) | `State` (queue, running task, rewind window, suppression), `current_prompt_id`, interjection buffer, completion channel | commands of the mailbox, turn completion, cancel in four modes, detached kicks | handlers await without the lock; the turn ends concurrently; identity is kept twice | `PromptQueue`, `Session` |
| Notifications and auto-wake (`notification_drain.rs`, `reminders.rs`, `tools/notification_bridge.rs`) | monitor buffer, pending notifications, delivered and reported sets | inject, sweep, drain, wake, remind, suppress | a completion is told to the model by one of five paths, each with its own mark | `SessionNotify` |
| Sampler (crate `xai-grok-sampler`) | active map, channel, per-request retry state | submit, submit and collect, cancel, update config, retry, recover from a doom loop | reused request ids, two retry budgets, panics, a caller that gives up | `Sampler`, `RequestLifecycle` |
| Authentication (`auth/manager.rs`, `auth/manager/lock.rs`, `enrichment.rs`, `flow.rs`) | `auth.json`, the lock file, a credential and a verdict per process, the sleep gate | acquire, refresh, enrich, start up, log out, suspend | several processes, stale locks, rotation of a single-use token, suspend, lost answers | `AuthLock`, `AuthRefresh` |
| Upload queue (`queue.rs` of crate `xai-file-utils`, `recovery.rs` of `xai-grok-workspace`) | temp files, sidecars, counters, slots, in-flight set, breaker | six enqueue operations, worker, uploads, drain, recovery, sweep | crash between any two steps, counters that gate every later call | `UploadQueue` |
| Circuit breaker (crate `xai-circuit-breaker`) | breaker state, window, probe slot | check, record | independent atomics, outcomes that arrive late or never | `CircuitBreaker` |
| Shared prompt queue (`prompt_queue.rs`, `xai-grok-pager`) | versions, owners, broadcast snapshots, each client's mirror | edit, remove, reorder, clear, promote | stale versions, lost answers, adoption of another client's turn | `ClientTurns`; queue effects in `Session` |
| Turn execution (`turn.rs`, `tool_calls.rs`) | scope guard, wait guards, goal gate | output, tool calls, interjection merge | guards outlive an aborted turn | the steps that touch the scheduler |
| Goal loop (`goal.rs`, `goal_support.rs`) | goal status, gate | continuation, summary turn | the gate protects a turn from send-now | gate and prompts in `Session` |
| Chat state, leader, subagents, hub SDK | see `PROJECT.json` | | attach/detach, persistence order | later |
| Rest of the terminal UI, tools, file formats, packaging | | | mostly rendering and I/O | no |

How they meet: clients send commands to the actor's mailbox; the actor spawns the turn as a
task on the same `LocalSet`; the turn reports through the completion channel and through
shared cells (the pin, the gate, the wait depth, the interjection buffer). Background tasks
report through the notification bridge, which wakes an idle session with a synthetic prompt or
leaves the news for the next reminder. Two detached tasks (MCP initialisation, plan-approval
resume) start turns themselves, beside the actor. A turn calls the sampler actor, which asks
the auth manager for a bearer; the end of a turn hands traces to the upload queue, whose worker
asks a circuit breaker.

What makes the parts correct:

* scheduler - one turn at a time, the running turn at the front of the queue, every submitted
  prompt answered exactly once, nothing a user typed lost, one terminal per turn, no prompt
  left waiting behind nothing;
* notifications - a completion is told to the model once, and what is not told has a cause;
* sampler - one terminal event and one answer per submission, retries within two separate
  budgets, a running request cancellable until a later submission of its id overtakes it;
* authentication - a refresh token is spent by one process at a time, the token family is not
  revoked, the newest credential is not overwritten, a verdict is about a dead credential;
* upload queue - an accepted artifact survives until it is settled and does not come back
  afterwards, counters are exact, the worker never stands still behind its own slots;
* clients - what a pager shows comes out as the shell has it, whatever order the rails deliver in;
* breaker - the window's count is exact, and calls are shed only shortly after a trip or a probe:
  neither overlapping stores nor lost probes make it shed for good.

The hazards, each at its line and with the properties that watch it, are in `PROJECT.json`.

## Modules

* **`PromptQueue`** - what the handlers do to `State::pending_inputs`, as operators on
  sequences of prompt ids: the guarded sweep, the send-now insertion, the interjection
  fallback, the reorder. Origin, owner and the `send_now` flag of an item are sets and
  functions over ids, so an item is its id. `Kept`, the one way these handlers rebuild a queue,
  also serves `SessionNotify` and `ClientTurns`.
* **`Session`** - the actor, the turn tasks and the detached kicks. `pc` is the place where
  the actor is parked: `loop` is the `select!`, the others are the awaits inside
  `cancel_running_task`, `handle_completion` and the tail of the completion arm. An action is
  the code between two awaits at which another task can change what the handler uses.
* **`SessionNotify`** - the news of background work: the bridge's two channels, the mid-turn
  monitor buffer, the notification buffer and its cap, the delivered and reported sets, the
  reminder pass with its await in the middle, wakes, preemption, cancel and rewind. The
  scheduler is reduced to what these paths read of it.
* **`RequestLifecycle`** - what the sampler promises about one submission: accepted, attempts,
  one terminal event, at most one answer, retries within the transport and doom budgets.
* **`Sampler`** - the actor that keeps that promise: its channel and active map, one task per
  request with the steps of an attempt, the join of finished and panicked tasks, the collecting
  call and its drop guard. `KeepsPromise` instantiates `RequestLifecycle` with a refinement
  mapping per submission.
* **`AuthLock`** - the advisory lock: a path, inodes, `flock` owners, the `PID:TIMESTAMP` text,
  the staleness test, the unlink, `still_live`. An action per system call; the write of the text
  may fail and the lock is held all the same.
* **`AuthRefresh`** - composes the lock with the processes that use it: the refresh chain from
  the gate check to the persisted credential, verdicts, enrichment, the startup flow, logout,
  the power listener, and the provider (external: it rotates a single-use refresh token and
  revokes the family on reuse).
* **`UploadQueue`** - disk, channel, counters, slots, the worker with its breaker, the upload
  tasks, drain, dropped handles, crash, the recovery scan and the sweep of old pairs. `Detached`
  chooses the start-up order: the workspace scans and sweeps before it takes calls
  (`handle.rs:3825-3860` of `xai-grok-workspace`), the shell beside them
  (`xai-grok-shell/src/upload/trace.rs:1200-1231`).
* **`CircuitBreaker`** - threads that call `check()`, have a request in flight, and call
  `record()` or are cancelled. A step is one atomic operation, one clock read or one hold of
  the window's mutex.
* **`ClientTurns`** - one pager that shares a session with other clients: its mirror of the
  queue, the prompt it shows as running, the stashed hand-over to the next one, and the shell
  reduced to what the wire shows. Three rails carry the shell's words: ext notifications
  (`queue/changed`, `TurnCompleted`, `prompt_complete`), `session/update` deltas, and the
  responses. The first two race each other; a response overtakes no notification (the pager's
  loop polls them first) but may be handled late, or be lost.
* **`MC...`** - instances for TLC. `PromptQueueLoops` holds the reference definitions of the
  queue operators, written as the code's loops.
* **`PromptQueueProofs`, `SessionProofs`, `SessionNotifyProofs`, `SamplerProofs`,
  `CircuitBreakerProofs`, `UploadQueueProofs`, `AuthRefreshProofs`, `ClientTurnsProofs`** - the
  theorems (see Proofs).

State of `Session` against the code:

| variable | code |
|---|---|
| `pending`, `running`, `rewindable`, `suppressed` | `State::pending_inputs`, `running_task.prompt_id`, `rewindable`, `notifications_suppressed` |
| `sendNow` | items whose `InputItem::send_now` is set |
| `pin` | `current_prompt_id` |
| `task` | the spawned future: running under its scope guard, past it, finished, aborted, dropped |
| `goalGate`, `waitDepth`, `waiters` | `goal_loop_active_gate`, `blocking_wait_depth`, live `BlockingWaitGuard`s |
| `buffer` | `pending_interjections` |
| `completions` | the completion channel |
| `cancel`, `completing`, `flushing` | locals of the handler the actor is in |
| `reply`, `started`, `terminals` | history: how `respond_to` was resolved, turns spawned, `TurnCompleted` published |

Actions: one per mailbox command that changes scheduling (`Prompt`, `RemoveQueued`,
`ClearQueue`, `ReorderQueue`, `InterjectQueued`, `Interject`, `GoalSummary`,
`InjectNotification`, `CancelCommand`, `Shutdown`), the steps of the cancel
(`CancelLock` ... `CancelEnd`), the steps of a completion (`TakeCompletion` ... `Drain`), the
steps of a turn, and the detached kicks. A stale queue version or a foreign owner makes a
queue command a no-op in the code; those calls are the stuttering steps of the model.

In the other modules each variable carries the name of its field, or a comment that gives it;
`map` in `PROJECT.json` has the lines of every definition.

### Abstractions

`Session`. Prompt ids are unique (clients generate them). Content, usage, telemetry, hooks and
persistence are left out. Awaits before the state lock that only *delay* a handler (waiting for
the prefix, writing prompt history) are merged with it: what another task does meanwhile is a
step the model can take just before. The cancel flags are used in four combinations, one
`CancelModes` element each. A turn waits in an interruptible tool at most once (`waited`) and a
client's reorder names a prompt at most once. After `Shutdown` the session is frozen. A turn
that panics never sends its completion; that is listed as a hazard and not modelled.

`SessionNotify`. Texts are left out; `goal_turn_task_ids` and send-now do not touch the marks
the properties are about and are left out too.

`Sampler`. The stream's chunks, the lengths of backoffs and the HTTP/1.1 fallback client carry
no control of the request's life. Every class of error an attempt can end with is a choice of
the environment.

`AuthRefresh`. Interactive logins, the device-code and external-command refreshers and the
devbox login are left out. A credential is its generation and whether its access token has
expired; ages of lock files are a flag.

`UploadQueue`. Sizes are 1 for a temp file and 0 or 2 for a snapshot, which puts both sides of the
byte budget in reach; there is one content-addressed object; a reply is absent, waiting or
answered; an age is a flag, and files age in every phase; a backoff is no step of its own. A failed
write leaves a part of the file (`torn`), which has no owner. What a call or a settlement does to
temp, sidecar, counters and channel is one step, and a crash may cut it anywhere: `Crash` also
starts from the middle of `Send`, of the removal of a pair and of the recovery's deletes. A place
in the channel that is granted at the moment its caller is aborted counts as refused. A crash may
tear a temp file that was not synced. One process per home. The byte semaphore of inline uploads,
compression and the purge on opt-out are left out.

`ClientTurns`. A row is its id and version; an edited row has a text of its own, so only unedited
twins have equal texts. Replay on attach and reconnect, bash and compact rows, send-now, owner
tests and the paywall exits of `handle_prompt_response` are left out. Key input that delays a
notification behind a response is not modelled.

`CircuitBreaker`. `state`, `opened`, `probes`, `claimed` and `fast` are the atomics `state`,
`opened_at_millis`, `half_open_probes`, `probe_claimed_at_millis` and `is_open_fast`; `window` is
the `SlidingWindow`; `now`, `seen` and `failed` are the locals of a call; `probeAt` and `cause`
(the time of the last trip or admitted probe) are history. The type is `Sync`, shared between
clones and called from a multi-threaded runtime, so the steps of all threads interleave. Memory is
sequentially consistent in the model: what it reaches the code reaches, but reorderings that
Acquire/Release would allow on top are not explored. Left out: `enabled = false`, observers, the
`retry_after` hints, the test hook `force_half_open`.

## Runs

Every passing run explores its whole state space, with deadlock checking except where the
system really may stop (all ids used, all processes done).

| run | instance | what it shows |
|---|---|---|
| `session_queue` | two users' prompts, one interjection, all commands and cancel modes; fairness | front slot, single run, exactly one place per item, one terminal per turn, prompts are answered and interjections leave the buffer |
| `session_mixed` | two users' prompts and an auto-wake; or a prompt whose turn waits and an interjection, with a goal turn, a plan resume or a notification turn; the MCP kick (the plan resume brings its own) | the wait depth keeps its range, no interjection is stranded, the pin a cancel read still agrees under the lock, sweeps spare what a user typed, the cancel made for a send-now prompt never takes it, only a reorder puts an ordinary prompt in front of one |
| `client_turns` | a plain and an image prompt, another client's prompt with the same text, a wake; two accepted, one command, one lost response | the rows on screen converge to the shell's queue, no finished turn of the pager's own stays on screen unless its response was lost and its announced end missed, typed order is kept; also evaluates the assumptions of `PromptQueueLoops` (every queue of up to four of five ids) |
| `breaker` | two threads | the incremental failure count is exact; a check is refused only within `open_duration` of a trip or an admitted probe, through overlapping stores, lost probes and late outcomes |
| `auth_refresh` | two processes, two starts in all, one fault of any kind | spending is exclusive, the token family and the newest credential survive, sticky verdicts are about dead credentials, an acknowledged suspend is drained |
| `notify` | one background command, one monitor with two events, one user prompt, one cancel; auto-wake on or off | a completion is reminded of once, silence has a cause, a delivered mark has a wake unless a rewind took the running one, news is in one buffer, an idle session keeps nothing back |
| `sampler` | two submissions of one id | refinement of `RequestLifecycle`; only a panicked task leaves an entry behind; a running request is cancellable until a later submission of its id overtakes it; every submission closes if servers answer |
| `upload_queue` | the workspace's order; two calls, one place, one slot, two bytes, one crash | exact counters (bytes until the sweep deletes a queued item's file), conserved slots, one owner per file, durability, nothing settled comes back, guards that live as long as their upload, no leak but the parts of failed writes; every waiting caller is answered if the store answers |

**Bounds.** They are the smallest at which the interesting collisions exist. `Session`: two prompts
(one running, one queued) plus one item of each other kind that competes for the front; ids are
used once, so no counter bound is needed. The product of all kinds is out of reach: `session_queue`
has the queue commands, and the constraint `Scenario` says which kinds meet in `session_mixed`.
`breaker`: `MaxTime` = 4 leaves room for a trip, a cool-down of 2, a claim and the expiry of its
lease; `MaxEntries` = 2 makes the cap and `WindowDuration` = 1 the eviction happen; `CounterMod` =
4 is above anything two threads add, so a wrap below zero stays visible as a large count.
`auth_refresh`: `MaxStarts` = 2, one bound for both processes, lets each start once or one of them
retry, `MaxGen` = 2 lets each process rotate once, `MaxEvents` = 1 is one fault, `MaxInodes` = 6 is
above what the attempts can create. `notify`: `MaxNotes` = `MaxBuffer` = 1 with two events makes
both evictions happen. `sampler`: `DefaultLimit` = 2 and `OtherLimits` = {1} put both sides of the
`>=` of the budget in reach, `DoomMax` = 1 a recovery and its refusal; two submissions of one id
are what the active map can confuse. `upload_queue`: a channel of one place, one slot, a budget of
two bytes and `MaxAttempts` = 2 make every limit bind with two calls; `Threshold` = 1 opens the
breaker at the first failure; `MaxCrashes` = 1. `client_turns`: `MaxPrompts` = 2 is a turn and the
one it hands over to, `MaxDeltas` = 1 the delta that is late, `MaxCommands` = 1 and `MaxLost` = 1
one command crossed with one lost response. A removal refused for a stale version takes two
commands; with `MaxCommands` = 2 and neither deltas nor losses the same properties hold.

**Views.** `MCSession` and `MCCircuitBreaker` name a `VIEW` that leaves out what no guard and no
checked property can read any more: locals of a handler or call that is over, how a settled item
was answered. The runs that use one check invariants and action properties; an action property
sees whole steps, and the steps of two states with one view agree in what it reads.

**Fairness.** `Session!FairSpec`: the actor's own steps, the end of a turn, the drop of a wait
guard and the plan kick are weakly fair. The first is the runtime's scheduling of the actor task,
and a dropped future drops its guards. That a turn ends is an assumption on the environment: a
permission prompt waits for its user without a timeout. A turn that hangs ends when a client
cancels it, which the model has and does not require. `Sampler`: the actor's loop and each request
task are weakly fair (tokio schedules them; a backoff ends, a stream has an idle timeout), except
where the task waits for the response's headers: `http.execute` (`client.rs:939`, 1317, 1636) has
only a connect timeout (`shared_http.rs:86-112`) and the token is not watched there. `Closes`
therefore has the hypothesis `ServersAnswer`. `UploadQueue`: handing a call over, the worker, the
upload tasks off the wire and the recovery are weakly fair; the dispatch is strongly fair because
tokio's semaphore serves its waiters in order. The upload client sets no request timeout
(`xai-grok-http/src/lib.rs:325-344`, `queue.rs:2017-2028`), so `WaitersAnswered` has the hypothesis
`StoreAnswers`. Nothing is assumed of clients, credentials that come back, the clock, drains,
faults or crashes: a client may cancel forever.

Four runs are expected to find a violation; each states what a comment says and shows a
behaviour of the code that contradicts it (`findings` in `PROJECT.json`):

* `auth_spent_twice` - two attempts judge the same leftover lock file stale; the slower unlink
  removes the live holder's file after its last check, and two refreshes spend one token.
* `notify_lost` - a completion is marked reported when its wake is queued behind a turn; a second
  user prompt sweeps the wake and un-marks the delivered set only, so nothing tells the model.
* `breaker_probes` - `trip()` publishes `Open` before it zeroes the probe counter; a thread that
  turns half-open and claims the slot in between has its claim cleared, and a second probe goes
  out where one is allowed.
* `upload_detached` - the shell's detached scan lists the sidecar a live call has just written and
  queues the pair a second time.

Each property of a passing run has a mutation of the model (definitions named `X_Y`) that
violates it.

### Known divergences without a run of their own

Met while modelling, reachable in the modules or read in the code:

* A kick that promotes a prompt between a cancel's abort and its pin reset loses the new
  turn's pin: later interjections are queued instead of merged (`Session`).
* A late `BlockingWaitGuard` drop of a cancelled turn is charged to the next turn, whose wait
  then no longer counts (`Session`; `tool_context.rs:29`).
* The preemption sweep drops scheduler-fired prompts too (`prompt_queue.rs:133`), although the
  sweep's contract says no client awaits a synthetic item (`acp_session.rs:306-307`): the pager
  submits them and waits for the answer (`xai-grok-pager/src/app/dispatch/queue.rs:430`). It takes
  a wake, a scheduler-fired prompt and a user's prompt behind a running turn (`Session`).
* Sampler: the entry of a panicked task stays in the map (`actor/mod.rs:73-78`), so `is_active`
  answers true for a finished id against `handle.rs:84-86`; a reused id's join removes its
  successor's entry, which can then not be cancelled (ids are random in production); a request
  waits for its response's headers without a timeout, cancelled or not.
* Stripping images for a retry debits the transport budget, although `retry.rs:17-18` of the
  sampler calls it "not counted against retry budget" (`Sampler`).
* The rejection of a credential whose access token has not expired is demoted to a transient
  error, because the test for a sibling's rotation (`auth/manager.rs:1057`) only compares with
  the expired credential; it is then sent again, although `manager.rs:1542-1544` caps a burst at
  one call (`AuthRefresh`).
* The cap on notifications is applied by `InjectNotification` and not by the sweep
  (`SessionNotify`).
* Uploads: a failed write or copy leaves a part of the file (`queue.rs:1422`, 1027, 1115, 1202)
  that only the sweep of a later life removes. `enqueue_recovered` restarts an item's clock while
  the sweep goes by the sidecar's: it may delete the file of an item the scan has just queued, and
  the bytes of that item, measured again at its upload (`queue.rs:1888`), are never given back. A
  drain that meets a persistent auth error removes the files.
* Authentication: what `excused` records. A death or a failed write after the rotation, a lost
  answer and an enrichment that writes without the lock after its timeout may each lose the newest
  credential, and so may a lock broken under its holder (`auth_spent_twice`); a logout means to.
* The pager (`ClientTurns`, paths in `xai-grok-pager/src/app/`). `FinishedTurnLeavesScreen` is about
  the pager's own turns. A stash that outlives one empty broadcast is taken up after both
  announcements of its turn were consumed, and another client's turn then stays on screen, although
  `acp_handler/queue.rs:249-250` and `acp_handler/tests/turn_completion.rs:1106` want no turn that
  has ended adopted; a late delta of an own, finished turn turns the viewer flag off, so the ends
  of the turn in view are ignored. Own turns stay when both ways out are gone (`missed` and
  `lost`): a reconcile still armed for a rewound turn keeps the next one from arming within the
  grace period, and a lost response to a removed prompt has no announcement to be reconciled from.
* A response may overtake a notification while key input waits (`event_loop.rs:1712` and 1758); the
  model has it follow them.
* A viewer finishes whatever turn it shows, without comparing prompt ids
  (`turn_completion.rs:227`): the `prompt_complete` of one turn, behind its `TurnCompleted` and
  the next adoption, finishes the next. A viewer takes up the id of a wake's delta although
  `acp_handler/mod.rs` says those are not adopted; and its waiting image prompts are not drained
  when it sees the turn end.

## Proofs

The theorems hold for every value of the constants. Each temporal theorem is an inductive
invariant, checked with TLC on the run's instance before it was proved, an *effect* lemma per
action (what the step does to the state the invariant reads), one step per action, and a
consequence. Assumptions are the `ASSUME`s of the modules, which TLC evaluates on the instances.

**Scheduler** (`PromptQueueProofs`, `SessionProofs`). Assumed: the kinds of ids are disjoint and
`None` is not an id.

* `TypeCorrect`, `RunningTurnIsFront` (`FrontIsRunning`): `TypeOK /\ FrontIsRunning` is inductive.
  The work is in the queue operators: a sweep that keeps the running id keeps it first, the
  send-now slot is behind the running front, the fallback and the reorder too. The cancel and an
  owned completion clear `running` in the step that pops the front; a stale completion does
  neither. `UserTextSurvives` (`UserTextNeverDropped`) follows from the same invariant: what a
  sweep removes is synthetic, and the kinds are disjoint.
* `ItemsHaveOnePlace` (`ExactlyOnePlace`). The count of places is replaced by `OnePlace`: the
  places exclude each other pairwise, queue, buffer and flush hold an item once, and the locals
  of a handler are empty outside it (`Locals`). Without the last part a finished cancel could
  answer its items again.
* `PromptsRunOnce` (`NoDoubleRun`) needs `NotYetRun`: of the items neither held by a cancel nor
  answered, only the in-flight turn's was started.
* `TurnsEndOnce` (`OneTerminalPerTurn`), `InterjectionsHaveATurn` (`NoStrandedInterjection`) and
  `CancelAssertHolds` (`PinAgreesAtCancel`, the `debug_assert` of `cancel_running_task`) share
  `TurnInv`, which says who owns the pin, the buffer and the right to publish at every await of
  the actor: `PinOwner`, `BufferOwner`, `Published`, `Victim`.
* `SendNowOutlivesCancel` (`SendNowSurvivesItsCancel`) needs `SendNowNext`: while the cancel is
  due, a send-now prompt is second in the queue. `SendNowKeepsItsPlace` is an action property:
  each queue operator but the reorder keeps the order of what it keeps.

`Kept(q, S)` (the items of `q` in `S`, in order) is defined by ranks rather than by recursion so
that its facts can be proved: it is a sequence of elements of `q`, contains exactly the kept
ones, has `q`'s first kept item first, and commutes with `Append` and `Tail`.

**Notifications** (`SessionNotifyProofs`). Assumed: the kinds of ids are disjoint, every event has
a monitor, the caps are positive.
`IInv == TypeOK /\ Separate /\ Kinds /\ Books /\ Forward /\ Surf /\ Quiescent`.

* The proof follows an id through the five places that can hold it: the channel to the bridge, the
  mailbox, the notifications, the monitor buffer and the queue. `Separate` says that each holds it
  once and no two share it, so an effect lemma only names the sets of ids its action moves.
* `LossCaused` (`LossHasCause`) and `DeliveredComes` (`DeliveredHasWake`) from `Books`, the account
  of each task: nothing speaks of a running one; a completed one is on its way, told, or dropped by
  a named step; a delivered one is on its way, told or in a rewound turn. That account needs
  `Kinds` (a session that wakes the model for a completion never injects it as well) and `Forward`
  (the item at the front has been told by the turn that runs it), or a cancel could take back what
  was told.
* `ReminderOnce` (`SurfacedOnce`) from `Surf`: what a reminder has spoken of is reported.
* `ToldOnOnePath` (`OnePath`) is part of `Separate`.
* `IdleDrains` (`IdleIsDrained`) needs `Quiescent`: the session is not only drained when idle, no
  turn counts as active then, so the next event is drained as it comes.

**Sampler** (`SamplerProofs`). Assumed: limits and budgets are naturals, the limits finitely many
(the code has one per model configuration); `None` is no submission.

* `TypeCorrect`; `EntriesOfReturnedTasksGo` (`OnlyPanicsLeaveEntries`); `RunningTasksCancellable`
  (`Cancellable`). `IInv` adds what the channel may hold (`Channel`), that nothing is spent before
  an attempt (`Unspent`), both budgets (`InBudget`), that a waiting caller holds its guard and a
  guard keeps the channel open (`Guarded`), the state after the actor has stopped (`Ended`), that
  an entry of the active map is under its own id (`Keyed`) and leads to every task that is not
  cancelled, overtaken or joined (`Routed`).
* `SamplerImplementsLifecycle` : `Spec => KeepsPromise`, the refinement of `RequestLifecycle` by
  every submission: initial states map to initial states; for each action a lemma says what it does
  to the abstract state of each submission, and that is a step of the abstract specification or a
  stutter.

**Circuit breaker** (`CircuitBreakerProofs`). Assumed: finitely many threads, and a counter that
can hold the probe limit.

* `TypeCorrect`; `WindowExact` (`WindowCountsFailures`): counting splits at the cut an eviction
  makes.
* `RefusalsHaveCauses` (`RefusedWithCause`, an action property), for any number of threads and
  probe slots, from `CauseInv`: no stamp is younger than the last trip or admitted probe
  (`StampsOld`), and a caller that lost the turn to half-open or a lapsed lease lost it to one that
  came after its clock was read (`LostToCause`). `ProbesLimited` is not provable: see
  `breaker_probes`.

**Upload queue** (`UploadQueueProofs`). Assumed: finitely many calls, `None` is no item; and, in
every theorem, the workspace's start-up order (`~Detached`).
`IInv == Shape /\ Owned /\ Slots /\ Counts /\ Bytes /\ Promised /\ Marked /\ NoLeak`.

* `FilesHaveOneOwner` (`OwnedOnce`): channel, worker, upload tasks, inline uploads and the recovery
  list exclude each other (`OneOwner`), and what is held is backed by files (`Backed`). Without
  `~Detached` it is false (`upload_detached`).
* `AcceptedIsDurable` (`Durable`) and `SettledStaySettled` (`NothingResurfaces`): `Promised` says
  that the pairs on disk are exactly those still owed, also after a crash inside a step.
* `GuardHeldByOne` (`GuardHasHolder`); `NoFileLeaks` (`NothingLeaks`), which leaves out the parts of
  failed writes.
* `SlotsAreConserved` (`SlotsConserved`): free slots plus the tasks that hold one are the limit.
* `CountersAreExact` (`CountersExact`): while the worker lives, `pending` and `inflight` are exact,
  and `bytes` until the sweep has deleted the file of a queued item. A sum over a set is out of the
  prover's reach by induction, so `Total` counts the bytes one by one, as the cardinality of a set
  of pairs (`MCUploadQueue` has TLC evaluate that this is the sum), and the proof shows how that
  set grows and shrinks by one call's bytes (`LoadAdds`, `LoadFalls`).

**Authentication** (`AuthRefreshProofs`). Assumed: finitely many tasks; more inodes than tasks and
abandoned threads, so that a new lock file always has one (the bound recycles inode numbers, which a
file system has plenty of); `None` is no id and the tag of an abandoned thread no task; the process
of a startup flow has a refresh chain to call.
`IInv == LockInv /\ TypeOK /\ TasksOK /\ Tokens /\ InFlight /\ Gated /\ Live /\ Newest`.

* `LockInv`: a task at `verify` or `held` has the flock of the inode it opened. The steps of the
  lock keep it and do no more than `LockMoved` says: what is held or failed stays so, a lock is won
  on the inode the path names, a new lock file is an inode nobody has open. The chain's lemmas use
  only that. The holder's text plays no part, so a failed write of it changes nothing.
* `SpendersAreExclusive` (`SpendersExclusive`) needs `TasksOK` (which steps are taken with the lock
  and with `refresh_lock`) and `Live`: until one is broken, a lock relied on past the last check is
  the one the path names, so two critical tasks would have one flock.
* `FamilyIsKept` (`FamilySurvives`) and `NewestCredentialKept` (`NewestKept`) are parts of `Newest`,
  which also says that a chain on the wire sends the newest credential, that a success brings it, and
  that an enrichment with a live lock writes back what is on the disk. The last part is what keeps a
  slow enrichment from undoing a rotation, and the reason a lock that is no longer live must never
  become live again.
* `StickyVerdictsAreDead` (`StickyVerdictIsDead`) from `Tokens` and `TasksOK`: a rejection is about a
  credential that was dead when it was rejected, and the dead stay dead.
* `AckedProcessesAreDrained` (`AckedMeansDrained`) from `InFlight` (the counter is one exactly
  while a chain has the slot: `refresh_lock` admits one) and `Gated`.

**Terminal UI** (`ClientTurnsProofs`). Assumed: finitely many ids, the kinds of prompts disjoint,
`None` no id. `Inv == TypeOK /\ Shell /\ Order /\ Mirror /\ Screen`. A step of the shell is reduced
to `ShellEffect` (what it takes from the calls, what it sends, how each prompt moves on) and a step
of the pager to `PagerEffect` (where the turn on screen and the stashed one come from, what is left
of their announcements); `Order`, `Mirror` and `Screen` are preserved by anything of those kinds.

* `TypeCorrect`; `Shell`: the queue holds the waiting prompts once each, the running one in front.
* `PromptsInTypedOrder` (`TypedOrderKept`) is `Order`, the same fact by index: the first n typed are
  with the shell, the next on their way, the rest in the pager. It needs that a prompt goes straight
  to the shell only when none waits in the pager.
* `MirrorIsQueue` (`MirrorConverges`). `Mirror` says what holds while the wire is *not* quiet: the
  last broadcast on its way shows the present queue; with none on its way the pager holds the queue
  and its echoes; and every echo has its call, or a broadcast that will retire it, on its way. A
  handled response may then take its row out only because an answered prompt is in neither place.
* `FinishedTurnsLeave` (`FinishedTurnLeavesScreen`), for the pager's own turns. `Screen` says that
  the end of the turn on screen is still to come on some rail, or armed, or missed (`EndComes`);
  that a prompt whose response is gone and not lost is neither on screen, stashed, nor about to be
  adopted (`Answered`), which rests on the response following every broadcast of its turn
  (`InOrder`); that what is adopted has started (`Told`) and an own prompt on screen is on its way
  or with the shell (`Dispatched`).

**Only model-checked.** Liveness (`PromptsAnswered`, `InterjectionsLeaveBuffer`, `Closes`,
`WaitersAnswered`), which needs fairness and `ENABLED`. The agreement of the queue operators with the
code's loops, and of `Total` with a sum: both need induction over data.

## Plan

1. `ClientTurns`: clear, promote and send-now by the pager, replay on attach.
2. Later: leader lock and attach/detach, subagent lifecycle, the chat state's persistence order.

## Not modelled

See `components` in `PROJECT.json`: rendering, tool implementations, file formats, packaging
and vendored code have no protocol to check; the parts marked as candidates have one and are
in the plan. Hazards without a property are listed there with the reason: a panicking turn,
the retry of a rejected credential and the startup flow that waits for its own lock (both in the
model, promised otherwise by no line of the code).
