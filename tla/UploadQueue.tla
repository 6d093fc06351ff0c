---------------------------- MODULE UploadQueue ----------------------------
(***************************************************************************)
(* The background upload queue of xai-file-utils (queue.rs) and the        *)
(* restart recovery of xai-grok-workspace (recovery.rs): callers spill an  *)
(* artifact to the queue directory and hand it to a bounded channel, one   *)
(* worker dispatches the items to at most MaxConcurrent upload tasks, a    *)
(* drain ends the worker, and after a crash the next process life scans    *)
(* the directory and re-enqueues what it finds.                            *)
(*                                                                         *)
(* A file is named by the call that wrote it; a file has a temp part and,  *)
(* for the operations that promise durability, a sidecar (meta).  A temp   *)
(* is 1 byte, a snapshot 0 (a reflink) or 2 (a copy), and all content-     *)
(* addressed calls name the same object.  An age is a flag: an aged file   *)
(* is older than max_age.                                                  *)
(***************************************************************************)
EXTENDS Integers, Sequences, FiniteSets, FiniteSetsExt, SequencesExt

CONSTANTS
    Calls,              \* calls to the queue's enqueue operations
    Capacity,           \* CHANNEL_CAPACITY
    MaxConcurrent,      \* upload tasks that may hold a slot
    MaxBytes,           \* max_queue_bytes
    MaxAttempts,        \* UploadRetryPolicy.max_attempts
    Threshold,          \* CIRCUIT_BREAKER_THRESHOLD
    MaxCrashes,         \* bound on the process lives
    Detached,           \* the shell: recovery runs beside the calls, not before them
    None

VARIABLES
    phase,      \* this process: "list", "scan", "sweep" or "open"
    crashes,    \* lives ended so far (bounded)
    call,       \* the state of every call
    temp,       \* files whose temp part is on disk
    meta,       \* files whose sidecar is on disk
    torn,       \* temps cut short, by a failed write or a crash
    aged,       \* files older than max_age
    scan,       \* sidecars the recovery has still to look at
    chan,       \* the channel
    worker,     \* the worker loop: its place and the item in its hands
    drain,      \* drain(): "idle", "waiting" or "done"
    draining,   \* draining_flag
    tasks,      \* running upload tasks
    free,       \* free slots of the worker's semaphore
    stats,      \* pending, bytes and inflight; failures in a row; and, as history,
                \* whether the sweep of this life deleted a queued item's file
    marked,     \* uploads_in_flight holds the content-addressed object
    inline,     \* inline fallback uploads
    owed        \* history: pairs taken on and neither uploaded nor given up

disk == <<temp, meta, torn, aged>>
work == <<chan, worker, drain, draining, tasks, free, stats, marked>>
vars == <<phase, crashes, call, disk, scan, work, inline, owed>>

-----------------------------------------------------------------------------
Ops == {"enqueue", "enqueue_bytes_blocking", "enqueue_blocking",
        "enqueue_file", "enqueue_file_blocking", "enqueue_file_reference"}

(* Which operations write the sidecar, hand out a completion channel, and  *)
(* go through the in-flight set and the disk budget.                       *)
Spills(op) == op \in {"enqueue_bytes_blocking", "enqueue_blocking"}
Awaits(op) == op \in {"enqueue_blocking", "enqueue_file_blocking",
                      "enqueue_file_reference"}
Gated(op) == op # "enqueue_blocking"

(* What a caller is told is abstracted to whether it still waits.          *)
Replies == {"none", "waiting", "answered"}

(* An item: the file it owns, the bytes it added to pending_bytes, whether *)
(* it carries the caller's completion channel and an in-flight guard, and  *)
(* its UploadSource: a temp, also one the recovery found, or a snapshot.   *)
Items == [file : Calls, bytes : 0..2, tx : BOOLEAN, mark : BOOLEAN,
          kind : {"temp", "snapshot", "recovered"}]

Tasks == [item : Items, pc : {"start", "wire", "parked", "reacquire"}, accounted : 0..2,
          attempts : 0..MaxAttempts, retried : BOOLEAN, slot : BOOLEAN]

(* The bounds are numbers, there are finitely many calls, and an empty     *)
(* hand of the worker is no item.                                          *)
ASSUME ConfigAssumption ==
    /\ IsFiniteSet(Calls)
    /\ {Capacity, MaxConcurrent, MaxBytes, MaxAttempts, Threshold, MaxCrashes} \subseteq Nat
    /\ None \notin Items /\ Detached \in BOOLEAN

TypeOK ==
    /\ phase \in {"list", "scan", "sweep", "open"}
    /\ crashes \in 0..MaxCrashes
    /\ call \in [Calls -> [pc : {"idle", "written", "sending", "refused", "done"}, op : Ops \cup {None},
                           hash : BOOLEAN, bytes : 0..2, reply : Replies]]
    /\ temp \in SUBSET Calls /\ meta \in SUBSET Calls
    /\ torn \in SUBSET Calls /\ aged \in SUBSET Calls /\ scan \in SUBSET Calls
    /\ chan \in Seq(Items) /\ Len(chan) <= Capacity
    /\ worker \in [pc : {"loop", "select", "permit", "cooldown", "drain", "join",
                         "gone", "aborted"},
                   item : Items \cup {None}]
    /\ drain \in {"idle", "waiting", "done"} /\ draining \in BOOLEAN
    /\ tasks \in SUBSET Tasks
    /\ free \in 0..MaxConcurrent
    /\ stats \in [pending : Nat, bytes : Nat, inflight : Nat, failures : 0..Threshold,
                 swept : BOOLEAN]
    /\ marked \in BOOLEAN
    /\ inline \in SUBSET [file : Calls, temp : BOOLEAN, tx : BOOLEAN]
    /\ owed \in SUBSET Calls

Idle == [pc |-> "idle", op |-> None, hash |-> FALSE, bytes |-> 0, reply |-> "none"]

NoStats == [pending |-> 0, bytes |-> 0, inflight |-> 0, failures |-> 0, swept |-> FALSE]

FreshWork ==
    /\ chan' = <<>> /\ worker' = [pc |-> "loop", item |-> None]
    /\ drain' = "idle" /\ draining' = FALSE
    /\ tasks' = {} /\ free' = MaxConcurrent
    /\ stats' = NoStats
    /\ marked' = FALSE

Init ==
    /\ phase = "list" /\ crashes = 0
    /\ call = [c \in Calls |-> Idle]
    /\ temp = {} /\ meta = {} /\ torn = {} /\ aged = {} /\ scan = {}
    /\ chan = <<>> /\ worker = [pc |-> "loop", item |-> None]
    /\ drain = "idle" /\ draining = FALSE
    /\ tasks = {} /\ free = MaxConcurrent
    /\ stats = NoStats
    /\ marked = FALSE /\ inline = {} /\ owed = {}

-----------------------------------------------------------------------------
(* The channel is closed once the worker has closed or dropped its end.    *)
Closed == worker.pc \in {"gone", "aborted"} \/ draining

OverBudget(bytes) == stats.bytes + bytes > MaxBytes

(* A call that is over keeps nothing but its reply.                        *)
Answer(c, reply) == [call EXCEPT ![c] = [Idle EXCEPT !.pc = "done", !.reply = reply]]

(* All handles of the queue are dropped: the worker ended without a drain. *)
Dropped == draining /\ drain = "idle"

(* The workspace connects to its hub only after recovery and the sweep, so *)
(* no call runs before the directory has been scanned; the shell spawns    *)
(* both beside its calls.                                                  *)
MayEnqueue == (phase = "open" \/ Detached) /\ ~Dropped

Rises(s, bytes) == [s EXCEPT !.pending = @ + 1, !.bytes = @ + bytes]
Falls(s, bytes) == [s EXCEPT !.pending = @ - 1, !.bytes = @ - bytes]

(* An inline fallback streams the caller's content, or the queue's own     *)
(* copy, which it then deletes.                                            *)
InlineFor(c, op, owned) == [file |-> c, temp |-> owned, tx |-> Awaits(op)]
ReplyNow(op) == IF Awaits(op) THEN "waiting" ELSE "answered"

(* The first half of every enqueue: the in-flight set, which answers a     *)
(* duplicate at once, the copy into the queue directory, which may fail    *)
(* and leave a part of the file, a snapshot's hash, which may be stale     *)
(* (both also answer at once), and the disk budget, past which the upload  *)
(* goes inline.                                                            *)
Begin(c, op, hash, bytes) ==
    /\ MayEnqueue
    /\ call[c].pc = "idle"
    /\ hash => Gated(op)
    /\ bytes \in IF op = "enqueue_file_reference" THEN {0, 2} ELSE {1}
    /\ LET known == [call EXCEPT ![c].op = op, ![c].hash = hash, ![c].bytes = bytes]
           Reply(reply) == call' = Answer(c, reply)
           over == Gated(op) /\ bytes > 0 /\ OverBudget(bytes)
       IN \/ /\ Reply("answered")
             /\ UNCHANGED <<temp, torn, marked, inline>>
          \/ /\ ~(hash /\ marked)
             /\ Reply("answered")
             /\ temp' = temp \cup {c} /\ torn' = torn \cup {c}
             /\ UNCHANGED <<marked, inline>>
          \/ /\ ~(hash /\ marked) /\ over
             /\ Reply(ReplyNow(op))
             /\ LET owned == op = "enqueue_file_reference"
                IN /\ inline' = inline \cup {InlineFor(c, op, owned)}
                   /\ temp' = IF owned THEN temp \cup {c} ELSE temp
             /\ UNCHANGED <<torn, marked>>
          \/ /\ ~(hash /\ marked) /\ ~over
             /\ call' = [known EXCEPT ![c].pc = "written"]
             /\ temp' = temp \cup {c}
             /\ marked' = (marked \/ hash)
             /\ UNCHANGED <<torn, inline>>
    /\ UNCHANGED <<phase, crashes, meta, aged, scan, chan, worker, drain, draining,
                   tasks, free, stats, owed>>

(* Senders waiting for room have been promised every free place.           *)
Sending == {c \in Calls : call[c].pc = "sending"}
Full == Len(chan) + Cardinality(Sending) >= Capacity

NewItem(c) == [file |-> c, bytes |-> call[c].bytes, tx |-> Awaits(call[c].op),
               mark |-> call[c].hash,
               kind |-> IF call[c].op = "enqueue_file_reference" THEN "snapshot" ELSE "temp"]

(* Who uploads inline when the channel refuses, and who keeps the temp.    *)
FallsBack(op) == ~Closed \/ op \in {"enqueue", "enqueue_file", "enqueue_file_reference"}
KeepsTemp(op) == op = "enqueue_file_reference" \/ (op = "enqueue_blocking" /\ ~Closed)

GuardAfterReject_Kept(c) == marked
GuardAfterReject(c) == marked /\ ~call[c].hash

SidecarsAfterReject_Kept(c) == IF Spills(call[c].op) THEN meta \cup {c} ELSE meta
SidecarsAfterReject(c) == meta

CallAfterReject_TriesAgain(c) ==
    IF FallsBack(call[c].op) THEN call ELSE Answer(c, "answered")
CallAfterReject(c) == Answer(c, IF FallsBack(call[c].op) THEN ReplyNow(call[c].op) ELSE "answered")

Rejected(c) ==
    LET op == call[c].op IN
    /\ call' = CallAfterReject(c)
    /\ inline' = IF FallsBack(op) THEN inline \cup {InlineFor(c, op, KeepsTemp(op))} ELSE inline
    /\ temp' = IF KeepsTemp(op) THEN temp ELSE temp \ {c}
    /\ marked' = GuardAfterReject(c)
    /\ meta' = SidecarsAfterReject(c)
    /\ UNCHANGED <<chan, stats>>

(* The second half: the sidecar, the counters and the channel.             *)
Send(c) ==
    /\ call[c].pc = "written"
    /\ LET op == call[c].op IN
       \/ /\ Closed \/ (Full /\ op # "enqueue_file_blocking")
          /\ Rejected(c)
          /\ UNCHANGED owed
       \/ /\ ~Closed /\ Full /\ op = "enqueue_file_blocking"
          /\ call' = [call EXCEPT ![c].pc = "sending"]
          /\ stats' = Rises(stats, call[c].bytes)
          /\ UNCHANGED <<temp, meta, chan, marked, inline, owed>>
       \/ /\ ~Closed /\ ~Full
          /\ call' = Answer(c, ReplyNow(op))
          /\ meta' = IF Spills(op) THEN meta \cup {c} ELSE meta
          /\ owed' = IF Spills(op) THEN owed \cup {c} ELSE owed
          /\ chan' = Append(chan, NewItem(c))
          /\ stats' = Rises(stats, call[c].bytes)
          /\ UNCHANGED <<temp, marked, inline>>
    /\ UNCHANGED <<phase, crashes, torn, aged, scan, worker, drain, draining, tasks, free>>

(* enqueue_file_blocking waits for room; a close refuses it.               *)
SendReady(c) ==
    /\ call[c].pc = "sending" /\ Len(chan) < Capacity
    /\ call' = Answer(c, "waiting")
    /\ chan' = Append(chan, NewItem(c))
    /\ UNCHANGED <<phase, crashes, disk, scan, worker, drain, draining, tasks, free, stats,
                   marked, inline, owed>>

SendRefused_KeepsCount(c) ==
    /\ call[c].pc = "refused"
    /\ call' = Answer(c, "answered")
    /\ temp' = temp \ {c}
    /\ marked' = (marked /\ ~call[c].hash)
    /\ UNCHANGED <<phase, crashes, meta, torn, aged, scan, chan, worker, drain, draining, tasks,
                   free, stats, inline, owed>>
SendRefused(c) ==
    /\ call[c].pc = "refused"
    /\ call' = Answer(c, "answered")
    /\ temp' = temp \ {c}
    /\ stats' = Falls(stats, call[c].bytes)
    /\ marked' = (marked /\ ~call[c].hash)
    /\ UNCHANGED <<phase, crashes, meta, torn, aged, scan, chan, worker, drain, draining, tasks,
                   free, inline, owed>>

(* An inline fallback upload ends, well or not: a failure is only logged.  *)
InlineEnds(u) ==
    /\ u \in inline
    /\ inline' = inline \ {u}
    /\ temp' = IF u.temp THEN temp \ {u.file} ELSE temp
    /\ call' = IF u.tx THEN Answer(u.file, "answered") ELSE call
    /\ UNCHANGED <<phase, crashes, meta, torn, aged, scan, work, owed>>

-----------------------------------------------------------------------------
(* The worker loop.                                                        *)
WorkerStep(pc, next) ==
    /\ worker.pc = pc
    /\ worker' = [worker EXCEPT !.pc = next]
    /\ UNCHANGED <<phase, crashes, disk, scan, drain, tasks, free, marked, inline, owed>>

LoopTop ==
    /\ WorkerStep("loop", IF stats.failures >= Threshold THEN "cooldown" ELSE "select")
    /\ UNCHANGED <<call, chan, draining, stats>>

CooldownEnds ==
    /\ WorkerStep("cooldown", "select")
    /\ stats' = [stats EXCEPT !.failures = 0]
    /\ UNCHANGED <<call, chan, draining>>

Refused(senders) == [c \in Calls |->
    IF c \in senders THEN [call[c] EXCEPT !.pc = "refused"] ELSE call[c]]

(* The shutdown signal is noticed in select! and in the cooldown only; the *)
(* channel closes, which refuses the senders not yet promised a place.     *)
Shutdown ==
    /\ drain # "idle"
    /\ \/ WorkerStep("select", "drain")
       \/ WorkerStep("cooldown", "drain")
    /\ draining' = TRUE
    /\ \E refused \in SUBSET Sending :
          /\ Cardinality(Sending \ refused) = Min({Cardinality(Sending), Capacity - Len(chan)})
          /\ call' = Refused(refused)
    /\ UNCHANGED <<chan, stats>>

(* recv yields None: the last handle is gone, and with it every call that  *)
(* is under way and the recovery.                                          *)
HandlesDrop ==
    /\ phase = "open" /\ drain = "idle"
    /\ chan = <<>> /\ \A c \in Calls : call[c].pc \in {"idle", "done"}
    /\ WorkerStep("select", "join")
    /\ draining' = TRUE
    /\ UNCHANGED <<call, chan, stats>>

Receive ==
    /\ worker.pc \in {"select", "drain"}
    /\ chan # <<>>
    /\ worker' = [pc |-> "permit", item |-> Head(chan)]
    /\ chan' = Tail(chan)
    /\ UNCHANGED <<phase, crashes, call, disk, scan, drain, draining, tasks, free, stats,
                   marked, inline, owed>>

NewTask(item) == [item |-> item, pc |-> "start", accounted |-> 0, attempts |-> 0,
                  retried |-> FALSE, slot |-> TRUE]

(* dispatch_item waits for a slot, deaf to the shutdown signal.            *)
Dispatch ==
    /\ worker.pc = "permit"
    /\ free > 0
    /\ free' = free - 1
    /\ tasks' = tasks \cup {NewTask(worker.item)}
    /\ worker' = [pc |-> IF draining THEN "drain" ELSE "loop", item |-> None]
    /\ UNCHANGED <<phase, crashes, call, disk, scan, chan, drain, draining, stats, marked,
                   inline, owed>>

DrainEmpty ==
    /\ chan = <<>> /\ Sending = {}
    /\ WorkerStep("drain", "join")
    /\ UNCHANGED <<call, chan, draining, stats>>

JoinEnds ==
    /\ tasks = {}
    /\ WorkerStep("join", "gone")
    /\ UNCHANGED <<call, chan, draining, stats>>

-----------------------------------------------------------------------------
(* One upload task: process_item and upload_with_retries.                  *)
Becomes(t, u) ==
    /\ tasks' = (tasks \ {t}) \cup {u}
    /\ UNCHANGED <<disk, owed, marked>>

(* remove_item_files: the temp, then the sidecar, if any.                  *)
RemoveFiles(f) ==
    /\ temp' = temp \ {f} /\ meta' = meta \ {f}
    /\ aged' = aged \ {f} /\ torn' = torn \ {f}
    /\ owed' = owed \ {f}

(* file_size at processing time, not at enqueue; a snapshot keeps its own. *)
Accounted(item) ==
    IF item.kind = "snapshot" \/ item.file \in temp THEN item.bytes ELSE 0

Notified(t) == IF t.item.tx THEN Answer(t.item.file, "answered") ELSE call

(* The item is settled: its files go, its waiter is answered, its slot and *)
(* its guard are dropped, and the counters fall.                           *)
Settle(t, failures) ==
    /\ tasks' = tasks \ {t}
    /\ RemoveFiles(t.item.file)
    /\ call' = Notified(t)
    /\ free' = IF t.slot THEN free + 1 ELSE free
    /\ marked' = (marked /\ ~t.item.mark)
    /\ stats' = [Falls(stats, t.accounted) EXCEPT !.inflight = @ - 1, !.failures = failures]

OneMoreFailure == IF stats.failures < Threshold THEN stats.failures + 1 ELSE Threshold

(* An item's clock starts when it is enqueued; a recovered one starts a    *)
(* new clock, so its file may be past the age before the item is.          *)
MustExpire(item) == item.file \in aged /\ item.kind # "recovered"
MayExpire(item) == item.file \in aged

Start(t) ==
    /\ t.pc = "start"
    /\ LET u == [t EXCEPT !.pc = "wire", !.accounted = Accounted(t.item)]
       IN \/ /\ MayExpire(t.item)
             /\ tasks' = tasks \ {t}
             /\ RemoveFiles(t.item.file)
             /\ stats' = Falls(stats, u.accounted)
             /\ call' = Notified(t)
             /\ free' = free + 1
             /\ marked' = (marked /\ ~t.item.mark)
          \/ /\ ~MustExpire(t.item)
             /\ Becomes(t, u)
             /\ stats' = [stats EXCEPT !.inflight = @ + 1]
             /\ UNCHANGED <<call, free>>

Attempted(t) == [t EXCEPT !.attempts = IF @ < MaxAttempts THEN @ + 1 ELSE @]

(* ConcurrencyPermit: a parked item gives its slot back.                   *)
SlotWhileParked_Kept == TRUE
SlotWhileParked == FALSE

(* One attempt.  A missing file fails like a transient error of the store; *)
(* the backoff before the next attempt heeds nothing and is not a step.  A *)
(* second 401 in a row enters the park loop: leave if draining, if the     *)
(* credential is lost for good or past the age, else answer the waiter and *)
(* wait.                                                                   *)
Wire(t, outcome) ==
    /\ t.pc = "wire"
    /\ outcome # "retryable" => t.item.file \in temp
    /\ LET u == Attempted(t) IN
       \/ /\ outcome = "ok"
          /\ Settle(t, 0)
       \/ /\ outcome = "terminal"
          /\ Settle(t, stats.failures)
       \/ /\ outcome = "retryable" /\ u.attempts >= MaxAttempts
          /\ Settle(t, OneMoreFailure)
       \/ /\ outcome = "retryable" /\ u.attempts < MaxAttempts
          /\ Becomes(t, u)
          /\ UNCHANGED <<call, free, stats>>
       \/ /\ outcome = "auth" /\ ~t.retried
          /\ Becomes(t, [u EXCEPT !.retried = TRUE])
          /\ UNCHANGED <<call, free, stats>>
       \/ /\ outcome = "auth" /\ t.retried
          /\ Settle(t, OneMoreFailure)
       \/ /\ outcome = "auth" /\ t.retried /\ ~draining /\ ~MustExpire(t.item)
          /\ Becomes(t, [u EXCEPT !.pc = "parked", !.slot = SlotWhileParked, !.item.tx = FALSE])
          /\ call' = Notified(t)
          /\ free' = IF SlotWhileParked THEN free ELSE free + 1
          /\ UNCHANGED stats

(* A parked item looks up every AUTH_PARK_WAIT_INTERVAL for a drain or its *)
(* age; a rotated or usable credential wakes it, a lost one ends it.       *)
Bail(t) ==
    /\ t.pc = "parked"
    /\ draining \/ MustExpire(t.item)
    /\ Settle(t, OneMoreFailure)

Wake(t) ==
    /\ t.pc = "parked" /\ ~draining
    /\ \/ Settle(t, OneMoreFailure)
       \/ /\ ~MustExpire(t.item)
          /\ Becomes(t, [t EXCEPT !.pc = "reacquire"])
          /\ UNCHANGED <<call, free, stats>>

Reacquire_Free(t) ==
    /\ t.pc = "reacquire"
    /\ Becomes(t, [t EXCEPT !.pc = "wire", !.slot = TRUE, !.retried = FALSE])
    /\ UNCHANGED <<call, free, stats>>
Reacquire(t) ==
    /\ t.pc = "reacquire"
    /\ t.slot \/ free > 0
    /\ free' = IF t.slot THEN free ELSE free - 1
    /\ Becomes(t, [t EXCEPT !.pc = "wire", !.slot = TRUE, !.retried = FALSE])
    /\ UNCHANGED <<call, stats>>

Outcomes == {"ok", "terminal", "retryable", "auth"}

TaskFrame == UNCHANGED <<phase, crashes, scan, chan, worker, drain, draining, inline>>

TaskStep(t) ==
    /\ \/ Start(t) \/ Bail(t) \/ Reacquire(t)
       \/ \E outcome \in Outcomes : Wire(t, outcome)
    /\ TaskFrame

-----------------------------------------------------------------------------
(* drain(): signal the worker, then wait for it or for the deadline.       *)
Drain ==
    /\ MayEnqueue /\ drain = "idle"
    /\ drain' = "waiting"
    /\ UNCHANGED <<phase, crashes, call, disk, scan, chan, worker, draining, tasks, free, stats,
                   marked, inline, owed>>

DrainDone ==
    /\ drain = "waiting" /\ worker.pc = "gone"
    /\ drain' = "done"
    /\ UNCHANGED <<phase, crashes, call, disk, scan, chan, worker, draining, tasks, free, stats,
                   marked, inline, owed>>

(* The items the queue holds: in the channel, in the worker's hands, and   *)
(* in the upload tasks.                                                    *)
Held == ToSet(chan) \cup {t.item : t \in tasks}
        \cup (IF worker.item = None THEN {} ELSE {worker.item})

(* At the deadline the worker is aborted with its tasks: the items die,    *)
(* their files and the counters stay as they are.                          *)
DrainTimeout ==
    /\ drain = "waiting" /\ worker.pc # "gone"
    /\ drain' = "done"
    /\ worker' = [pc |-> "aborted", item |-> None]
    /\ chan' = <<>> /\ tasks' = {} /\ free' = MaxConcurrent
    /\ call' = [c \in Calls |->
           IF \E item \in Held : item.file = c /\ item.tx
           THEN [call[c] EXCEPT !.reply = "answered"] ELSE Refused(Sending)[c]]
    /\ marked' = (marked /\ \A item \in Held : ~item.mark)
    /\ UNCHANGED <<phase, crashes, disk, scan, draining, stats, inline, owed>>

-----------------------------------------------------------------------------
(* Time passes: a file becomes older than max_age.                         *)
Age(f) ==
    /\ f \in (temp \ aged) \cap (meta \cup torn \cup {item.file : item \in Held})
    /\ aged' = aged \cup {f}
    /\ UNCHANGED <<phase, crashes, call, temp, meta, torn, scan, work, inline, owed>>

(* What a crash may interrupt: a call between its sidecar and the channel, *)
(* a settlement or a refusal between the temp and the sidecar, and the     *)
(* recovery's removal of a pair, which takes the sidecar first.            *)
Spilling == {c \in Calls : call[c].pc = "written" /\ Spills(call[c].op)}
Settling == {t.item.file : t \in {u \in tasks :
                u.pc \in {"wire", "parked"} \/ (u.pc = "start" /\ MayExpire(u.item))}}
Refusing == {c \in Spilling : (Closed \/ Full) /\ ~KeepsTemp(call[c].op)}
Unusable(f) == f \notin temp \/ f \in torn
Dropping == {f \in scan : Unusable(f) \/ f \in aged}

(* The process ends, after a drain or in the middle of anything: what is   *)
(* in memory is lost; the sidecar of a spilled call may be written, of the *)
(* cut files one part is gone; a temp that was never synced may be torn.   *)
(* A pair on disk is taken on, whether its call was accepted or not.       *)
Crash(lost, spilled, cut) ==
    /\ crashes < MaxCrashes
    /\ crashes' = crashes + 1
    /\ spilled \subseteq Spilling
    /\ cut \subseteq Settling \cup (Refusing \cap spilled) \cup Dropping
    /\ temp' = temp \ (cut \ Dropping)
    /\ meta' = (meta \cup spilled) \ (cut \cap Dropping)
    /\ lost \subseteq temp' \cap meta'
    /\ torn' = (torn \cap temp') \cup lost
    /\ owed' = (owed \cup spilled) \ cut
    /\ call' = [c \in Calls |->
           IF call[c].pc \in {"written", "sending", "refused"} \/ call[c].reply = "waiting"
           THEN [Idle EXCEPT !.pc = "done", !.reply = "answered"] ELSE call[c]]
    /\ FreshWork
    /\ inline' = {}
    /\ phase' = "list"
    /\ scan' = {}
    /\ UNCHANGED aged

(* run_startup_recovery: list the sidecars, then look at each.             *)
ScanList ==
    /\ phase = "list"
    /\ phase' = "scan"
    /\ scan' = meta
    /\ UNCHANGED <<crashes, call, disk, work, inline, owed>>

Recovered(f) == [file |-> f, bytes |-> 1, tx |-> FALSE, mark |-> FALSE, kind |-> "recovered"]

(* A pair the queue refuses stays on disk for a later life.                *)
EnqueueRecovered_Removes(f) ==
    IF ~Closed /\ ~Full /\ ~OverBudget(1)
    THEN /\ chan' = Append(chan, Recovered(f))
         /\ stats' = Rises(stats, 1)
         /\ UNCHANGED <<temp, meta>>
    ELSE /\ temp' = temp \ {f} /\ meta' = meta \ {f}
         /\ UNCHANGED <<chan, stats>>
EnqueueRecovered(f) ==
    IF ~Closed /\ ~Full /\ ~OverBudget(1)
    THEN /\ chan' = Append(chan, Recovered(f))
         /\ stats' = Rises(stats, 1)
         /\ UNCHANGED <<temp, meta>>
    ELSE UNCHANGED <<chan, stats, temp, meta>>

ScanOne(f) ==
    /\ phase = "scan" /\ f \in scan
    /\ scan' = scan \ {f}
    /\ \/ /\ Unusable(f) \/ f \in aged
          /\ RemoveFiles(f)
          /\ UNCHANGED <<chan, stats>>
       \/ /\ ~Unusable(f) /\ f \notin aged
          /\ EnqueueRecovered(f)
          /\ UNCHANGED <<torn, aged, owed>>
    /\ UNCHANGED <<phase, crashes, call, worker, drain, draining, tasks, free, marked,
                   inline>>

ScanDone ==
    /\ phase = "scan" /\ scan = {}
    /\ phase' = "sweep"
    /\ UNCHANGED <<crashes, call, disk, scan, work, inline, owed>>

(* cleanup_orphans: whatever is past the age goes, paired or not, queued   *)
(* or not: a pair may have come of age since the scan queued it.           *)
SweepOrphans ==
    /\ phase = "sweep"
    /\ phase' = "open"
    /\ temp' = temp \ aged /\ torn' = torn \ aged
    /\ meta' = meta \ aged
    /\ owed' = owed \ aged
    /\ stats' = [stats EXCEPT !.swept = @ \/ \E item \in Held : item.file \in aged]
    /\ aged' = {}
    /\ UNCHANGED <<crashes, call, scan, chan, worker, drain, draining, tasks, free, marked, inline>>

-----------------------------------------------------------------------------
Hand(c) == Send(c) \/ SendReady(c) \/ SendRefused(c)

Caller(c) ==
    \/ \E op \in Ops, hash \in BOOLEAN, bytes \in 0..2 : Begin(c, op, hash, bytes)
    \/ Hand(c)

Worker == LoopTop \/ CooldownEnds \/ Shutdown \/ Receive \/ DrainEmpty \/ JoinEnds

Recovery == ScanList \/ (\E f \in scan : ScanOne(f)) \/ ScanDone \/ SweepOrphans

Next ==
    \/ \E c \in Calls : Caller(c)
    \/ \E u \in inline : InlineEnds(u)
    \/ Worker \/ Dispatch \/ HandlesDrop
    \/ \E t \in tasks : TaskStep(t) \/ (Wake(t) /\ TaskFrame)
    \/ Drain \/ DrainDone \/ DrainTimeout
    \/ \E f \in Calls : Age(f)
    \/ \E lost, spilled, cut \in SUBSET Calls : Crash(lost, spilled, cut)
    \/ Recovery

Spec == Init /\ [][Next]_vars

(* Every step of the program is eventually taken once it stays possible.   *)
(* The semaphore is first come, first served, so a dispatcher that waits   *)
(* is not overtaken for ever.  Nothing is assumed of the calls, the drain, *)
(* the credential, the clock, the crashes, or the store, whose requests    *)
(* have no timeout.                                                        *)
Fairness ==
    /\ \A c \in Calls :
          /\ WF_vars(Hand(c))
          /\ WF_vars(\E t \in tasks : t.item.file = c /\ t.pc # "wire" /\ TaskStep(t))
    /\ WF_vars(Worker) /\ SF_vars(Dispatch)
    /\ WF_vars(Recovery)

FairSpec == Spec /\ Fairness

-----------------------------------------------------------------------------
Handing == {c \in Calls : call[c].pc \in {"written", "sending", "refused"}}
Counted == {c \in Calls : call[c].pc \in {"sending", "refused"}}
OwnedBy(f) == {item \in Held : item.file = f}

(* The sum of a function's values, counted byte by byte.                   *)
Total(size) == Cardinality(UNION {{x} \X (1..size[x]) : x \in DOMAIN size})

PendingExact == stats.pending = Cardinality(Held) + Cardinality(Counted)
BytesExact == stats.bytes = Total([item \in Held |-> item.bytes])
                            + Total([c \in Counted |-> call[c].bytes])
InflightExact == stats.inflight = Quantify(tasks, LAMBDA t : t.pc # "start")

(* The counters that gate the disk budget and that wait_idle polls are     *)
(* exact while the worker lives: pending counts the items the queue holds  *)
(* and those waiting for room, pending_bytes their bytes, and inflight the *)
(* tasks past their start, through every rollback, fallback, retry, park   *)
(* and settlement.  Only the bytes of an item whose file the start-up      *)
(* sweep deleted are never given back: what an item gives back is the size *)
(* its file has when it is processed.                                      *)
CountersExact == worker.pc # "aborted" =>
    PendingExact /\ InflightExact /\ (~stats.swept => BytesExact)

(* ConcurrencyPermit: slots are neither lost nor made up nor overdrawn, so *)
(* at most MaxConcurrent tasks hold one, and a task uses the wire only     *)
(* with a slot, however often it parks and resumes.                        *)
SlotsConserved ==
    /\ free >= 0 /\ free + Quantify(tasks, LAMBDA t : t.slot) = MaxConcurrent
    /\ \A t \in tasks : t.slot <=> t.pc \in {"start", "wire"}

(* A file on disk has one owner: the recovery scan, which runs before any  *)
(* new call, never re-enqueues a pair that a call of this life has handed  *)
(* to the queue, and a rejected item is not both queued and uploaded       *)
(* inline.                                                                 *)
OwnedOnce ==
    \A f \in Calls :
        Cardinality(OwnedBy(f)) + Quantify(inline, LAMBDA u : u.file = f)
            + Cardinality({f} \cap Handing) <= 1

(* What enqueue_bytes_blocking and enqueue_blocking promise: an accepted   *)
(* pair is on disk, through drains, aborts, crashes, recoveries refused by *)
(* a full queue and sweeps, until it was uploaded, given up by a policy,   *)
(* or found torn.                                                          *)
Durable == owed \subseteq temp \cap meta

(* A pair on disk is still to be uploaded: whatever was uploaded, given up *)
(* or refused leaves no pair for the next recovery to upload again, even   *)
(* if the process ends between the removal of the temp and of the sidecar  *)
(* (remove_item_files).                                                    *)
NothingResurfaces == temp \cap meta \subseteq owed

(* The in-flight set holds the object exactly while one caller or item     *)
(* holds the guard: a guard that outlived its item would deduplicate every *)
(* later upload of the object away, one that died early would let two run. *)
GuardHasHolder ==
    LET holders == {item.file : item \in {i \in Held : i.mark}}
                   \cup {c \in Handing : call[c].hash}
    IN Cardinality(holders) = IF marked THEN 1 ELSE 0

(* In the first life of a queue that was not aborted, every file in the    *)
(* queue directory belongs to a caller, a queued item or an inline upload: *)
(* no outcome leaves a temp or a sidecar behind.  The exception is the     *)
(* part of a file whose copy into the directory failed: nobody removes it  *)
(* before the sweep of a later life finds it past the age.                 *)
NothingLeaks ==
    crashes = 0 /\ worker.pc # "aborted" =>
        \A f \in (temp \ torn) \cup meta :
            OwnedBy(f) # {} \/ f \in Handing \/ \E u \in inline : u.file = f /\ u.temp

(* The store answers every request some day, the inline ones too.          *)
StoreAnswers ==
    \A c \in Calls :
        /\ WF_vars(\E t \in tasks : t.item.file = c /\ t.pc = "wire" /\ TaskStep(t))
        /\ WF_vars(\E u \in inline : u.file = c /\ InlineEnds(u))

(* If the store answers every request, every caller that awaits its upload *)
(* is answered: by the upload, by an error, by the item parking, or by the *)
(* worker's end.  Retries, parked items, the cooldown and a full set of    *)
(* slots delay it, never for ever; only a store that never answers could.  *)
WaitersAnswered ==
    StoreAnswers => \A c \in Calls : call[c].reply = "waiting" ~> call[c].reply # "waiting"
=============================================================================
