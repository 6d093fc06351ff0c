-------------------------- MODULE UploadQueueProofs --------------------------
(***************************************************************************)
(* Theorems about the upload queue and its restart recovery, for any       *)
(* number of calls, upload slots, attempts and process lives.              *)
(***************************************************************************)
EXTENDS UploadQueue, FiniteSetTheorems, TLAPS

-----------------------------------------------------------------------------
(* The inductive invariant, in parts.                                      *)

CallStates == [pc : {"idle", "written", "sending", "refused", "done"}, op : Ops \cup {None},
               hash : BOOLEAN, bytes : 0..2, reply : Replies]

Inlines == [file : Calls, temp : BOOLEAN, tx : BOOLEAN]

WorkerPoints == {"loop", "select", "permit", "cooldown", "drain", "join", "gone", "aborted"}

Counters == [pending : Int, bytes : Int, inflight : Int, failures : Int, swept : BOOLEAN]

\* The type invariant without the ranges of the counters, which hold because the
\* counters are exact.
Shape ==
    /\ phase \in {"list", "scan", "sweep", "open"} /\ crashes \in Nat
    /\ call \in [Calls -> CallStates]
    /\ temp \subseteq Calls /\ meta \subseteq Calls /\ scan \subseteq Calls
    /\ aged \subseteq Calls /\ torn \subseteq Calls /\ owed \subseteq Calls
    /\ chan \in Seq(Items)
    /\ worker \in [pc : WorkerPoints, item : Items \cup {None}]
    /\ draining \in BOOLEAN /\ marked \in BOOLEAN
    /\ tasks \subseteq Tasks /\ inline \subseteq Inlines
    /\ free \in Int
    /\ stats \in Counters

\* The files of the items in the channel, in the worker's hands, in the upload
\* tasks, and of the inline uploads.
Files(q) == {q[i].file : i \in DOMAIN q}
Once(q) == \A i, j \in DOMAIN q : q[i].file = q[j].file => i = j

ChanFiles == Files(chan)
HandFiles == IF worker.item = None THEN {} ELSE {worker.item.file}
TaskFiles == {t.item.file : t \in tasks}
InlineFiles == {u.file : u \in inline}

\* Each of the four holds a file at most once.
Unique ==
    /\ Once(chan)
    /\ \A t, u \in tasks : t.item.file = u.item.file => t = u
    /\ \A u, v \in inline : u.file = v.file => u = v

\* No file is in two of them, and a file in one of them, or waiting for the
\* recovery, is of a call that is over.
OneOwner(f) ==
    /\ f \in ChanFiles => f \notin HandFiles \cup TaskFiles \cup InlineFiles \cup scan
    /\ f \in HandFiles => f \notin TaskFiles \cup InlineFiles \cup scan
    /\ f \in TaskFiles => f \notin InlineFiles \cup scan
    /\ f \in InlineFiles => f \notin scan
    /\ f \in ChanFiles \cup HandFiles \cup TaskFiles \cup InlineFiles \cup scan
          => call[f].pc = "done"

\* The workspace's order: no call runs before the directory has been scanned, and
\* before it is listed the queue is empty.
Phases ==
    /\ ~Detached
    /\ phase # "open" => inline = {} /\ \A c \in Calls : call[c].pc \in {"idle", "done"}
    /\ phase = "list" => chan = <<>> /\ tasks = {} /\ worker.item = None
    /\ phase # "scan" => scan = {}
    /\ scan \subseteq meta

\* An item in the worker's hands waits for a slot.
Hands == worker.pc = "permit" <=> worker.item # None

\* What is on disk of a call that is not over, or goes inline.
OnDisk ==
    /\ \A c \in Calls : call[c].pc # "done" => c \notin meta
    /\ \A c \in Calls : call[c].pc = "idle" => c \notin temp
    /\ InlineFiles \cap meta = {}
    /\ Handing \subseteq temp

\* An item of the queue has its temp on disk, unless the sweep took one.
HeldFiles == ChanFiles \cup HandFiles \cup TaskFiles
Backed == ~stats.swept => HeldFiles \subseteq temp

Owned == Unique /\ (\A f \in Calls : OneOwner(f)) /\ Phases /\ Hands /\ OnDisk /\ Backed

\* The pairs on disk are the ones taken on and not yet uploaded or given up.
Promised == owed = temp \cap meta

\* Before the first crash nothing on disk but a part of a file is without an owner,
\* and the directory is empty until calls may run.
TempInlines == {u.file : u \in {v \in inline : v.temp}}
NoLeak ==
    crashes = 0 =>
        /\ worker.pc # "aborted" => (temp \ torn) \cup meta \subseteq HeldFiles \cup Handing \cup TempInlines
        /\ phase # "open" => temp = {} /\ meta = {}

\* A task is on the wire with a slot, and parked without.
SlotFiles == {t.item.file : t \in {u \in tasks : u.slot}}
Slots == /\ free >= 0 /\ free + Cardinality(SlotFiles) = MaxConcurrent
         /\ \A t \in tasks : t.slot <=> t.pc \in {"start", "wire"}

\* The files the counters count.
Busy == HeldFiles \cup Counted
Flying == {t.item.file : t \in {u \in tasks : u.pc # "start"}}
Counts == worker.pc # "aborted" =>
    stats.pending = Cardinality(Busy) /\ stats.inflight = Cardinality(Flying)

\* The bytes of the files the counters count, by file, and each byte once.
HeldSizes == {<<item.file, item.bytes>> : item \in Held}
CallSizes == {<<c, call[c].bytes>> : c \in Counted}
Sizes == HeldSizes \cup CallSizes
Load(P) == {x \in Calls \X (1..2) : \E p \in P : p[1] = x[1] /\ x[2] <= p[2]}

\* A task past its start gives back what its item took, if its temp was there.
Exact ==
    /\ worker.pc # "aborted" => stats.bytes = Cardinality(Load(Sizes))
    /\ \A t \in tasks : t.pc # "start" => t.accounted = t.item.bytes
Bytes == ~stats.swept => Exact

-----------------------------------------------------------------------------
(* Types.                                                                  *)

\* A call that is over is a call state.
LEMMA AnswerType ==
  ASSUME call \in [Calls -> CallStates], NEW c \in Calls, NEW reply \in Replies
  PROVE  /\ Answer(c, reply) \in [Calls -> CallStates]
         /\ Answer(c, reply)[c].pc = "done"
         /\ \A d \in Calls : d # c => Answer(c, reply)[d] = call[d]
<1> DEFINE over == [Idle EXCEPT !.pc = "done", !.reply = reply]
<1>0. Idle \in CallStates
  BY DEF Idle, CallStates, Replies
<1>1. over \in CallStates /\ over.pc = "done"
  BY <1>0 DEF CallStates
<1> HIDE DEF over
<1>2. Answer(c, reply) = [call EXCEPT ![c] = over]
  BY DEF Answer, over
<1> QED BY <1>1, <1>2

\* Replies handed out by the enqueue operations.
LEMMA ReplyType ==
  /\ \A op : ReplyNow(op) \in Replies
  /\ {"none", "waiting", "answered"} \subseteq Replies
BY DEF ReplyNow, Replies

\* What a call hands to the queue is an item.
LEMMA NewItemType ==
  ASSUME call \in [Calls -> CallStates], NEW c \in Calls
  PROVE  NewItem(c) \in Items /\ NewItem(c).file = c /\ NewItem(c).mark = call[c].hash
BY DEF NewItem, Items, CallStates, Awaits

\* What recovery hands to the queue is an item.
LEMMA RecoveredType ==
  ASSUME NEW f \in Calls
  PROVE  Recovered(f) \in Items /\ Recovered(f).file = f /\ ~Recovered(f).mark
BY DEF Recovered, Items

\* The counters stay numbers.
LEMMA CounterType ==
  ASSUME NEW s \in Counters, NEW b \in Int, NEW i \in Int, NEW n \in Int
  PROVE  /\ Rises(s, b) \in Counters /\ Falls(s, b) \in Counters
         /\ Rises(s, b).pending = s.pending + 1 /\ Rises(s, b).inflight = s.inflight
         /\ Falls(s, b).pending = s.pending - 1 /\ Falls(s, b).inflight = s.inflight
         /\ Falls(s, b).bytes = s.bytes - b /\ Rises(s, b).bytes = s.bytes + b
         /\ Falls(s, b).swept = s.swept /\ Rises(s, b).swept = s.swept
         /\ [s EXCEPT !.inflight = i] \in Counters /\ [s EXCEPT !.failures = n] \in Counters
<1>0. ASSUME NEW x \in Int, NEW y \in Int
      PROVE  [s EXCEPT !.pending = x, !.bytes = y] \in Counters
  BY DEF Counters
<1>1. Rises(s, b) \in Counters /\ Falls(s, b) \in Counters
  <2>1. /\ s.pending + 1 \in Int /\ s.bytes + b \in Int
        /\ s.pending - 1 \in Int /\ s.bytes - b \in Int
    BY DEF Counters
  <2> QED BY <1>0, <2>1 DEF Rises, Falls
<1>2. /\ Rises(s, b).pending = s.pending + 1 /\ Rises(s, b).inflight = s.inflight
      /\ Falls(s, b).pending = s.pending - 1 /\ Falls(s, b).inflight = s.inflight
      /\ Falls(s, b).bytes = s.bytes - b /\ Rises(s, b).bytes = s.bytes + b
      /\ Falls(s, b).swept = s.swept /\ Rises(s, b).swept = s.swept
  BY DEF Rises, Falls, Counters
<1>3. [s EXCEPT !.inflight = i] \in Counters /\ [s EXCEPT !.failures = n] \in Counters
  BY DEF Counters
<1> QED BY <1>1, <1>2, <1>3

\* The items in the queue's hands are items.
LEMMA HeldType ==
  ASSUME Shape
  PROVE  Held \subseteq Items /\ ToSet(chan) \subseteq Items
         /\ \A t \in tasks : t.item \in Items /\ t.item.file \in Calls
<1>1. ToSet(chan) \subseteq Items
  BY DEF Shape, ToSet
<1>2. \A t \in tasks : t.item \in Items /\ t.item.file \in Calls
  BY DEF Shape, Tasks, Items
<1>3. worker.item # None => worker.item \in Items
  BY DEF Shape
<1> QED BY <1>1, <1>2, <1>3 DEF Held
-----------------------------------------------------------------------------
(* What the steps of an upload task do.                                    *)

One(b) == IF b THEN 1 ELSE 0

\* No call gets on by the step: at most a sender is refused, and the answer of a
\* call that is over changes.
Steady ==
    /\ call' \in [Calls -> CallStates]
    /\ \A c \in Calls :
          /\ \/ call'[c].pc = call[c].pc
             \/ call[c].pc = "sending" /\ call'[c].pc = "refused"
          /\ c \in Handing => call'[c].hash = call[c].hash /\ call'[c].bytes = call[c].bytes

\* A task is over: its files go, and what it held is given back.
Settled(t) ==
    /\ tasks' = tasks \ {t}
    /\ RemoveFiles(t.item.file)
    /\ Steady
    /\ free' = free + One(t.slot)
    /\ marked' = (marked /\ ~t.item.mark)
    /\ stats' \in Counters /\ stats'.swept = stats.swept
    /\ stats'.pending = stats.pending - 1
    /\ stats'.inflight = stats.inflight - One(t.pc # "start")
    /\ stats'.bytes = stats.bytes
                        - (IF t.pc = "start" THEN Accounted(t.item) ELSE t.accounted)

\* A task goes on with the same file, bytes and guard.
Changed(t, u) ==
    /\ tasks' = (tasks \ {t}) \cup {u} /\ u \in Tasks
    /\ u.item.file = t.item.file /\ u.item.mark = t.item.mark /\ u.item.bytes = t.item.bytes
    /\ u.item.kind = t.item.kind
    /\ u.accounted = (IF t.pc = "start" THEN Accounted(t.item) ELSE t.accounted)
    /\ u.pc # "start" /\ (u.slot <=> u.pc = "wire")
    /\ t.slot \/ ~u.slot \/ free > 0
    /\ UNCHANGED <<disk, owed, marked>>
    /\ Steady
    /\ free' = free + One(t.slot) - One(u.slot)
    /\ stats' \in Counters /\ stats'.swept = stats.swept
    /\ stats'.pending = stats.pending
    /\ stats'.inflight = stats.inflight + One(t.pc = "start")
    /\ stats'.bytes = stats.bytes

\* The waiter of a held item is over with its call.
LEMMA NotifiedKept ==
  ASSUME Shape, Owned, NEW t \in tasks, call' \in {call, Notified(t)}
  PROVE  Steady
<1>1. t.item.file \in Calls /\ t.item.file \in TaskFiles /\ call \in [Calls -> CallStates]
  BY HeldType DEF TaskFiles, Shape
<1>2. call[t.item.file].pc = "done"
  BY <1>1 DEF Owned, OneOwner
<1> DEFINE f == t.item.file
<1> HIDE DEF f
<1>3. CASE call' = call
  BY <1>1, <1>3 DEF Steady
<1>4. CASE call' = Answer(f, "answered")
  <2>1. /\ call' \in [Calls -> CallStates] /\ call'[f].pc = "done"
        /\ \A d \in Calls : d # f => call'[d] = call[d]
    BY <1>1, <1>4, AnswerType, ReplyType DEF f
  <2> QED BY <1>1, <1>2, <2>1 DEF Steady, Handing, f
<1> QED BY <1>3, <1>4 DEF Notified, f

\* Bytes at processing time are a number.
LEMMA AccountedType ==
  ASSUME NEW item \in Items
  PROVE  Accounted(item) \in 0..2
BY DEF Accounted, Items

\* Settle is the end of a task past its start.
LEMMA SettleEffect ==
  ASSUME Shape, Owned, NEW t \in tasks, t.pc # "start", NEW n \in Int, Settle(t, n)
  PROVE  Settled(t)
<1>1. Steady
  BY NotifiedKept DEF Settle
<1>2. t.accounted \in Int /\ stats \in Counters
  BY DEF Shape, Tasks
<1> DEFINE s == Falls(stats, t.accounted)
<1>3. /\ s \in Counters /\ s.pending = stats.pending - 1 /\ s.inflight = stats.inflight
      /\ s.bytes = stats.bytes - t.accounted /\ s.swept = stats.swept
  BY <1>2, CounterType
<1>4. stats' = [s EXCEPT !.inflight = @ - 1, !.failures = n]
  BY DEF Settle
<1> HIDE DEF s
<1>5. s.inflight - 1 \in Int
  BY <1>3 DEF Counters
<1>6. ASSUME NEW x \in Int PROVE [s EXCEPT !.inflight = x, !.failures = n] \in Counters
  BY <1>3 DEF Counters
<1>7. /\ stats' \in Counters /\ stats'.pending = stats.pending - 1
      /\ stats'.inflight = stats.inflight - 1 /\ stats'.bytes = stats.bytes - t.accounted
      /\ stats'.swept = stats.swept
  <2>1. stats' \in Counters
    BY <1>4, <1>5, <1>6
  <2> QED BY <1>3, <1>4, <2>1 DEF Counters
<1>8. free' = free + One(t.slot)
  BY DEF Settle, One, Shape
<1> QED BY <1>1, <1>7, <1>8 DEF Settled, Settle, One

\* A failure in a row more, at most the threshold.
LEMMA FailuresType ==
  ASSUME Shape
  PROVE  stats.failures \in Int /\ OneMoreFailure \in Int
BY ConfigAssumption DEF Shape, Counters, OneMoreFailure

\* Every step of a task ends it or changes it in place.
LEMMA TaskEffect ==
  ASSUME Shape, Owned, Slots, NEW t \in tasks, TaskStep(t) \/ (Wake(t) /\ TaskFrame)
  PROVE  TaskFrame /\ (Settled(t) \/ \E u : Changed(t, u))
<1>0. /\ t \in Tasks /\ t.item \in Items /\ t.accounted \in 0..2 /\ free \in Int
      /\ t.attempts \in 0..MaxAttempts /\ t.slot \in BOOLEAN /\ stats \in Counters
      /\ (t.slot <=> t.pc \in {"start", "wire"})
      /\ MaxAttempts \in Nat
  BY ConfigAssumption DEF Shape, Tasks, Slots
<1>1. TaskFrame
  BY DEF TaskStep
<1>2. ASSUME t.pc # "start", NEW n \in Int, Settle(t, n) PROVE Settled(t)
  BY <1>2, SettleEffect
<1>3. stats.failures \in Int /\ OneMoreFailure \in Int /\ 0 \in Int
  BY FailuresType
<1>4. CASE Start(t)
  <2> DEFINE acc == Accounted(t.item)
             u == [t EXCEPT !.pc = "wire", !.accounted = acc]
  <2>1. acc \in 0..2
    BY <1>0, AccountedType
  <2>2. u \in Tasks /\ u.item = t.item /\ u.pc = "wire" /\ u.accounted = acc /\ u.slot = t.slot
    <3> HIDE DEF acc
    <3> QED BY <1>0, <2>1 DEF Tasks
  <2>3. CASE /\ tasks' = tasks \ {t} /\ RemoveFiles(t.item.file) /\ stats' = Falls(stats, acc)
             /\ call' = Notified(t) /\ free' = free + 1 /\ marked' = (marked /\ ~t.item.mark)
    <3>1. Steady
      BY <2>3, NotifiedKept
    <3>2. /\ stats' \in Counters /\ stats'.pending = stats.pending - 1
          /\ stats'.inflight = stats.inflight /\ stats'.bytes = stats.bytes - acc
          /\ stats'.swept = stats.swept
      <4>1. acc \in Int
        BY <2>1
      <4> HIDE DEF acc
      <4> QED BY <1>0, <2>3, <4>1, CounterType
    <3>3. t.pc = "start" /\ One(t.slot) = 1 /\ One(t.pc # "start") = 0
      BY <1>0, <1>4 DEF Start, One
    <3>4. stats.inflight \in Int /\ stats.inflight - 0 = stats.inflight
      BY <1>0 DEF Counters
    <3> QED BY <1>1, <2>3, <3>1, <3>2, <3>3, <3>4 DEF Settled
  <2>4. CASE /\ Becomes(t, u) /\ stats' = [stats EXCEPT !.inflight = @ + 1]
             /\ UNCHANGED <<call, free>>
    <3>1. Steady
      BY <2>4, NotifiedKept
    <3>2. /\ t.pc = "start" /\ One(t.slot) = 1 /\ One(t.pc = "start") = 1 /\ One(u.slot) = 1
          /\ t.slot
      BY <1>0, <1>4, <2>2 DEF Start, One
    <3>3. stats.inflight + 1 \in Int
      BY <1>0 DEF Counters
    <3>4. stats' \in Counters
      BY <1>0, <2>4, <3>3, CounterType
    <3>5. /\ stats'.pending = stats.pending /\ stats'.inflight = stats.inflight + 1
          /\ stats'.bytes = stats.bytes /\ stats'.swept = stats.swept
      BY <1>0, <2>4 DEF Counters
    <3>6. free' = free + 1 - 1
      BY <1>0, <2>4
    <3>7. Changed(t, u)
      <4> HIDE DEF u
      <4> QED BY <1>0, <2>2, <2>4, <3>1, <3>2, <3>4, <3>5, <3>6 DEF Changed, Becomes
    <3> QED BY <1>1, <3>7
  <2> QED BY <1>4, <2>3, <2>4 DEF Start
<1>5. ASSUME NEW u \in Tasks, u.item.file = t.item.file, u.item.mark = t.item.mark,
             u.item.bytes = t.item.bytes, u.item.kind = t.item.kind, u.accounted = t.accounted,
             u.pc # "start", u.slot <=> u.pc = "wire", t.slot \/ ~u.slot \/ free > 0,
             t.pc # "start", Becomes(t, u),
             free' = free + One(t.slot) - One(u.slot), stats' = stats,
             call' \in {call, Notified(t)}
      PROVE  Changed(t, u)
  <2>1. Steady
    BY <1>5, NotifiedKept
  <2>2. stats.inflight + One(t.pc = "start") = stats.inflight
    BY <1>0, <1>5 DEF One, Counters
  <2> QED BY <1>0, <1>5, <2>1, <2>2 DEF Changed, Becomes
<1>6. free + One(t.slot) - One(t.slot) = free /\ One(TRUE) = 1 /\ One(FALSE) = 0
  BY <1>0 DEF One
<1>7. ASSUME NEW outcome \in Outcomes, Wire(t, outcome) PROVE Settled(t) \/ \E u : Changed(t, u)
  <2> DEFINE v == Attempted(t)
  <2>1. t.pc = "wire" /\ t.slot = TRUE
    BY <1>0, <1>7 DEF Wire
  <2>2. /\ v \in Tasks /\ v.item = t.item /\ v.accounted = t.accounted /\ v.pc = "wire"
        /\ v.slot = TRUE
    BY <1>0, <2>1 DEF Attempted, Tasks
  <2> HIDE DEF v
  <2>3. CASE \E n \in Int : Settle(t, n)
    BY <1>2, <2>1, <2>3
  <2>4. CASE Becomes(t, v) /\ UNCHANGED <<call, free, stats>>
    <3>1. Changed(t, v)
      BY <1>5, <1>6, <2>1, <2>2, <2>4
    <3> QED BY <3>1
  <2>5. CASE Becomes(t, [v EXCEPT !.retried = TRUE]) /\ UNCHANGED <<call, free, stats>>
    <3> DEFINE u == [v EXCEPT !.retried = TRUE]
    <3>1. u \in Tasks /\ u.item = t.item /\ u.accounted = t.accounted /\ u.pc = "wire" /\ u.slot = TRUE
      BY <2>2 DEF Tasks
    <3> HIDE DEF u
    <3>2. Changed(t, u)
      BY <1>5, <1>6, <2>1, <2>5, <3>1 DEF u
    <3> QED BY <3>2
  <2>6. CASE /\ Becomes(t, [v EXCEPT !.pc = "parked", !.slot = SlotWhileParked, !.item.tx = FALSE])
             /\ call' = Notified(t) /\ free' = (IF SlotWhileParked THEN free ELSE free + 1)
             /\ UNCHANGED stats
    <3> DEFINE i == [t.item EXCEPT !.tx = FALSE]
               u == [v EXCEPT !.pc = "parked", !.slot = FALSE, !.item = i]
    <3>1. i \in Items /\ i.file = t.item.file /\ i.mark = t.item.mark /\ i.bytes = t.item.bytes
          /\ i.kind = t.item.kind
      BY <1>0 DEF Items
    <3>2. [v EXCEPT !.pc = "parked", !.slot = SlotWhileParked, !.item.tx = FALSE] = u
      BY <2>2 DEF SlotWhileParked, Tasks
    <3> HIDE DEF i
    <3>3. u \in Tasks /\ u.item = i /\ u.accounted = t.accounted /\ u.pc = "parked" /\ u.slot = FALSE
      BY <2>2, <3>1 DEF Tasks
    <3> HIDE DEF u
    <3>4. free' = free + One(t.slot) - One(u.slot)
      BY <1>0, <2>1, <2>6, <3>3 DEF SlotWhileParked, One
    <3>5. Changed(t, u)
      BY <1>5, <2>1, <2>6, <3>1, <3>2, <3>3, <3>4
    <3> QED BY <3>5
  <2> QED BY <1>3, <1>7, <2>3, <2>4, <2>5, <2>6 DEF Wire, v
<1>8. CASE Bail(t)
  BY <1>1, <1>2, <1>3, <1>8 DEF Bail
<1>9. CASE Wake(t)
  <2>1. t.pc = "parked" /\ t.slot = FALSE
    BY <1>0, <1>9 DEF Wake
  <2> DEFINE u == [t EXCEPT !.pc = "reacquire"]
  <2>2. u \in Tasks /\ u.item = t.item /\ u.accounted = t.accounted /\ u.pc = "reacquire" /\ u.slot = FALSE
    BY <1>0, <2>1 DEF Tasks
  <2>3. CASE Settle(t, OneMoreFailure)
    BY <1>1, <1>2, <1>3, <2>1, <2>3
  <2>4. CASE Becomes(t, u) /\ UNCHANGED <<call, free, stats>>
    <3> HIDE DEF u
    <3>1. Changed(t, u)
      BY <1>5, <1>6, <2>1, <2>2, <2>4
    <3> QED BY <1>1, <3>1
  <2> QED BY <1>9, <2>3, <2>4 DEF Wake
<1>10. CASE Reacquire(t)
  <2>1. t.pc = "reacquire" /\ t.slot = FALSE
    BY <1>0, <1>10 DEF Reacquire
  <2> DEFINE u == [t EXCEPT !.pc = "wire", !.slot = TRUE, !.retried = FALSE]
  <2>2. u \in Tasks /\ u.item = t.item /\ u.accounted = t.accounted /\ u.pc = "wire" /\ u.slot = TRUE
    BY <1>0, <2>1 DEF Tasks
  <2>3. Becomes(t, u) /\ free' = free - 1 /\ free > 0 /\ UNCHANGED <<call, stats>>
    BY <1>10, <2>1 DEF Reacquire
  <2> HIDE DEF u
  <2>4. free' = free + One(t.slot) - One(u.slot)
    BY <1>0, <2>1, <2>2, <2>3 DEF One
  <2>5. Changed(t, u)
    BY <1>5, <2>1, <2>2, <2>3, <2>4
  <2> QED BY <1>1, <2>5
<1> QED BY <1>1, <1>4, <1>7, <1>8, <1>9, <1>10 DEF TaskStep

-----------------------------------------------------------------------------
(* The other steps.                                                        *)

\* The steps of the worker and of drain() that move no item.
Idles ==
    \/ LoopTop \/ CooldownEnds \/ Shutdown \/ DrainEmpty \/ JoinEnds \/ HandlesDrop
    \/ Drain \/ DrainDone
    \/ \E f \in Calls : Age(f)

\* A refused sender keeps everything but its place.
LEMMA RefusedType ==
  ASSUME call \in [Calls -> CallStates], NEW refuse \in SUBSET Sending
  PROVE  /\ Refused(refuse) \in [Calls -> CallStates]
         /\ \A c \in Calls :
               \/ Refused(refuse)[c] = call[c]
               \/ /\ call[c].pc = "sending" /\ Refused(refuse)[c].pc = "refused"
                  /\ Refused(refuse)[c].hash = call[c].hash /\ Refused(refuse)[c].bytes = call[c].bytes
<1>1. ASSUME NEW c \in Calls
      PROVE  /\ [call[c] EXCEPT !.pc = "refused"] \in CallStates
             /\ [call[c] EXCEPT !.pc = "refused"].pc = "refused"
             /\ [call[c] EXCEPT !.pc = "refused"].hash = call[c].hash
             /\ [call[c] EXCEPT !.pc = "refused"].bytes = call[c].bytes
             /\ call[c] \in CallStates
  BY <1>1 DEF CallStates
<1>2. ASSUME NEW c \in Calls
      PROVE  /\ Refused(refuse)[c] \in CallStates
             /\ \/ Refused(refuse)[c] = call[c]
                \/ /\ call[c].pc = "sending" /\ Refused(refuse)[c].pc = "refused"
                   /\ Refused(refuse)[c].hash = call[c].hash /\ Refused(refuse)[c].bytes = call[c].bytes
  BY <1>1, <1>2 DEF Refused, Sending
<1>3. Refused(refuse) = [c \in Calls |-> Refused(refuse)[c]]
  BY DEF Refused
<1> QED BY <1>2, <1>3

\* What those steps leave alone.
LEMMA IdleEffect ==
  ASSUME Shape, Hands, Idles
  PROVE  /\ phase' = phase /\ crashes' = crashes /\ temp' = temp /\ meta' = meta /\ scan' = scan
         /\ chan' = chan /\ tasks' = tasks /\ inline' = inline /\ owed' = owed /\ torn' = torn
         /\ free' = free /\ marked' = marked
         /\ worker'.item = worker.item /\ worker' \in [pc : WorkerPoints, item : Items \cup {None}]
         /\ worker'.pc = "aborted" <=> worker.pc = "aborted"
         /\ Hands'
         /\ Steady
         /\ stats' \in Counters /\ stats'.pending = stats.pending /\ stats'.inflight = stats.inflight
         /\ stats'.bytes = stats.bytes /\ stats'.swept = stats.swept
         /\ draining' \in BOOLEAN
         /\ aged' \subseteq Calls
<1>0. /\ call \in [Calls -> CallStates] /\ stats \in Counters /\ draining \in BOOLEAN
      /\ worker \in [pc : WorkerPoints, item : Items \cup {None}] /\ aged \subseteq Calls
  BY DEF Shape
<1>1. ASSUME call' = call PROVE Steady
  BY <1>0, <1>1 DEF Steady
<1>2. ASSUME NEW pc \in {"loop", "select", "cooldown", "drain", "join"},
             NEW next \in {"select", "cooldown", "drain", "join", "gone"},
             WorkerStep(pc, next)
      PROVE  /\ worker'.item = worker.item /\ worker' \in [pc : WorkerPoints, item : Items \cup {None}]
             /\ worker'.pc = "aborted" <=> worker.pc = "aborted"
             /\ Hands'
             /\ phase' = phase /\ crashes' = crashes /\ temp' = temp /\ meta' = meta /\ scan' = scan
             /\ tasks' = tasks /\ inline' = inline /\ owed' = owed /\ torn' = torn
             /\ free' = free /\ marked' = marked /\ aged' = aged
  <2>1. worker.pc = pc /\ worker' = [worker EXCEPT !.pc = next]
    BY <1>2 DEF WorkerStep
  <2>2. worker'.item = worker.item /\ worker'.pc = next
        /\ worker' \in [pc : WorkerPoints, item : Items \cup {None}]
    BY <1>0, <2>1 DEF WorkerPoints
  <2>3. Hands'
    BY <2>1, <2>2 DEF Hands
  <2> QED BY <1>2, <2>1, <2>2, <2>3 DEF WorkerStep, disk
<1>3. CASE LoopTop \/ DrainEmpty \/ JoinEnds
  <2>1. /\ \E pc \in {"loop", "drain", "join"}, next \in {"select", "cooldown", "join", "gone"} :
              WorkerStep(pc, next)
        /\ UNCHANGED <<call, chan, draining, stats>>
    BY <1>3 DEF LoopTop, DrainEmpty, JoinEnds
  <2> QED BY <1>0, <1>1, <1>2, <2>1
<1>4. CASE CooldownEnds
  <2>1. /\ WorkerStep("cooldown", "select") /\ UNCHANGED <<call, chan, draining>>
        /\ stats' = [stats EXCEPT !.failures = 0]
    BY <1>4 DEF CooldownEnds
  <2>2. /\ stats' \in Counters /\ stats'.pending = stats.pending
        /\ stats'.inflight = stats.inflight /\ stats'.bytes = stats.bytes
        /\ stats'.swept = stats.swept
    BY <1>0, <2>1 DEF Counters
  <2> QED BY <1>0, <1>1, <1>2, <2>1, <2>2
<1>5. CASE Shutdown
  <2>1. /\ WorkerStep("select", "drain") \/ WorkerStep("cooldown", "drain")
        /\ draining' = TRUE /\ UNCHANGED <<chan, stats>>
        /\ \E refuse \in SUBSET Sending : call' = Refused(refuse)
    BY <1>5 DEF Shutdown
  <2>2. Steady
    BY <1>0, <2>1, RefusedType DEF Steady
  <2> QED BY <1>0, <1>2, <2>1, <2>2
<1>6. CASE Drain \/ DrainDone \/ \E f \in Calls : Age(f)
  <2>1. /\ UNCHANGED <<phase, crashes, call, temp, meta, torn, scan, chan, worker, draining, tasks,
                       free, stats, marked, inline, owed>>
        /\ aged' \subseteq Calls
    BY <1>0, <1>6 DEF Drain, DrainDone, Age, disk, work
  <2>2. Hands'
    BY <2>1 DEF Hands
  <2> QED BY <1>0, <1>1, <2>1, <2>2
<1>7. CASE HandlesDrop
  <2>1. WorkerStep("select", "join") /\ draining' = TRUE /\ UNCHANGED <<call, chan, stats>>
    BY <1>7 DEF HandlesDrop
  <2> QED BY <1>0, <1>1, <1>2, <2>1
<1> QED BY <1>3, <1>4, <1>5, <1>6, <1>7 DEF Idles

\* One call gets to another point, the others stay.
CallMoves(c, pc) ==
    /\ call' \in [Calls -> CallStates] /\ call'[c].pc = pc
    /\ \A d \in Calls : d # c => call'[d] = call[d]

\* What no step of a call touches; a failed write leaves a part of a file.
CallFrame ==
    /\ UNCHANGED <<phase, crashes, aged, scan, worker, drain, draining, tasks, free>>
    /\ torn \subseteq torn' /\ torn' \subseteq Calls
    /\ stats'.swept = stats.swept

\* A call is answered: nothing of it is left but a part of its file, or an inline
\* upload, which then owns the temp if one is left.
CallEnds(c) ==
    /\ CallMoves(c, "done")
    /\ \/ inline' = inline /\ (c \in temp' => c \in torn')
       \/ \E u \in Inlines : /\ u.file = c /\ inline' = inline \cup {u}
                             /\ c \in temp' => u.temp
    /\ temp' \cup {c} = temp \cup {c}
    /\ UNCHANGED <<meta, chan, owed>>

\* An inline fallback upload is one.
LEMMA InlineForType ==
  ASSUME NEW c \in Calls, NEW op, NEW owned \in BOOLEAN
  PROVE  /\ InlineFor(c, op, owned) \in Inlines /\ InlineFor(c, op, owned).file = c
         /\ InlineFor(c, op, owned).temp = owned
BY DEF InlineFor, Inlines, Awaits

\* The first half of an enqueue answers the call or writes its temp.
LEMMA BeginEffect ==
  ASSUME Shape, Owned, NEW c \in Calls, NEW op \in Ops, NEW hash \in BOOLEAN, NEW bytes \in 0..2,
         Begin(c, op, hash, bytes)
  PROVE  /\ CallFrame /\ stats' = stats /\ UNCHANGED <<meta, chan, owed>>
         /\ phase = "open" /\ call[c].pc = "idle"
         /\ \/ CallEnds(c) /\ marked' = marked
            \/ /\ CallMoves(c, "written") /\ call'[c].hash = hash
               /\ temp' = temp \cup {c} /\ inline' = inline
               /\ ~(hash /\ marked) /\ marked' = (marked \/ hash)
<1>0. /\ call \in [Calls -> CallStates] /\ call[c] \in CallStates
      /\ phase = "open" /\ call[c].pc = "idle" /\ c \notin temp
  BY DEF Shape, Begin, MayEnqueue, Owned, OnDisk, Phases
<1>1. CallFrame /\ stats' = stats /\ UNCHANGED <<meta, chan, owed>>
  BY DEF Begin, CallFrame, Shape
<1>2. ASSUME NEW reply \in Replies, call' = Answer(c, reply) PROVE CallMoves(c, "done")
  BY <1>0, <1>2, AnswerType DEF CallMoves
<1>3. CASE /\ call' = Answer(c, "answered") /\ UNCHANGED <<temp, marked, inline>>
  <2>1. CallMoves(c, "done")
    BY <1>2, <1>3, ReplyType
  <2> QED BY <1>0, <1>1, <1>3, <2>1 DEF CallEnds
<1>6. CASE /\ call' = Answer(c, "answered") /\ UNCHANGED <<marked, inline>>
           /\ temp' = temp \cup {c} /\ torn' = torn \cup {c}
  <2>1. CallMoves(c, "done")
    BY <1>2, <1>6, ReplyType
  <2> QED BY <1>0, <1>1, <1>6, <2>1 DEF CallEnds
<1>4. CASE /\ call' = Answer(c, ReplyNow(op)) /\ UNCHANGED marked
           /\ inline' = inline \cup {InlineFor(c, op, op = "enqueue_file_reference")}
           /\ temp' = IF op = "enqueue_file_reference" THEN temp \cup {c} ELSE temp
  <2> DEFINE owned == op = "enqueue_file_reference"
             u == InlineFor(c, op, owned)
  <2>1. CallMoves(c, "done")
    BY <1>2, <1>4, ReplyType
  <2>2. owned \in BOOLEAN
    OBVIOUS
  <2>4. u \in Inlines /\ u.file = c /\ u.temp = owned
    <3> HIDE DEF owned
    <3> QED BY <2>2, InlineForType
  <2>3. c \in temp' => u.temp
    BY <1>0, <1>4, <2>4
  <2> HIDE DEF u
  <2> QED BY <1>0, <1>1, <1>4, <2>1, <2>3, <2>4 DEF CallEnds, u
<1>5. CASE /\ ~(hash /\ marked)
           /\ call' = [[call EXCEPT ![c].op = op, ![c].hash = hash, ![c].bytes = bytes]
                          EXCEPT ![c].pc = "written"]
           /\ temp' = temp \cup {c} /\ marked' = (marked \/ hash) /\ UNCHANGED inline
  <2> DEFINE r == [call[c] EXCEPT !.op = op, !.hash = hash, !.bytes = bytes, !.pc = "written"]
  <2>1. r \in CallStates /\ r.pc = "written" /\ r.hash = hash
    BY <1>0 DEF CallStates
  <2>2. call' = [call EXCEPT ![c] = r]
    BY <1>0, <1>5
  <2> HIDE DEF r
  <2>3. CallMoves(c, "written") /\ call'[c].hash = hash
    BY <1>0, <2>1, <2>2 DEF CallMoves
  <2> QED BY <1>0, <1>1, <1>5, <2>3
<1> QED BY <1>3, <1>4, <1>5, <1>6 DEF Begin

\* The second half: rejected, waiting for room, or accepted.
LEMMA SendEffect ==
  ASSUME Shape, Owned, NEW c \in Calls, Send(c)
  PROVE  /\ CallFrame /\ call[c].pc = "written"
         /\ \/ /\ CallEnds(c) /\ stats' = stats /\ marked' = (marked /\ ~call[c].hash)
            \/ /\ CallMoves(c, "sending") /\ call'[c].hash = call[c].hash
               /\ call'[c].bytes = call[c].bytes
               /\ stats' = Rises(stats, call[c].bytes)
               /\ UNCHANGED <<temp, meta, chan, marked, inline, owed>>
            \/ /\ CallMoves(c, "done")
               /\ chan' = Append(chan, NewItem(c)) /\ stats' = Rises(stats, call[c].bytes)
               /\ \/ UNCHANGED <<meta, owed>>
                  \/ meta' = meta \cup {c} /\ owed' = owed \cup {c}
               /\ UNCHANGED <<temp, marked, inline>>
<1>0. /\ call \in [Calls -> CallStates] /\ call[c] \in CallStates /\ call[c].pc = "written"
      /\ c \in temp
  BY DEF Shape, Send, Owned, OnDisk, Handing
<1>1. CallFrame
  <2>1. stats'.swept = stats.swept
    <3>1. stats \in Counters /\ call[c].bytes \in Int
      BY <1>0 DEF Shape, CallStates
    <3>2. stats' \in {stats, Rises(stats, call[c].bytes)}
      BY DEF Send, Rejected
    <3>3. Rises(stats, call[c].bytes).swept = stats.swept
      BY <3>1, CounterType
    <3> QED BY <3>2, <3>3
  <2> QED BY <2>1 DEF Send, CallFrame, Shape
<1>2. ASSUME NEW reply \in Replies, call' = Answer(c, reply) PROVE CallMoves(c, "done")
  BY <1>0, <1>2, AnswerType DEF CallMoves
<1> DEFINE op == call[c].op
<1>3. CASE Rejected(c) /\ UNCHANGED owed
  <2>1. CallMoves(c, "done")
    BY <1>2, <1>3, ReplyType DEF Rejected, CallAfterReject
  <2>2. KeepsTemp(op) => FallsBack(op)
    BY DEF KeepsTemp, FallsBack
  <2>3. KeepsTemp(op) \in BOOLEAN
    BY DEF KeepsTemp
  <2> DEFINE u == InlineFor(c, op, KeepsTemp(op))
  <2>4. u \in Inlines /\ u.file = c /\ u.temp = KeepsTemp(op)
    BY <2>3, InlineForType
  <2>5. /\ inline' = (IF FallsBack(op) THEN inline \cup {u} ELSE inline)
        /\ temp' = (IF KeepsTemp(op) THEN temp ELSE temp \ {c})
        /\ marked' = (marked /\ ~call[c].hash) /\ UNCHANGED <<meta, chan, stats, owed>>
    BY <1>3 DEF Rejected, GuardAfterReject, SidecarsAfterReject
  <2> HIDE DEF op, u
  <2>6. CallEnds(c)
    BY <1>0, <2>1, <2>2, <2>4, <2>5 DEF CallEnds
  <2> QED BY <1>0, <1>1, <2>5, <2>6
<1>4. CASE /\ call' = [call EXCEPT ![c].pc = "sending"]
           /\ stats' = Rises(stats, call[c].bytes)
           /\ UNCHANGED <<temp, meta, chan, marked, inline, owed>>
  <2> DEFINE r == [call[c] EXCEPT !.pc = "sending"]
  <2>1. r \in CallStates /\ r.pc = "sending" /\ r.hash = call[c].hash /\ r.bytes = call[c].bytes
    BY <1>0 DEF CallStates
  <2>2. call' = [call EXCEPT ![c] = r]
    BY <1>4
  <2> HIDE DEF r
  <2>3. CallMoves(c, "sending") /\ call'[c] = r
    BY <1>0, <2>1, <2>2 DEF CallMoves
  <2> QED BY <1>0, <1>1, <1>4, <2>1, <2>3
<1>5. CASE /\ call' = Answer(c, ReplyNow(op))
           /\ meta' = IF Spills(op) THEN meta \cup {c} ELSE meta
           /\ owed' = IF Spills(op) THEN owed \cup {c} ELSE owed
           /\ chan' = Append(chan, NewItem(c))
           /\ stats' = Rises(stats, call[c].bytes)
           /\ UNCHANGED <<temp, marked, inline>>
  <2>1. CallMoves(c, "done")
    BY <1>2, <1>5, ReplyType
  <2> QED BY <1>0, <1>1, <1>5, <2>1
<1> QED BY <1>3, <1>4, <1>5 DEF Send

\* A sender that waited for room gets it, or is refused.
LEMMA SendReadyEffect ==
  ASSUME Shape, Owned, NEW c \in Calls, SendReady(c)
  PROVE  /\ CallFrame /\ call[c].pc = "sending" /\ CallMoves(c, "done")
         /\ chan' = Append(chan, NewItem(c))
         /\ UNCHANGED <<temp, meta, stats, marked, inline, owed>>
BY AnswerType, ReplyType DEF SendReady, Shape, CallMoves, CallFrame, disk

\* A refused sender gives back what it took.
LEMMA SendRefusedEffect ==
  ASSUME Shape, Owned, NEW c \in Calls, SendRefused(c)
  PROVE  /\ CallFrame /\ call[c].pc = "refused" /\ CallEnds(c)
         /\ stats' = Falls(stats, call[c].bytes) /\ marked' = (marked /\ ~call[c].hash)
<1>1. CallMoves(c, "done")
  BY AnswerType, ReplyType DEF SendRefused, Shape, CallMoves
<1>2. c \in temp
  BY DEF SendRefused, Owned, OnDisk, Handing
<1>3. stats'.swept = stats.swept
  <2>1. stats \in Counters /\ call[c].bytes \in Int
    BY DEF Shape, CallStates
  <2>2. stats' = Falls(stats, call[c].bytes)
    BY DEF SendRefused
  <2> QED BY <2>1, <2>2, CounterType
<1> QED BY <1>1, <1>2, <1>3 DEF SendRefused, CallEnds, CallFrame, Shape

\* The end of an inline upload.
LEMMA InlineEffect ==
  ASSUME Shape, Owned, NEW u \in inline, InlineEnds(u)
  PROVE  /\ Steady /\ inline' = inline \ {u} /\ u.file \in Calls /\ u \in Inlines
         /\ temp' = (IF u.temp THEN temp \ {u.file} ELSE temp)
         /\ UNCHANGED <<phase, crashes, meta, torn, aged, scan, chan, worker, drain, draining, tasks,
                        free, stats, marked, owed>>
<1>0. /\ u \in Inlines /\ u.file \in Calls /\ call \in [Calls -> CallStates]
      /\ u.file \in InlineFiles
  BY DEF Shape, Inlines, InlineFiles
<1>1. call[u.file].pc = "done"
  BY <1>0 DEF Owned, OneOwner
<1>2. Steady
  <2>1. CASE u.tx
    <3>1. call' = Answer(u.file, "answered")
      BY <2>1 DEF InlineEnds
    <3> DEFINE f == u.file
    <3>2. f \in Calls /\ call' = Answer(f, "answered")
      BY <1>0, <3>1
    <3> HIDE DEF f
    <3>3. /\ call' \in [Calls -> CallStates] /\ call'[f].pc = "done"
          /\ \A d \in Calls : d # f => call'[d] = call[d]
      BY <1>0, <3>2, AnswerType, ReplyType
    <3> QED BY <1>0, <1>1, <3>3 DEF Steady, Handing, f
  <2>2. CASE ~u.tx
    BY <1>0, <2>2 DEF InlineEnds, Steady
  <2> QED BY <2>1, <2>2
<1> QED BY <1>0, <1>2 DEF InlineEnds, work

\* At its deadline drain() aborts the worker and its tasks.
LEMMA TimeoutEffect ==
  ASSUME Shape, DrainTimeout
  PROVE  /\ Steady /\ chan' = <<>> /\ tasks' = {} /\ worker'.item = None /\ worker'.pc = "aborted"
         /\ worker' \in [pc : WorkerPoints, item : Items \cup {None}]
         /\ free' = MaxConcurrent /\ marked' = (marked /\ \A item \in Held : ~item.mark)
         /\ UNCHANGED <<phase, crashes, temp, meta, torn, aged, scan, draining, stats, inline, owed>>
<1>0. call \in [Calls -> CallStates]
  BY DEF Shape
<1>1. ASSUME NEW c \in Calls
      PROVE  /\ call'[c] \in CallStates
             /\ \/ call'[c].pc = call[c].pc
                \/ call[c].pc = "sending" /\ call'[c].pc = "refused"
             /\ call'[c].hash = call[c].hash /\ call'[c].bytes = call[c].bytes
  <2>1. CASE call'[c] = [call[c] EXCEPT !.reply = "answered"]
    BY <1>0, <2>1 DEF CallStates, Replies
  <2>2. CASE call'[c] = Refused(Sending)[c]
    BY ZenonT(60), <1>0, <2>2, RefusedType
  <2> QED BY <2>1, <2>2 DEF DrainTimeout
<1>2. call' \in [Calls -> CallStates]
  <2>1. call' = [c \in Calls |-> call'[c]]
    BY DEF DrainTimeout
  <2> QED BY <1>1, <2>1
<1>3. Steady
  BY <1>1, <1>2 DEF Steady
<1>4. worker'.item = None /\ worker'.pc = "aborted"
      /\ worker' \in [pc : WorkerPoints, item : Items \cup {None}]
  BY DEF DrainTimeout, WorkerPoints
<1> QED BY <1>3, <1>4 DEF DrainTimeout, disk

\* The process ends.
Crashes == \E lost, spilled, cut \in SUBSET Calls : Crash(lost, spilled, cut)

\* A crash answers every caller and forgets the queue; of a pair it cuts, one part
\* is left, and a call whose sidecar is written has its temp.
LEMMA CrashEffect ==
  ASSUME Shape, Owned, Crashes
  PROVE  /\ call' \in [Calls -> CallStates]
         /\ \A c \in Calls : \/ call'[c].pc = "done"
                             \/ call'[c].pc = "idle" /\ call[c].pc = "idle"
         /\ chan' = <<>> /\ tasks' = {} /\ worker' = [pc |-> "loop", item |-> None]
         /\ worker' \in [pc : WorkerPoints, item : Items \cup {None}]
         /\ free' = MaxConcurrent /\ marked' = FALSE /\ inline' = {} /\ draining' = FALSE
         /\ stats' = NoStats
         /\ phase' = "list" /\ scan' = {} /\ crashes' = crashes + 1 /\ torn' \subseteq Calls
         /\ aged' = aged /\ temp' \subseteq temp /\ meta' \subseteq meta \cup Handing
         /\ owed' \subseteq Calls
         /\ owed = temp \cap meta => owed' = temp' \cap meta'
<1> PICK lost \in SUBSET Calls, spilled \in SUBSET Calls, cut \in SUBSET Calls :
        Crash(lost, spilled, cut)
  BY DEF Crashes
<1>0. call \in [Calls -> CallStates]
  BY DEF Shape
<1> DEFINE over == [Idle EXCEPT !.pc = "done", !.reply = "answered"]
<1>1. over \in CallStates /\ over.pc = "done"
  <2>1. Idle \in CallStates
    BY DEF Idle, CallStates, Replies
  <2> QED BY <2>1 DEF CallStates, Replies
<1>2. call' = [c \in Calls |->
          IF call[c].pc \in {"written", "sending", "refused"} \/ call[c].reply = "waiting"
          THEN over ELSE call[c]]
  BY DEF Crash
<1> HIDE DEF over
<1>3. ASSUME NEW c \in Calls
      PROVE  /\ call'[c] \in CallStates
             /\ \/ call'[c].pc = "done"
                \/ call'[c].pc = "idle" /\ call[c].pc = "idle"
  BY <1>0, <1>1, <1>2, <1>3 DEF CallStates
<1>4. worker' \in [pc : WorkerPoints, item : Items \cup {None}]
  BY DEF Crash, FreshWork, WorkerPoints
<1>5. spilled \subseteq Handing /\ spilled \subseteq temp
  BY DEF Crash, Spilling, Handing, Owned, OnDisk
<1>6. /\ temp' = temp \ (cut \ Dropping) /\ meta' = (meta \cup spilled) \ (cut \cap Dropping)
      /\ owed' = (owed \cup spilled) \ cut /\ aged' = aged
      /\ torn' = (torn \cap temp') \cup lost
  BY DEF Crash
<1>7. torn' \subseteq Calls /\ owed' \subseteq Calls
  BY <1>6 DEF Shape
<1>8. /\ temp' \subseteq temp /\ meta' \subseteq meta \cup Handing
      /\ owed = temp \cap meta => owed' = temp' \cap meta'
  BY <1>5, <1>6
<1> QED BY <1>1, <1>2, <1>3, <1>4, <1>5, <1>6, <1>7, <1>8 DEF Crash, FreshWork

\* The worker, its hands empty, takes the first item of the channel.
LEMMA ReceiveEffect ==
  ASSUME Shape, Owned, Receive
  PROVE  /\ chan # <<>> /\ chan' = Tail(chan) /\ worker'.item = Head(chan) /\ worker'.pc = "permit"
         /\ worker.item = None /\ Head(chan) \in Items /\ worker.pc # "aborted"
         /\ worker' \in [pc : WorkerPoints, item : Items \cup {None}]
         /\ UNCHANGED <<phase, crashes, call, temp, meta, torn, aged, scan, draining, tasks, free,
                        stats, marked, inline, owed>>
<1>1. chan # <<>> /\ chan \in Seq(Items)
  BY DEF Receive, Shape
<1>2. Head(chan) \in Items
  BY <1>1
<1>3. worker' = [pc |-> "permit", item |-> Head(chan)]
  BY DEF Receive
<1>4. worker.item = None /\ worker.pc # "aborted"
  BY DEF Receive, Owned, Hands
<1> QED BY <1>1, <1>2, <1>3, <1>4 DEF Receive, disk, WorkerPoints

\* A task takes the item from the worker, with a slot.
LEMMA DispatchEffect ==
  ASSUME Shape, Owned, Dispatch
  PROVE  /\ worker.item \in Items /\ worker.item # None /\ worker.item.file \in Calls
         /\ worker.pc # "aborted"
         /\ free > 0 /\ free' = free - 1
         /\ tasks' = tasks \cup {NewTask(worker.item)} /\ NewTask(worker.item) \in Tasks
         /\ NewTask(worker.item).item = worker.item /\ NewTask(worker.item).slot = TRUE
         /\ NewTask(worker.item).pc = "start"
         /\ worker'.item = None /\ worker'.pc \notin {"permit", "aborted"}
         /\ worker' \in [pc : WorkerPoints, item : Items \cup {None}]
         /\ UNCHANGED <<phase, crashes, call, temp, meta, torn, aged, scan, chan, draining, stats,
                        marked, inline, owed>>
<1>1. worker.pc = "permit" /\ worker.item # None /\ worker.item \in Items
  BY DEF Dispatch, Owned, Hands, Shape
<1>2. /\ NewTask(worker.item) \in Tasks /\ NewTask(worker.item).item = worker.item
      /\ NewTask(worker.item).slot = TRUE /\ NewTask(worker.item).pc = "start"
  BY <1>1, ConfigAssumption DEF NewTask, Tasks
<1>3. worker' = [pc |-> IF draining THEN "drain" ELSE "loop", item |-> None]
  BY DEF Dispatch
<1>4. /\ worker'.item = None /\ worker'.pc \notin {"permit", "aborted"}
      /\ worker' \in [pc : WorkerPoints, item : Items \cup {None}]
  BY <1>3 DEF WorkerPoints
<1>5. worker.item.file \in Calls
  BY <1>1 DEF Items
<1> QED BY <1>1, <1>2, <1>4, <1>5 DEF Dispatch, disk

\* Recovery looks at one sidecar: the pair goes, is queued, or stays as it is.
LEMMA ScanEffect ==
  ASSUME Shape, NEW f \in scan, ScanOne(f)
  PROVE  /\ f \in Calls /\ phase = "scan" /\ scan' = scan \ {f}
         /\ \/ RemoveFiles(f) /\ UNCHANGED <<chan, stats>>
            \/ /\ f \in temp /\ f \notin aged /\ chan' = Append(chan, Recovered(f))
               /\ stats' = Rises(stats, 1) /\ UNCHANGED <<temp, meta, torn, aged, owed>>
            \/ f \notin aged /\ UNCHANGED <<chan, stats, temp, meta, torn, aged, owed>>
         /\ UNCHANGED <<phase, crashes, call, worker, drain, draining, tasks, free, marked, inline>>
BY DEF ScanOne, Shape, EnqueueRecovered, Unusable

\* The sweep only counts what it took.
LEMMA SweepEffect ==
  ASSUME Shape, SweepOrphans
  PROVE  /\ stats' \in Counters /\ stats'.pending = stats.pending
         /\ stats'.inflight = stats.inflight /\ stats'.bytes = stats.bytes
         /\ stats'.swept <=> stats.swept \/ \E item \in Held : item.file \in aged
<1> PICK b \in BOOLEAN : b <=> stats.swept \/ \E item \in Held : item.file \in aged
  OBVIOUS
<1>1. stats' = [stats EXCEPT !.swept = b] /\ stats \in Counters
  BY DEF SweepOrphans, Shape
<1> QED BY <1>1 DEF Counters

\* Every step is one of these.
LEMMA StepKinds ==
  ASSUME [Next]_vars
  PROVE  \/ UNCHANGED vars
         \/ Idles
         \/ \E c \in Calls, op \in Ops, hash \in BOOLEAN, bytes \in 0..2 : Begin(c, op, hash, bytes)
         \/ \E c \in Calls : Send(c) \/ SendReady(c) \/ SendRefused(c)
         \/ \E u \in inline : InlineEnds(u)
         \/ Receive \/ Dispatch
         \/ \E t \in tasks : TaskStep(t) \/ (Wake(t) /\ TaskFrame)
         \/ DrainTimeout
         \/ Crashes
         \/ ScanList \/ (\E f \in scan : ScanOne(f)) \/ ScanDone \/ SweepOrphans
BY Zenon DEF Next, Idles, Caller, Hand, Worker, Recovery, Crashes

\* Removing files and appending items keep the shape.
LEMMA ShapeStep == Shape /\ Owned /\ Slots /\ [Next]_vars => Shape'
<1> SUFFICES ASSUME Shape, Owned, Slots, [Next]_vars PROVE Shape'
  OBVIOUS
<1>0. /\ chan \in Seq(Items) /\ stats \in Counters /\ call \in [Calls -> CallStates]
      /\ tasks \subseteq Tasks /\ inline \subseteq Inlines /\ free \in Int /\ marked \in BOOLEAN
      /\ MaxConcurrent \in Int
  BY ConfigAssumption DEF Shape
<1>1. CASE UNCHANGED vars
  BY <1>1 DEF vars, disk, work, Shape
<1>2. CASE Idles
  BY <1>2, IdleEffect DEF Shape, Steady, Owned
<1>3. ASSUME NEW c \in Calls, CallEnds(c), CallFrame, marked' \in BOOLEAN, stats' \in Counters
      PROVE  Shape'
  <2>1. inline' \subseteq Inlines /\ temp' \subseteq Calls /\ call' \in [Calls -> CallStates]
    BY <1>3 DEF CallEnds, CallMoves, Shape
  <2> QED BY <1>3, <2>1 DEF CallEnds, CallFrame, Shape
<1>4. ASSUME NEW c \in Calls, NEW op \in Ops, NEW hash \in BOOLEAN, NEW bytes \in 0..2,
             Begin(c, op, hash, bytes)
      PROVE  Shape'
  <2>1. /\ CallFrame /\ stats' = stats /\ UNCHANGED <<meta, chan, owed>>
        /\ \/ CallEnds(c) /\ marked' = marked
           \/ /\ CallMoves(c, "written") /\ temp' = temp \cup {c} /\ inline' = inline
              /\ marked' = (marked \/ hash)
    BY <1>4, BeginEffect
  <2>2. CASE CallEnds(c) /\ marked' = marked
    BY <1>0, <1>3, <2>1, <2>2
  <2>3. CASE /\ CallMoves(c, "written") /\ temp' = temp \cup {c} /\ inline' = inline
             /\ marked' = (marked \/ hash)
    BY <2>1, <2>3 DEF CallFrame, CallMoves, Shape
  <2> QED BY <2>1, <2>2, <2>3
<1>5. ASSUME NEW b \in Int
      PROVE  Rises(stats, b) \in Counters /\ Falls(stats, b) \in Counters
  BY <1>0, CounterType
<1>6. ASSUME NEW c \in Calls
      PROVE  call[c].bytes \in Int /\ NewItem(c) \in Items
             /\ Append(chan, NewItem(c)) \in Seq(Items)
  <2>1. NewItem(c) \in Items
    BY <1>0, NewItemType
  <2> QED BY <1>0, <2>1 DEF CallStates
<1>7. ASSUME NEW c \in Calls, Send(c) PROVE Shape'
  <2>1. /\ CallFrame
        /\ \/ /\ CallEnds(c) /\ stats' = stats /\ marked' = (marked /\ ~call[c].hash)
           \/ /\ CallMoves(c, "sending") /\ stats' = Rises(stats, call[c].bytes)
              /\ UNCHANGED <<temp, meta, chan, marked, inline, owed>>
           \/ /\ CallMoves(c, "done")
              /\ chan' = Append(chan, NewItem(c)) /\ stats' = Rises(stats, call[c].bytes)
              /\ \/ UNCHANGED <<meta, owed>>
                 \/ meta' = meta \cup {c} /\ owed' = owed \cup {c}
              /\ UNCHANGED <<temp, marked, inline>>
    BY <1>7, SendEffect
  <2>2. CASE CallEnds(c) /\ stats' = stats /\ marked' = (marked /\ ~call[c].hash)
    BY <1>0, <1>3, <2>1, <2>2
  <2>3. CASE stats' = Rises(stats, call[c].bytes) /\ call' \in [Calls -> CallStates]
             /\ chan' \in Seq(Items) /\ meta' \subseteq Calls /\ owed' \subseteq Calls
             /\ UNCHANGED <<temp, marked, inline>>
    <3>1. stats' \in Counters
      BY <1>5, <1>6, <2>3
    <3> QED BY <2>1, <2>3, <3>1 DEF CallFrame, Shape
  <2> QED BY <1>6, <2>1, <2>2, <2>3 DEF CallMoves, Shape
<1>8. ASSUME NEW c \in Calls, SendReady(c) PROVE Shape'
  BY <1>6, <1>8, SendReadyEffect DEF CallFrame, CallMoves, Shape
<1>9. ASSUME NEW c \in Calls, SendRefused(c) PROVE Shape'
  <2>1. stats' \in Counters /\ marked' \in BOOLEAN /\ CallEnds(c) /\ CallFrame
    BY <1>5, <1>6, <1>9, SendRefusedEffect
  <2> QED BY <1>3, <2>1
<1>10. ASSUME NEW u \in inline, InlineEnds(u) PROVE Shape'
  BY <1>10, InlineEffect DEF Steady, Shape
<1>11. CASE Receive
  <2>1. Tail(chan) \in Seq(Items)
    BY <1>0, <1>11, ReceiveEffect
  <2> QED BY <1>11, <2>1, ReceiveEffect DEF Shape
<1>12. CASE Dispatch
  <2>1. free' \in Int /\ tasks' \subseteq Tasks
    BY <1>0, <1>12, DispatchEffect
  <2> QED BY <1>12, <2>1, DispatchEffect DEF Shape
<1>13. ASSUME NEW t \in tasks, TaskStep(t) \/ (Wake(t) /\ TaskFrame) PROVE Shape'
  <2>1. TaskFrame /\ (Settled(t) \/ \E u : Changed(t, u))
    BY <1>13, TaskEffect
  <2>2. t.slot \in BOOLEAN /\ t.item.mark \in BOOLEAN /\ One(t.slot) \in Int
    BY <1>0 DEF Tasks, Items, One
  <2>3. CASE Settled(t)
    <3>1. free' \in Int /\ marked' \in BOOLEAN
      BY <1>0, <2>2, <2>3 DEF Settled
    <3> QED BY <1>0, <2>1, <2>3, <3>1 DEF Settled, Steady, RemoveFiles, TaskFrame, Shape
  <2>4. ASSUME NEW u, Changed(t, u) PROVE Shape'
    <3>1. One(u.slot) \in Int
      BY DEF One
    <3>2. free' \in Int /\ tasks' \subseteq Tasks
      BY <1>0, <2>2, <2>4, <3>1 DEF Changed
    <3> QED BY <1>0, <2>1, <2>4, <3>2 DEF Changed, Steady, disk, TaskFrame, Shape
  <2> QED BY <2>1, <2>3, <2>4
<1>14. CASE DrainTimeout
  <2>1. /\ chan' \in Seq(Items) /\ tasks' \subseteq Tasks /\ marked' \in BOOLEAN
    BY <1>14, TimeoutEffect
  <2> QED BY <1>0, <1>14, <2>1, TimeoutEffect DEF Steady, Shape
<1>15. CASE Crashes
  <2>0. NoStats \in Counters
    BY DEF Counters, NoStats
  <2>2. chan' = <<>> /\ tasks' = {} /\ inline' = {} /\ crashes' = crashes + 1
        /\ stats' = NoStats
    BY <1>15, CrashEffect
  <2>1. /\ chan' \in Seq(Items) /\ tasks' \subseteq Tasks /\ inline' \subseteq Inlines
        /\ crashes' \in Nat /\ stats' \in Counters
    BY <2>0, <2>2 DEF Shape
  <2>3. temp' \subseteq Calls /\ meta' \subseteq Calls
    BY <1>15, CrashEffect DEF Shape, Handing
  <2> QED BY <1>0, <1>15, <2>1, <2>3, CrashEffect DEF Shape
<1>16. CASE ScanList \/ ScanDone \/ SweepOrphans
  <2>1. CASE ScanList \/ ScanDone
    BY <2>1 DEF ScanList, ScanDone, disk, work, Shape
  <2>2. CASE SweepOrphans
    <3>1. stats' \in Counters
      BY <2>2, SweepEffect
    <3> QED BY <2>2, <3>1 DEF SweepOrphans, Shape
  <2> QED BY <1>16, <2>1, <2>2
<1>17. ASSUME NEW f \in scan, ScanOne(f) PROVE Shape'
  <2>1. f \in Calls
    BY DEF Shape
  <2>2. Append(chan, Recovered(f)) \in Seq(Items) /\ Rises(stats, 1) \in Counters
    <3>1. 1 \in Int /\ Recovered(f) \in Items
      BY <2>1, RecoveredType
    <3> QED BY <1>0, <1>5, <3>1
  <2> QED BY <1>0, <1>17, <2>1, <2>2, ScanEffect DEF RemoveFiles, Shape
<1> QED BY <1>1, <1>2, <1>4, <1>7, <1>8, <1>9, <1>10, <1>11, <1>12, <1>13, <1>14, <1>15, <1>16,
           <1>17, StepKinds

-----------------------------------------------------------------------------
(* Owners.                                                                 *)

\* The files whose item has a guard.
Marks(q) == {q[i].file : i \in {j \in DOMAIN q : q[j].mark}}

\* An item at the end of the channel.
LEMMA AppendFiles ==
  ASSUME NEW q \in Seq(Items), NEW e \in Items
  PROVE  /\ Files(Append(q, e)) = Files(q) \cup {e.file}
         /\ Marks(Append(q, e)) = Marks(q) \cup {f \in {e.file} : e.mark}
         /\ Once(q) /\ e.file \notin Files(q) => Once(Append(q, e))
<1> DEFINE p == Append(q, e)
<1>1. /\ DOMAIN p = 1..(Len(q) + 1) /\ DOMAIN q = 1..Len(q) /\ Len(q) \in Nat
      /\ p[Len(q) + 1] = e /\ \A k \in 1..Len(q) : p[k] = q[k]
  OBVIOUS
<1> HIDE DEF p
<1>2. Files(p) = Files(q) \cup {e.file}
  BY <1>1 DEF Files
<1>3. Marks(p) = Marks(q) \cup {f \in {e.file} : e.mark}
  BY <1>1 DEF Marks
<1>4. Once(q) /\ e.file \notin Files(q) => Once(p)
  BY <1>1 DEF Once, Files
<1> QED BY <1>2, <1>3, <1>4 DEF p

\* The first item leaves the channel.
LEMMA TailFiles ==
  ASSUME NEW q \in Seq(Items), q # <<>>, Once(q)
  PROVE  /\ Files(Tail(q)) = Files(q) \ {Head(q).file} /\ Head(q).file \in Files(q)
         /\ Marks(Tail(q)) = Marks(q) \ {Head(q).file}
         /\ Head(q).mark <=> Head(q).file \in Marks(q)
         /\ Once(Tail(q))
<1> DEFINE p == Tail(q)
           h == Head(q)
<1>1. /\ DOMAIN p = 1..(Len(q) - 1) /\ DOMAIN q = 1..Len(q) /\ Len(q) \in Nat /\ Len(q) >= 1
      /\ q[1] = h /\ \A k \in 1..(Len(q) - 1) : p[k] = q[k + 1]
  OBVIOUS
<1> HIDE DEF p, h
<1>2. ASSUME NEW k \in 2..Len(q) PROVE q[k].file # h.file /\ k - 1 \in DOMAIN p /\ p[k - 1] = q[k]
  <2>1. k \in DOMAIN q /\ 1 \in DOMAIN q /\ k # 1 /\ k - 1 \in 1..(Len(q) - 1) /\ (k - 1) + 1 = k
    BY <1>1
  <2> QED BY <1>1, <2>1 DEF Once
<1>3. \A k \in DOMAIN p : k + 1 \in 2..Len(q) /\ p[k] = q[k + 1]
  BY <1>1
<1>4. \A k \in DOMAIN q : k = 1 \/ k \in 2..Len(q)
  BY <1>1
<1>5. Files(p) = Files(q) \ {h.file} /\ h.file \in Files(q)
  <2>1. h.file \in Files(q)
    BY <1>1 DEF Files
  <2>2. ASSUME NEW f \in Files(p) PROVE f \in Files(q) /\ f # h.file
    <3>1. PICK k \in DOMAIN p : f = p[k].file
      BY <2>2 DEF Files
    <3>2. k + 1 \in 2..Len(q) /\ k + 1 \in DOMAIN q /\ f = q[k + 1].file
      BY <1>1, <1>3, <3>1
    <3> QED BY <1>2, <3>2 DEF Files
  <2>3. ASSUME NEW f \in Files(q), f # h.file PROVE f \in Files(p)
    <3>1. PICK k \in DOMAIN q : f = q[k].file
      BY <2>3 DEF Files
    <3>2. k \in 2..Len(q)
      BY <1>1, <1>4, <2>3, <3>1
    <3> QED BY <1>2, <3>1, <3>2 DEF Files
  <2> QED BY <2>1, <2>2, <2>3
<1>6. Marks(p) = Marks(q) \ {h.file}
  <2>2. ASSUME NEW f \in Marks(p) PROVE f \in Marks(q) /\ f # h.file
    <3>1. PICK k \in DOMAIN p : f = p[k].file /\ p[k].mark
      BY <2>2 DEF Marks
    <3>2. k + 1 \in 2..Len(q) /\ k + 1 \in DOMAIN q /\ f = q[k + 1].file /\ q[k + 1].mark
      BY <1>1, <1>3, <3>1
    <3> QED BY <1>2, <3>2 DEF Marks
  <2>3. ASSUME NEW f \in Marks(q), f # h.file PROVE f \in Marks(p)
    <3>1. PICK k \in DOMAIN q : f = q[k].file /\ q[k].mark
      BY <2>3 DEF Marks
    <3>2. k \in 2..Len(q)
      BY <1>1, <1>4, <2>3, <3>1
    <3> QED BY <1>2, <3>1, <3>2 DEF Marks
  <2> QED BY <2>2, <2>3
<1>7. h.mark <=> h.file \in Marks(q)
  <2>1. ASSUME h.file \in Marks(q) PROVE h.mark
    <3>1. PICK k \in DOMAIN q : h.file = q[k].file /\ q[k].mark
      BY <2>1 DEF Marks
    <3>2. k = 1
      BY <1>2, <1>4, <3>1
    <3> QED BY <1>1, <3>1, <3>2
  <2>2. h.mark => h.file \in Marks(q)
    BY <1>1 DEF Marks
  <2> QED BY <2>1, <2>2
<1>8. Once(p)
  <2>1. ASSUME NEW i \in DOMAIN p, NEW j \in DOMAIN p, p[i].file = p[j].file PROVE i = j
    <3>1. i + 1 \in DOMAIN q /\ j + 1 \in DOMAIN q /\ q[i + 1].file = q[j + 1].file
      BY <1>1, <2>1
    <3>2. i + 1 = j + 1
      BY <3>1 DEF Once
    <3> QED BY <1>1, <3>2
  <2> QED BY <2>1 DEF Once
<1> QED BY <1>5, <1>6, <1>7, <1>8 DEF p, h

\* An empty channel holds nothing.
LEMMA EmptyFiles == Files(<<>>) = {} /\ Marks(<<>>) = {} /\ Once(<<>>)
BY DEF Files, Marks, Once

\* A task ends, or goes on with the same file.
LEMMA TaskFilesKept ==
  ASSUME Unique, NEW t \in tasks
  PROVE  /\ tasks' = tasks \ {t} => TaskFiles' = TaskFiles \ {t.item.file}
         /\ t.item.file \in TaskFiles
         /\ \A u : (tasks' = (tasks \ {t}) \cup {u} /\ u.item.file = t.item.file)
                      => TaskFiles' = TaskFiles
BY DEF TaskFiles, Unique

\* A call that is not over owns nothing in the queue, and it runs after the scan.
LEMMA CallerFacts ==
  ASSUME Shape, Owned, NEW c \in Calls, call[c].pc # "done"
  PROVE  /\ c \notin ChanFiles /\ c \notin HandFiles /\ c \notin TaskFiles /\ c \notin InlineFiles
         /\ c \notin scan /\ c \notin meta
         /\ call[c].pc # "idle" => phase = "open" /\ c \in Handing /\ c \in temp
BY DEF Owned, OneOwner, OnDisk, Phases, Handing, Shape, CallStates

\* The files that no step of a call touches.
LEMMA CallFrameFiles ==
  ASSUME CallFrame
  PROVE  /\ HandFiles' = HandFiles /\ TaskFiles' = TaskFiles /\ (Hands => Hands')
         /\ phase' = phase /\ scan' = scan /\ tasks' = tasks /\ worker' = worker
         /\ stats'.swept = stats.swept
BY DEF CallFrame, HandFiles, TaskFiles, Hands

\* A call that is answered leaves at most an inline upload.
LEMMA CallEndsOwned ==
  ASSUME Shape, Owned, NEW c \in Calls, call[c].pc # "done", phase = "open", CallFrame, CallEnds(c)
  PROVE  Owned'
<1>0. /\ HandFiles' = HandFiles /\ TaskFiles' = TaskFiles /\ Hands'
      /\ phase' = phase /\ scan' = scan /\ tasks' = tasks /\ worker' = worker
      /\ stats'.swept = stats.swept
      /\ chan' = chan /\ meta' = meta /\ ChanFiles' = ChanFiles
  BY CallFrameFiles DEF Owned, CallEnds, ChanFiles
<1>1. /\ c \notin ChanFiles /\ c \notin HandFiles /\ c \notin TaskFiles /\ c \notin InlineFiles
      /\ c \notin scan /\ c \notin meta
  BY CallerFacts
<1>2. call'[c].pc = "done" /\ \A d \in Calls : d # c => call'[d] = call[d]
  BY DEF CallEnds, CallMoves
<1>3. InlineFiles' \in {InlineFiles, InlineFiles \cup {c}}
      /\ \A u, v \in inline' : u.file = v.file => u = v
  <2>1. CASE inline' = inline
    BY <2>1 DEF InlineFiles, Owned, Unique
  <2>2. ASSUME NEW u, u.file = c, inline' = inline \cup {u}
        PROVE  /\ InlineFiles' = InlineFiles \cup {c}
               /\ \A v, w \in inline' : v.file = w.file => v = w
    BY <1>1, <2>2 DEF InlineFiles, Owned, Unique
  <2> QED BY <2>1, <2>2 DEF CallEnds
<1>4. Unique'
  BY <1>0, <1>3 DEF Owned, Unique
<1>5. ASSUME NEW f \in Calls PROVE OneOwner(f)'
  <2>1. CASE f = c
    BY <1>0, <1>1, <1>2, <2>1 DEF OneOwner
  <2>2. CASE f # c
    <3>1. OneOwner(f) /\ call'[f] = call[f] /\ (f \in InlineFiles' <=> f \in InlineFiles)
      BY <1>2, <1>3, <2>2 DEF Owned
    <3> QED BY <1>0, <3>1 DEF OneOwner
  <2> QED BY <2>1, <2>2
<1>6. Phases'
  BY <1>0 DEF Owned, Phases
<1>7. OnDisk'
  <2>1. temp' \cup {c} = temp \cup {c}
    BY DEF CallEnds
  <2> QED BY <1>0, <1>1, <1>2, <1>3, <2>1 DEF Owned, OnDisk, Handing
<1>8. Backed'
  <2>1. temp' \cup {c} = temp \cup {c}
    BY DEF CallEnds
  <2> QED BY <1>0, <1>1, <2>1 DEF Owned, Backed, HeldFiles
<1> QED BY <1>0, <1>4, <1>5, <1>6, <1>7, <1>8 DEF Owned

\* A call that goes on holds its temp.
LEMMA CallGoesOnOwned ==
  ASSUME Shape, Owned, NEW c \in Calls, call[c].pc # "done", phase = "open", CallFrame,
         NEW pc \in {"written", "sending"}, CallMoves(c, pc),
         temp' = temp \cup {c}, UNCHANGED <<meta, chan, inline>>
  PROVE  Owned'
<1>0. /\ HandFiles' = HandFiles /\ TaskFiles' = TaskFiles /\ Hands'
      /\ phase' = phase /\ scan' = scan /\ tasks' = tasks /\ worker' = worker
      /\ stats'.swept = stats.swept
      /\ chan' = chan /\ meta' = meta /\ ChanFiles' = ChanFiles /\ InlineFiles' = InlineFiles
      /\ inline' = inline
  BY CallFrameFiles DEF Owned, ChanFiles, InlineFiles
<1>1. /\ c \notin ChanFiles /\ c \notin HandFiles /\ c \notin TaskFiles /\ c \notin InlineFiles
      /\ c \notin scan /\ c \notin meta
  BY CallerFacts
<1>2. call'[c].pc = pc /\ \A d \in Calls : d # c => call'[d] = call[d]
  BY DEF CallMoves
<1>3. Unique'
  BY <1>0 DEF Owned, Unique
<1>4. ASSUME NEW f \in Calls PROVE OneOwner(f)'
  <2>1. CASE f = c
    BY <1>0, <1>1, <2>1 DEF OneOwner
  <2>2. CASE f # c
    <3>1. OneOwner(f) /\ call'[f] = call[f]
      BY <1>2, <2>2 DEF Owned
    <3> QED BY <1>0, <3>1 DEF OneOwner
  <2> QED BY <2>1, <2>2
<1>5. Phases'
  BY <1>0 DEF Owned, Phases
<1>6. OnDisk'
  BY <1>0, <1>1, <1>2 DEF Owned, OnDisk, Handing
<1>7. Backed'
  BY <1>0 DEF Owned, Backed, HeldFiles
<1> QED BY <1>0, <1>3, <1>4, <1>5, <1>6, <1>7 DEF Owned

\* An accepted call hands its file to the channel.
LEMMA AcceptedOwned ==
  ASSUME Shape, Owned, NEW c \in Calls, call[c].pc \in {"written", "sending"}, CallFrame,
         CallMoves(c, "done"), chan' = Append(chan, NewItem(c)), meta' \in {meta, meta \cup {c}},
         UNCHANGED <<temp, inline>>
  PROVE  Owned'
<1> DEFINE e == NewItem(c)
<1>0. /\ HandFiles' = HandFiles /\ TaskFiles' = TaskFiles /\ Hands'
      /\ phase' = phase /\ scan' = scan /\ tasks' = tasks /\ worker' = worker
      /\ stats'.swept = stats.swept
      /\ InlineFiles' = InlineFiles /\ inline' = inline /\ temp' = temp
  BY CallFrameFiles DEF Owned, InlineFiles
<1>1. /\ c \notin ChanFiles /\ c \notin HandFiles /\ c \notin TaskFiles /\ c \notin InlineFiles
      /\ c \notin scan /\ c \notin meta /\ phase = "open" /\ c \in temp
  BY CallerFacts
<1>2. call'[c].pc = "done" /\ \A d \in Calls : d # c => call'[d] = call[d]
  BY DEF CallMoves
<1>3. ChanFiles' = ChanFiles \cup {c} /\ Once(chan')
  <2>1. e \in Items /\ e.file = c /\ chan \in Seq(Items)
    BY NewItemType DEF Shape
  <2> HIDE DEF e
  <2>2. chan' = Append(chan, e) /\ Once(chan)
    BY DEF e, Owned, Unique
  <2> QED BY <1>1, <2>1, <2>2, AppendFiles DEF ChanFiles
<1>4. Unique'
  BY <1>0, <1>3 DEF Owned, Unique
<1>5. ASSUME NEW f \in Calls PROVE OneOwner(f)'
  <2>1. CASE f = c
    BY <1>0, <1>1, <1>2, <2>1 DEF OneOwner
  <2>2. CASE f # c
    <3>1. OneOwner(f) /\ call'[f] = call[f] /\ (f \in ChanFiles' <=> f \in ChanFiles)
      BY <1>2, <1>3, <2>2 DEF Owned
    <3> QED BY <1>0, <3>1 DEF OneOwner
  <2> QED BY <2>1, <2>2
<1>6. Phases'
  BY <1>0, <1>1 DEF Owned, Phases
<1>7. OnDisk'
  BY <1>0, <1>1, <1>2 DEF Owned, OnDisk, Handing
<1>8. Backed'
  BY <1>0, <1>1, <1>3 DEF Owned, Backed, HeldFiles
<1> QED BY <1>0, <1>4, <1>5, <1>6, <1>7, <1>8 DEF Owned

\* Where the calls are after a step that moves none of them on.
LEMMA SteadyFacts ==
  ASSUME Shape, Steady
  PROVE  /\ Handing' = Handing /\ Counted' = Counted
         /\ \A c \in Calls : /\ call'[c].pc = "done" <=> call[c].pc = "done"
                             /\ call'[c].pc = "idle" <=> call[c].pc = "idle"
BY DEF Steady, Handing, Counted

\* A step that moves no call keeps the owners if it only takes files from them.
LEMMA ShrinkOwned ==
  ASSUME Shape, Owned, Steady, Unique', Hands', phase' = phase, scan' = scan,
         \A f \in Calls : /\ f \in ChanFiles' => f \in ChanFiles
                          /\ f \in HandFiles' => f \in HandFiles
                          /\ f \in TaskFiles' => f \in TaskFiles
                          /\ f \in InlineFiles' => f \in InlineFiles,
         \A f \in Calls : f \in temp /\ f \notin temp' => f \notin HeldFiles' /\ f \notin Handing,
         temp' \subseteq temp, meta' \subseteq meta, scan \subseteq meta',
         stats'.swept = stats.swept,
         HeldFiles' \subseteq Calls, InlineFiles' \subseteq Calls,
         phase = "list" => chan' = <<>> /\ tasks' = {} /\ worker'.item = None,
         phase # "open" => inline' = {}
  PROVE  Owned'
<1>0. /\ Handing' = Handing
      /\ \A c \in Calls : /\ call'[c].pc = "done" <=> call[c].pc = "done"
                          /\ call'[c].pc = "idle" <=> call[c].pc = "idle"
  BY SteadyFacts
<1>1. ASSUME NEW f \in Calls PROVE OneOwner(f)'
  <2>1. OneOwner(f)
    BY DEF Owned
  <2> QED BY <1>0, <2>1 DEF OneOwner
<1>2. Phases'
  BY <1>0 DEF Owned, Phases
<1>3. OnDisk'
  <2>1. InlineFiles' \subseteq InlineFiles /\ InlineFiles' \cap meta' = {}
    BY DEF Owned, OnDisk
  <2>2. Handing \subseteq Calls /\ Handing \subseteq temp'
    BY DEF Handing, Owned, OnDisk
  <2> QED BY <1>0, <2>1, <2>2 DEF Owned, OnDisk
<1>4. Backed'
  <2>1. HeldFiles' \subseteq HeldFiles
    BY DEF HeldFiles
  <2> QED BY <2>1 DEF Owned, Backed
<1> QED BY <1>1, <1>2, <1>3, <1>4 DEF Owned

\* The files of owners are calls.
FilesKnown ==
    /\ ChanFiles \subseteq Calls /\ HandFiles \subseteq Calls /\ TaskFiles \subseteq Calls
    /\ InlineFiles \subseteq Calls /\ HeldFiles \subseteq Calls

\* An item of a sequence of items has a file.
LEMMA ItemFiles ==
  ASSUME NEW q \in Seq(Items)
  PROVE  Files(q) \subseteq Calls
<1>1. ASSUME NEW i \in DOMAIN q PROVE q[i].file \in Calls
  <2>1. q[i] \in Items
    OBVIOUS
  <2> QED BY <2>1 DEF Items
<1> QED BY <1>1 DEF Files

\* The type invariant gives the files of owners.
LEMMA FilesType == Shape => FilesKnown
<1> SUFFICES ASSUME Shape PROVE FilesKnown
  OBVIOUS
<1>1. ChanFiles \subseteq Calls
  BY ItemFiles DEF Shape, ChanFiles
<1>2. HandFiles \subseteq Calls
  BY DEF Shape, HandFiles, Items
<1>3. TaskFiles \subseteq Calls
  BY HeldType DEF TaskFiles
<1>4. InlineFiles \subseteq Calls
  BY DEF Shape, InlineFiles, Inlines
<1> QED BY <1>1, <1>2, <1>3, <1>4 DEF HeldFiles, FilesKnown

\* The files the queue holds are those of the items it holds.
LEMMA HeldFilesAre == \A f : f \in HeldFiles <=> \E i \in Held : i.file = f
<1>1. \A f : f \in ChanFiles <=> \E i \in ToSet(chan) : i.file = f
  BY DEF ToSet, ChanFiles, Files
<1>2. \A f : f \in TaskFiles <=> \E i \in {t.item : t \in tasks} : i.file = f
  BY DEF TaskFiles
<1>3. \A f : f \in HandFiles
               <=> \E i \in (IF worker.item = None THEN {} ELSE {worker.item}) : i.file = f
  BY DEF HandFiles
<1> QED BY <1>1, <1>2, <1>3 DEF Held, HeldFiles

\* The steps of the queue keep a single owner for every file.
LEMMA QueueStepOwned ==
  ASSUME Shape, Owned, Slots, Shape',
         \/ Idles \/ (\E u \in inline : InlineEnds(u)) \/ Receive \/ Dispatch \/ DrainTimeout
         \/ \E t \in tasks : TaskStep(t) \/ (Wake(t) /\ TaskFrame)
  PROVE  Owned'
<1>n. FilesKnown /\ FilesKnown'
  <2>1. Shape' => FilesKnown'
    BY FilesType, PTL
  <2> QED BY <2>1, FilesType
<1>0. /\ HeldFiles \subseteq Calls /\ InlineFiles \subseteq Calls
      /\ HeldFiles' \subseteq Calls /\ InlineFiles' \subseteq Calls /\ scan \subseteq meta
      /\ TaskFiles \subseteq Calls /\ HandFiles \subseteq Calls
      /\ (phase = "list" => chan = <<>> /\ tasks = {} /\ worker.item = None)
      /\ (phase # "open" => inline = {}) /\ Unique /\ Hands
  BY <1>n DEF FilesKnown, Owned, Phases
<1>1. CASE Idles
  <2>1. /\ phase' = phase /\ temp' = temp /\ meta' = meta /\ scan' = scan /\ chan' = chan
        /\ tasks' = tasks /\ inline' = inline /\ worker'.item = worker.item /\ Hands' /\ Steady
        /\ stats'.swept = stats.swept
    BY <1>1, IdleEffect DEF Owned
  <2>2. ChanFiles' = ChanFiles /\ HandFiles' = HandFiles /\ TaskFiles' = TaskFiles
        /\ InlineFiles' = InlineFiles /\ Unique'
    BY <1>0, <2>1 DEF ChanFiles, HandFiles, TaskFiles, InlineFiles, Unique
  <2> QED BY <1>0, <2>1, <2>2, ShrinkOwned
<1>2. ASSUME NEW u \in inline, InlineEnds(u) PROVE Owned'
  <2>1. /\ Steady /\ inline' = inline \ {u} /\ u.file \in Calls
        /\ temp' = (IF u.temp THEN temp \ {u.file} ELSE temp)
        /\ UNCHANGED <<phase, meta, stats, scan, chan, worker, tasks>>
    BY <1>2, InlineEffect
  <2>2. ChanFiles' = ChanFiles /\ HandFiles' = HandFiles /\ TaskFiles' = TaskFiles
        /\ InlineFiles' \subseteq InlineFiles /\ Unique' /\ Hands' /\ u.file \in InlineFiles
    BY <1>0, <2>1 DEF ChanFiles, HandFiles, TaskFiles, InlineFiles, Unique, Hands
  <2>3. u.file \notin HeldFiles /\ call[u.file].pc = "done"
    BY <2>1, <2>2 DEF Owned, OneOwner, HeldFiles
  <2>4. u.file \notin HeldFiles' /\ u.file \notin Handing
    BY <2>2, <2>3 DEF HeldFiles, Handing
  <2> QED BY <1>0, <2>1, <2>2, <2>4, ShrinkOwned
<1>3. CASE DrainTimeout
  <2>1. /\ Steady /\ chan' = <<>> /\ tasks' = {} /\ worker'.item = None /\ worker'.pc = "aborted"
        /\ UNCHANGED <<phase, temp, meta, stats, scan, inline>>
    BY <1>3, TimeoutEffect
  <2>2. ChanFiles' = {} /\ HandFiles' = {} /\ TaskFiles' = {} /\ InlineFiles' = InlineFiles
        /\ Once(chan')
    BY <2>1, EmptyFiles DEF ChanFiles, HandFiles, TaskFiles, InlineFiles
  <2>3. Unique' /\ Hands'
    BY <1>0, <2>1, <2>2 DEF Unique, Hands
  <2> QED BY <1>0, <2>1, <2>2, <2>3, ShrinkOwned
<1>4. ASSUME NEW t \in tasks, TaskStep(t) \/ (Wake(t) /\ TaskFrame) PROVE Owned'
  <2> DEFINE f == t.item.file
  <2>1. TaskFrame /\ (Settled(t) \/ \E u : Changed(t, u))
    BY <1>4, TaskEffect
  <2>2. /\ ChanFiles' = ChanFiles /\ HandFiles' = HandFiles /\ InlineFiles' = InlineFiles
        /\ phase' = phase /\ scan' = scan /\ chan' = chan /\ inline' = inline /\ worker' = worker
        /\ Hands'
    BY <1>0, <2>1 DEF TaskFrame, ChanFiles, HandFiles, InlineFiles, Hands
  <2>3. f \in TaskFiles /\ f \in Calls
    BY <1>0, TaskFilesKept
  <2>4. /\ f \notin ChanFiles /\ f \notin HandFiles /\ f \notin InlineFiles /\ f \notin scan
        /\ call[f].pc = "done" /\ phase # "list"
    BY <1>0, <2>3 DEF Owned, OneOwner
  <2>5. f \notin Handing
    BY <2>4 DEF Handing
  <2> HIDE DEF f
  <2>6. CASE Settled(t)
    <3>1. /\ tasks' = tasks \ {t} /\ temp' = temp \ {f} /\ meta' = meta \ {f}
          /\ stats'.swept = stats.swept /\ Steady
      BY <2>6 DEF Settled, RemoveFiles, f
    <3>2. TaskFiles' = TaskFiles \ {f} /\ Unique'
      BY <1>0, <2>2, <3>1, TaskFilesKept DEF f, Unique
    <3>3. f \notin HeldFiles'
      BY <2>2, <2>4, <3>2 DEF HeldFiles
    <3> QED BY <1>0, <2>2, <2>4, <2>5, <3>1, <3>2, <3>3, ShrinkOwned
  <2>7. ASSUME NEW u, Changed(t, u) PROVE Owned'
    <3>1. /\ tasks' = (tasks \ {t}) \cup {u} /\ u.item.file = f
          /\ temp' = temp /\ meta' = meta /\ stats'.swept = stats.swept /\ Steady
      BY <2>7 DEF Changed, disk, f
    <3>2. TaskFiles' = TaskFiles /\ Unique'
      BY <1>0, <2>2, <3>1, TaskFilesKept DEF f, Unique
    <3> QED BY <1>0, <2>2, <2>4, <3>1, <3>2, ShrinkOwned
  <2> QED BY <2>1, <2>6, <2>7
<1>5. ASSUME call' = call, phase' = phase, scan' = scan, temp' = temp, meta' = meta,
             stats' = stats, inline' = inline, HeldFiles' = HeldFiles, Unique', Hands',
             \A f \in Calls : /\ f \in ChanFiles' => f \notin HandFiles' \cup TaskFiles'
                              /\ f \in HandFiles' => f \notin TaskFiles',
             phase # "list"
      PROVE  Owned'
  <2>0. InlineFiles' = InlineFiles /\ Handing' = Handing
    BY <1>5 DEF InlineFiles, Handing
  <2>1. ASSUME NEW f \in Calls PROVE OneOwner(f)'
    <3>1. OneOwner(f) /\ (f \in ChanFiles' \cup HandFiles' \cup TaskFiles' => f \in HeldFiles)
      BY <1>5 DEF Owned, HeldFiles
    <3> QED BY <1>5, <2>0, <3>1 DEF OneOwner, HeldFiles
  <2>2. Phases' /\ OnDisk' /\ Backed'
    BY <1>5, <2>0 DEF Owned, Phases, OnDisk, Backed
  <2> QED BY <1>5, <2>1, <2>2 DEF Owned
<1>6. CASE Receive
  <2> DEFINE h == Head(chan)
  <2>1. /\ chan # <<>> /\ chan' = Tail(chan) /\ worker'.item = h /\ worker'.pc = "permit"
        /\ worker.item = None /\ h \in Items /\ chan \in Seq(Items)
        /\ UNCHANGED <<phase, call, temp, meta, stats, scan, tasks, inline>>
    BY <1>6, ReceiveEffect DEF Shape
  <2>2. h # None /\ h.file \in Calls
    BY <2>1, ConfigAssumption DEF Items
  <2>3. ChanFiles' = ChanFiles \ {h.file} /\ h.file \in ChanFiles /\ Once(chan')
    BY <1>0, <2>1, TailFiles DEF ChanFiles, Unique
  <2> HIDE DEF h
  <2>4. HandFiles' = {h.file} /\ HandFiles = {} /\ TaskFiles' = TaskFiles
    BY <2>1, <2>2 DEF HandFiles, TaskFiles
  <2>5. Unique' /\ Hands' /\ HeldFiles' = HeldFiles /\ phase # "list"
    BY <1>0, <2>1, <2>2, <2>3, <2>4 DEF Unique, Hands, HeldFiles
  <2>6. ASSUME NEW f \in Calls
        PROVE  /\ f \in ChanFiles' => f \notin HandFiles' \cup TaskFiles'
               /\ f \in HandFiles' => f \notin TaskFiles'
    <3>1. OneOwner(f)
      BY DEF Owned
    <3> QED BY <2>3, <2>4, <3>1 DEF OneOwner
  <2> QED BY <1>5, <2>1, <2>5, <2>6
<1>7. CASE Dispatch
  <2> DEFINE w == worker.item
             n == NewTask(w)
  <2>1. /\ w \in Items /\ w # None /\ w.file \in Calls /\ tasks' = tasks \cup {n} /\ n.item = w
        /\ worker'.item = None /\ worker'.pc # "permit"
        /\ UNCHANGED <<phase, call, temp, meta, stats, scan, chan, inline>>
    BY <1>7, DispatchEffect
  <2> HIDE DEF w, n
  <2>2. HandFiles = {w.file} /\ HandFiles' = {} /\ ChanFiles' = ChanFiles
    BY <2>1 DEF HandFiles, ChanFiles, w
  <2>3. TaskFiles' = TaskFiles \cup {w.file} /\ w.file \notin TaskFiles
    <3>1. w.file \notin TaskFiles
      BY <2>1, <2>2 DEF Owned, OneOwner
    <3> QED BY <2>1, <3>1 DEF TaskFiles
  <2>4. Unique' /\ Hands' /\ HeldFiles' = HeldFiles /\ phase # "list"
    <3>1. Unique'
      BY <1>0, <2>1, <2>3 DEF Unique, TaskFiles
    <3> QED BY <1>0, <2>1, <2>2, <2>3, <3>1 DEF Hands, HeldFiles, w
  <2>5. ASSUME NEW f \in Calls
        PROVE  /\ f \in ChanFiles' => f \notin HandFiles' \cup TaskFiles'
               /\ f \in HandFiles' => f \notin TaskFiles'
    <3>1. OneOwner(f)
      BY DEF Owned
    <3> QED BY <2>2, <2>3, <3>1 DEF OneOwner
  <2> QED BY <1>5, <2>1, <2>4, <2>5
<1> QED BY <1>1, <1>2, <1>3, <1>4, <1>6, <1>7

\* A crash, and the steps of the recovery.
LEMMA RecoveryOwned ==
  ASSUME Shape, Owned,
         \/ Crashes
         \/ ScanList \/ (\E f \in scan : ScanOne(f)) \/ ScanDone \/ SweepOrphans
  PROVE  Owned'
<1>0. FilesKnown
  BY FilesType
<1>1. CASE Crashes
  <2>1. /\ \A c \in Calls : \/ call'[c].pc = "done"
                            \/ call'[c].pc = "idle" /\ call[c].pc = "idle"
        /\ chan' = <<>> /\ tasks' = {} /\ worker' = [pc |-> "loop", item |-> None]
        /\ inline' = {} /\ phase' = "list" /\ scan' = {}
        /\ temp' \subseteq temp /\ meta' \subseteq meta \cup Handing
    BY <1>1, CrashEffect
  <2>2. worker'.item = None /\ worker'.pc = "loop"
    BY <2>1
  <2>3. ChanFiles' = {} /\ HandFiles' = {} /\ TaskFiles' = {} /\ InlineFiles' = {} /\ Once(chan')
    BY <2>1, <2>2, EmptyFiles DEF ChanFiles, HandFiles, TaskFiles, InlineFiles
  <2>4. Unique' /\ Hands'
    BY <2>1, <2>2, <2>3 DEF Unique, Hands
  <2>5. \A f \in Calls : OneOwner(f)'
    BY <2>1, <2>3 DEF OneOwner
  <2>6. Phases'
    BY <2>1, <2>2 DEF Owned, Phases
  <2>7. OnDisk' /\ Backed'
    BY <2>1, <2>3 DEF Owned, OnDisk, Backed, HeldFiles, Handing
  <2> QED BY <2>4, <2>5, <2>6, <2>7 DEF Owned
<1>2. CASE ScanList
  <2>1. /\ phase = "list" /\ phase' = "scan" /\ scan' = meta
        /\ UNCHANGED <<call, temp, meta, chan, tasks, worker, inline>>
    BY <1>2 DEF ScanList, disk, work
  <2>2. /\ ChanFiles' = ChanFiles /\ HandFiles' = HandFiles /\ TaskFiles' = TaskFiles
        /\ InlineFiles' = InlineFiles /\ Unique' /\ Hands' /\ Handing' = Handing
    BY <2>1 DEF Owned, ChanFiles, HandFiles, TaskFiles, InlineFiles, Unique, Hands, Handing
  <2>3. ChanFiles = {} /\ HandFiles = {} /\ TaskFiles = {} /\ InlineFiles = {}
    BY <2>1, EmptyFiles DEF Owned, Phases, ChanFiles, HandFiles, TaskFiles, InlineFiles
  <2>4. \A f \in Calls : OneOwner(f)'
    BY <2>1, <2>2, <2>3 DEF Owned, OnDisk, OneOwner
  <2>5. Phases' /\ OnDisk' /\ Backed'
    BY <2>1, <2>2, <2>3 DEF Owned, Phases, OnDisk, Backed, HeldFiles
  <2> QED BY <2>2, <2>4, <2>5 DEF Owned
<1>3. ASSUME NEW f \in scan, ScanOne(f) PROVE Owned'
  <2>1. /\ f \in Calls /\ phase = "scan" /\ scan' = scan \ {f}
        /\ \/ RemoveFiles(f) /\ chan' = chan
           \/ /\ f \in temp /\ chan' = Append(chan, Recovered(f))
              /\ UNCHANGED <<temp, meta>>
           \/ UNCHANGED <<chan, temp, meta>>
        /\ UNCHANGED <<phase, call, worker, tasks, inline>>
        /\ stats'.swept = stats.swept
    <3>1. stats' \in {stats, Rises(stats, 1)} /\ stats \in Counters /\ 1 \in Int
      BY <1>3, ScanEffect DEF Shape
    <3>3. Rises(stats, 1).swept = stats.swept
      BY <3>1, CounterType
    <3>2. stats'.swept = stats.swept
      BY <3>1, <3>3
    <3> QED BY <1>3, <3>2, ScanEffect
  <2>2. /\ HandFiles' = HandFiles /\ TaskFiles' = TaskFiles /\ InlineFiles' = InlineFiles
        /\ Hands' /\ Handing' = Handing
    BY <2>1 DEF Owned, HandFiles, TaskFiles, InlineFiles, Hands, Handing
  <2>3. /\ f \notin ChanFiles /\ f \notin HandFiles /\ f \notin TaskFiles /\ f \notin InlineFiles
        /\ call[f].pc = "done" /\ inline = {}
    BY <2>1 DEF Owned, OneOwner, Phases
  <2>4. f \notin Handing
    BY <2>3 DEF Handing
  <2>5. CASE /\ chan' = chan /\ temp \ {f} \subseteq temp' /\ temp' \subseteq temp
             /\ meta \ {f} \subseteq meta' /\ meta' \subseteq meta
    <3>1. ChanFiles' = ChanFiles /\ Unique'
      BY <2>1, <2>5 DEF Owned, ChanFiles, Unique
    <3>2. \A g \in Calls : OneOwner(g)'
      BY <2>1, <2>2, <3>1 DEF Owned, OneOwner
    <3>3. Phases'
      BY <2>1, <2>5 DEF Owned, Phases
    <3>4. OnDisk'
      BY <2>1, <2>2, <2>4, <2>5 DEF Owned, OnDisk
    <3>5. Backed'
      BY <2>1, <2>2, <2>3, <2>5, <3>1 DEF Owned, Backed, HeldFiles
    <3> QED BY <2>2, <3>1, <3>2, <3>3, <3>4, <3>5 DEF Owned
  <2>6. CASE /\ f \in temp /\ chan' = Append(chan, Recovered(f))
             /\ UNCHANGED <<temp, meta>>
    <3>1. ChanFiles' = ChanFiles \cup {f} /\ Once(chan')
      <4> DEFINE e == Recovered(f)
      <4>1. e \in Items /\ e.file = f /\ chan \in Seq(Items)
        BY <2>1, RecoveredType DEF Shape
      <4>2. chan' = Append(chan, e) /\ Once(chan)
        BY <2>6 DEF Owned, Unique
      <4> HIDE DEF e
      <4> QED BY <2>3, <4>1, <4>2, AppendFiles DEF ChanFiles
    <3>2. Unique'
      BY <2>1, <3>1 DEF Owned, Unique
    <3>3. ASSUME NEW g \in Calls PROVE OneOwner(g)'
      <4>1. OneOwner(g)
        BY DEF Owned
      <4> QED BY <2>1, <2>2, <2>3, <3>1, <4>1 DEF OneOwner
    <3>4. Phases' /\ OnDisk'
      BY <2>1, <2>2, <2>6 DEF Owned, Phases, OnDisk
    <3>5. Backed'
      BY <2>1, <2>2, <2>6, <3>1 DEF Owned, Backed, HeldFiles
    <3> QED BY <2>2, <3>2, <3>3, <3>4, <3>5 DEF Owned
  <2> QED BY <2>1, <2>5, <2>6 DEF RemoveFiles
<1>4. CASE ScanDone \/ SweepOrphans
  <2>1. /\ phase \in {"scan", "sweep"} /\ phase' \in {"sweep", "open"} /\ scan' = scan /\ scan = {}
        /\ temp' \subseteq temp /\ meta' \subseteq meta
        /\ UNCHANGED <<call, chan, tasks, worker, inline>>
    BY <1>4 DEF ScanDone, SweepOrphans, disk, work, Owned, Phases
  <2>2. /\ ChanFiles' = ChanFiles /\ HandFiles' = HandFiles /\ TaskFiles' = TaskFiles
        /\ InlineFiles' = InlineFiles /\ Unique' /\ Hands' /\ Handing' = Handing
    BY <2>1 DEF Owned, ChanFiles, HandFiles, TaskFiles, InlineFiles, Unique, Hands, Handing
  <2>3. \A f \in Calls : OneOwner(f)'
    BY <2>1, <2>2 DEF Owned, OneOwner
  <2>4. Handing = {}
    BY <2>1 DEF Owned, Phases, Handing
  <2>5. Phases' /\ OnDisk'
    BY <2>1, <2>2, <2>4 DEF Owned, Phases, OnDisk
  <2>6. HeldFiles' = HeldFiles
    BY <2>2 DEF HeldFiles
  <2>7. CASE ScanDone
    <3>1. UNCHANGED <<temp, stats>>
      BY <2>7 DEF ScanDone, disk, work
    <3>2. Backed'
      BY <2>6, <3>1 DEF Owned, Backed
    <3> QED BY <2>2, <2>3, <2>5, <3>2 DEF Owned
  <2>8. CASE SweepOrphans
    <3>1. temp' = temp \ aged
      BY <2>8 DEF SweepOrphans
    <3>2. ~stats'.swept => ~stats.swept /\ HeldFiles \cap aged = {}
      BY <2>8, SweepEffect, HeldFilesAre
    <3>3. Backed'
      BY <2>6, <3>1, <3>2 DEF Owned, Backed
    <3> QED BY <2>2, <2>3, <2>5, <3>3 DEF Owned
  <2> QED BY <1>4, <2>7, <2>8
<1> QED BY <1>1, <1>2, <1>3, <1>4

\* Every step keeps a single owner for every file.
LEMMA OwnedStep == Shape /\ Owned /\ Slots /\ Shape' /\ [Next]_vars => Owned'
<1> SUFFICES ASSUME Shape, Owned, Slots, Shape', [Next]_vars PROVE Owned'
  OBVIOUS
<1>1. CASE UNCHANGED vars
  <2>1. UNCHANGED <<phase, call, temp, meta, stats, scan, chan, worker, tasks, inline>>
    BY <1>1 DEF vars, disk, work
  <2>2. /\ ChanFiles' = ChanFiles /\ HandFiles' = HandFiles /\ TaskFiles' = TaskFiles
        /\ InlineFiles' = InlineFiles /\ Unique' /\ Hands' /\ Handing' = Handing
    BY <2>1 DEF Owned, ChanFiles, HandFiles, TaskFiles, InlineFiles, Unique, Hands, Handing
  <2>3. \A f \in Calls : OneOwner(f)'
    BY <2>1, <2>2 DEF Owned, OneOwner
  <2> QED BY <2>1, <2>2, <2>3 DEF Owned, Phases, OnDisk, Backed, HeldFiles
<1>2. ASSUME NEW c \in Calls, NEW op \in Ops, NEW hash \in BOOLEAN, NEW bytes \in 0..2,
             Begin(c, op, hash, bytes)
      PROVE  Owned'
  <2>1. /\ CallFrame /\ UNCHANGED <<meta, chan>> /\ phase = "open" /\ call[c].pc # "done"
        /\ \/ CallEnds(c)
           \/ CallMoves(c, "written") /\ temp' = temp \cup {c} /\ inline' = inline
    BY <1>2, BeginEffect
  <2>2. CASE CallEnds(c)
    BY <2>1, <2>2, CallEndsOwned
  <2>3. CASE CallMoves(c, "written") /\ temp' = temp \cup {c} /\ inline' = inline
    BY <2>1, <2>3, CallGoesOnOwned
  <2> QED BY <2>1, <2>2, <2>3
<1>3. ASSUME NEW c \in Calls, call[c].pc \in {"written", "sending", "refused"}
      PROVE  c \in temp /\ phase = "open" /\ call[c].pc # "done"
  BY <1>3 DEF Owned, OnDisk, Phases, Handing
<1>4. ASSUME NEW c \in Calls, Send(c) PROVE Owned'
  <2>1. /\ CallFrame /\ call[c].pc = "written"
        /\ \/ CallEnds(c)
           \/ CallMoves(c, "sending") /\ UNCHANGED <<temp, meta, chan, inline>>
           \/ /\ CallMoves(c, "done") /\ chan' = Append(chan, NewItem(c))
              /\ meta' \in {meta, meta \cup {c}} /\ UNCHANGED <<temp, inline>>
    BY <1>4, SendEffect
  <2>2. c \in temp /\ phase = "open" /\ call[c].pc # "done"
    BY <1>3, <2>1
  <2>3. CASE CallEnds(c)
    BY <2>1, <2>2, <2>3, CallEndsOwned
  <2>4. CASE CallMoves(c, "sending") /\ UNCHANGED <<temp, meta, chan, inline>>
    <3>1. temp' = temp \cup {c}
      BY <2>2, <2>4
    <3> QED BY <2>1, <2>2, <2>4, <3>1, CallGoesOnOwned
  <2>5. CASE /\ CallMoves(c, "done") /\ chan' = Append(chan, NewItem(c))
             /\ meta' \in {meta, meta \cup {c}} /\ UNCHANGED <<temp, inline>>
    BY <2>1, <2>5, AcceptedOwned
  <2> QED BY <2>1, <2>3, <2>4, <2>5
<1>5. ASSUME NEW c \in Calls, SendReady(c) PROVE Owned'
  BY <1>5, SendReadyEffect, AcceptedOwned
<1>6. ASSUME NEW c \in Calls, SendRefused(c) PROVE Owned'
  <2>1. CallFrame /\ call[c].pc = "refused" /\ CallEnds(c)
    BY <1>6, SendRefusedEffect
  <2> QED BY <1>3, <2>1, CallEndsOwned
<1> QED BY <1>1, <1>2, <1>4, <1>5, <1>6, QueueStepOwned, RecoveryOwned, StepKinds

-----------------------------------------------------------------------------
(* Slots and counters.                                                     *)

\* Sets of files are finite, and count what is added and removed.
LEMMA CountFiles ==
  ASSUME NEW S \in SUBSET Calls, NEW x
  PROVE  /\ Cardinality(S) \in Nat /\ IsFiniteSet(S)
         /\ x \in S => Cardinality(S \cup {x}) = Cardinality(S) /\ S \cup {x} = S
         /\ x \notin S => Cardinality(S \cup {x}) = Cardinality(S) + 1
         /\ x \in S => Cardinality(S \ {x}) = Cardinality(S) - 1
         /\ x \notin S => S \ {x} = S
<1>1. IsFiniteSet(S)
  BY FS_Subset, ConfigAssumption
<1>2. Cardinality(S) \in Nat
  BY <1>1, FS_CardinalityType
<1>3. Cardinality(S \cup {x}) = IF x \in S THEN Cardinality(S) ELSE Cardinality(S) + 1
  BY <1>1, FS_AddElement
<1>4. Cardinality(S \ {x}) = IF x \in S THEN Cardinality(S) - 1 ELSE Cardinality(S)
  BY <1>1, FS_RemoveElement
<1> QED BY <1>1, <1>2, <1>3, <1>4

\* The files of the tasks with a slot, and past their start, when a task ends.
LEMMA TaskEndsFiles ==
  ASSUME Unique, NEW t \in tasks, tasks' = tasks \ {t}
  PROVE  /\ t.slot <=> t.item.file \in SlotFiles
         /\ t.pc # "start" <=> t.item.file \in Flying
         /\ SlotFiles' = SlotFiles \ {t.item.file} /\ Flying' = Flying \ {t.item.file}
BY DEF Unique, SlotFiles, Flying

\* The same when a task goes on past its start.
LEMMA TaskGoesOnFiles ==
  ASSUME Unique, NEW t \in tasks, NEW u, tasks' = (tasks \ {t}) \cup {u},
         u.item.file = t.item.file, u.pc # "start"
  PROVE  /\ t.slot <=> t.item.file \in SlotFiles
         /\ t.pc # "start" <=> t.item.file \in Flying
         /\ Flying' = Flying \cup {t.item.file}
         /\ u.slot => SlotFiles' = SlotFiles \cup {t.item.file}
         /\ ~u.slot => SlotFiles' = SlotFiles \ {t.item.file}
BY DEF Unique, SlotFiles, Flying

\* Slots are handed out and given back one at a time.
LEMMA SlotsStep == Shape /\ Owned /\ Slots /\ [Next]_vars => Slots'
<1> SUFFICES ASSUME Shape, Owned, Slots, [Next]_vars PROVE Slots'
  OBVIOUS
<1>0. /\ Unique /\ free \in Int /\ MaxConcurrent \in Nat /\ TaskFiles \subseteq Calls
      /\ free >= 0 /\ free + Cardinality(SlotFiles) = MaxConcurrent
      /\ \A t \in tasks : t.slot <=> t.pc \in {"start", "wire"}
  BY FilesType, ConfigAssumption DEF Owned, Shape, FilesKnown, Slots
<1>1. SlotFiles \in SUBSET Calls
  BY <1>0 DEF SlotFiles, TaskFiles
<1>2. ASSUME tasks' = tasks, free' = free PROVE Slots'
  <2>1. SlotFiles' = SlotFiles
    BY <1>2 DEF SlotFiles
  <2> QED BY <1>0, <1>2, <2>1 DEF Slots
<1>3. ASSUME tasks' = {}, free' = MaxConcurrent PROVE Slots'
  <2>1. SlotFiles' = {}
    BY <1>3 DEF SlotFiles
  <2> QED BY <1>0, <1>3, <2>1, FS_EmptySet DEF Slots
<1>4. CASE Dispatch
  <2> DEFINE w == worker.item
             n == NewTask(w)
  <2>1. /\ w \in Items /\ w # None /\ w.file \in Calls /\ tasks' = tasks \cup {n} /\ n.item = w
        /\ n.slot = TRUE /\ n.pc = "start" /\ free > 0 /\ free' = free - 1
    BY <1>4, DispatchEffect
  <2> HIDE DEF w, n
  <2>2. w.file \notin SlotFiles
    <3>1. w.file \in HandFiles
      BY <2>1 DEF HandFiles, w
    <3>2. w.file \notin TaskFiles
      BY <2>1, <3>1 DEF Owned, OneOwner
    <3> QED BY <3>2 DEF TaskFiles, SlotFiles
  <2>3. SlotFiles' = SlotFiles \cup {w.file}
    BY <2>1 DEF SlotFiles
  <2>4. Cardinality(SlotFiles') = Cardinality(SlotFiles) + 1 /\ Cardinality(SlotFiles) \in Nat
    BY <1>1, <2>2, <2>3, CountFiles
  <2> QED BY <1>0, <2>1, <2>4 DEF Slots
<1>5. ASSUME NEW t \in tasks, TaskStep(t) \/ (Wake(t) /\ TaskFrame) PROVE Slots'
  <2> DEFINE f == t.item.file
  <2>1. Settled(t) \/ \E u : Changed(t, u)
    BY <1>5, TaskEffect
  <2>2. CASE Settled(t)
    <3>1. tasks' = tasks \ {t} /\ free' = free + One(t.slot)
      BY <2>2 DEF Settled
    <3>2. (t.slot <=> f \in SlotFiles) /\ SlotFiles' = SlotFiles \ {f}
      BY <1>0, <3>1, TaskEndsFiles
    <3> HIDE DEF f
    <3>3. /\ f \in SlotFiles => Cardinality(SlotFiles') = Cardinality(SlotFiles) - 1
          /\ f \notin SlotFiles => Cardinality(SlotFiles') = Cardinality(SlotFiles)
          /\ Cardinality(SlotFiles) \in Nat
      BY <1>1, <3>2, CountFiles
    <3> QED BY <1>0, <3>1, <3>2, <3>3 DEF Slots, One
  <2>3. ASSUME NEW u, Changed(t, u) PROVE Slots'
    <3>1. /\ tasks' = (tasks \ {t}) \cup {u} /\ free' = free + One(t.slot) - One(u.slot)
          /\ u.item.file = f /\ u.pc # "start" /\ (u.slot <=> u.pc = "wire")
          /\ t.slot \/ ~u.slot \/ free > 0
      BY <2>3 DEF Changed
    <3>2. /\ t.slot <=> f \in SlotFiles
          /\ u.slot => SlotFiles' = SlotFiles \cup {f}
          /\ ~u.slot => SlotFiles' = SlotFiles \ {f}
      BY <1>0, <3>1, TaskGoesOnFiles
    <3> HIDE DEF f
    <3>3. /\ f \in SlotFiles => Cardinality(SlotFiles \cup {f}) = Cardinality(SlotFiles)
          /\ f \notin SlotFiles => Cardinality(SlotFiles \cup {f}) = Cardinality(SlotFiles) + 1
          /\ f \in SlotFiles => Cardinality(SlotFiles \ {f}) = Cardinality(SlotFiles) - 1
          /\ f \notin SlotFiles => Cardinality(SlotFiles \ {f}) = Cardinality(SlotFiles)
          /\ Cardinality(SlotFiles) \in Nat
      BY <1>1, CountFiles
    <3>4. free' + Cardinality(SlotFiles') = MaxConcurrent
      <4>1. One(t.slot) = (IF f \in SlotFiles THEN 1 ELSE 0)
        BY <3>2 DEF One
      <4>2. CASE u.slot
        <5>1. One(u.slot) = 1 /\ SlotFiles' = SlotFiles \cup {f}
          BY <3>2, <4>2 DEF One
        <5> QED BY <1>0, <3>1, <3>3, <4>1, <5>1
      <4>3. CASE ~u.slot
        <5>1. One(u.slot) = 0 /\ SlotFiles' = SlotFiles \ {f}
          BY <3>2, <4>3 DEF One
        <5> QED BY <1>0, <3>1, <3>3, <4>1, <5>1
      <4> QED BY <4>2, <4>3
    <3>5. \A v \in tasks' : v.slot <=> v.pc \in {"start", "wire"}
      BY <1>0, <3>1
    <3>6. free' >= 0
      BY <1>0, <3>1 DEF One
    <3> QED BY <3>4, <3>5, <3>6 DEF Slots
  <2> QED BY <2>1, <2>2, <2>3
<1>6. CASE UNCHANGED vars \/ ScanList \/ ScanDone \/ SweepOrphans
  BY <1>2, <1>6 DEF vars, work, ScanList, ScanDone, SweepOrphans
<1>7. CASE Idles
  BY <1>2, <1>7, IdleEffect DEF Owned
<1>8. CASE \/ \E c \in Calls, op \in Ops, hash \in BOOLEAN, bytes \in 0..2 : Begin(c, op, hash, bytes)
           \/ \E c \in Calls : Send(c) \/ SendReady(c) \/ SendRefused(c)
           \/ \E u \in inline : InlineEnds(u)
           \/ Receive \/ \E f \in scan : ScanOne(f)
  <2>1. ASSUME NEW c, NEW op, NEW hash, NEW bytes, Begin(c, op, hash, bytes)
        PROVE  tasks' = tasks /\ free' = free
    BY <2>1 DEF Begin
  <2>2. ASSUME NEW c, Send(c) \/ SendReady(c) \/ SendRefused(c)
        PROVE  tasks' = tasks /\ free' = free
    BY <2>2 DEF Send, SendReady, SendRefused
  <2>3. ASSUME NEW u, InlineEnds(u) PROVE tasks' = tasks /\ free' = free
    BY <2>3 DEF InlineEnds, work
  <2>4. ASSUME NEW f, ScanOne(f) PROVE tasks' = tasks /\ free' = free
    BY <2>4 DEF ScanOne
  <2>5. Receive => tasks' = tasks /\ free' = free
    BY DEF Receive
  <2> QED BY <1>2, <1>8, <2>1, <2>2, <2>3, <2>4, <2>5
<1>9. CASE DrainTimeout \/ Crashes
  BY <1>3, <1>9, CrashEffect DEF DrainTimeout
<1> QED BY <1>4, <1>5, <1>6, <1>7, <1>8, <1>9, StepKinds

\* The counters after a step that changes neither them nor what they count.
LEMMA CountsKept ==
  ASSUME Counts, Busy' = Busy, Flying' = Flying, stats'.pending = stats.pending,
         stats'.inflight = stats.inflight, worker.pc = "aborted" => worker'.pc = "aborted"
  PROVE  Counts'
BY DEF Counts

\* What the counters count is files.
LEMMA BusyType == Shape => Busy \in SUBSET Calls /\ Flying \in SUBSET Calls
BY FilesType DEF FilesKnown, Busy, Counted, Flying, TaskFiles

\* The counters after a call moves on.
LEMMA CallCounts ==
  ASSUME Shape, Owned, Counts, CallFrame, NEW c \in Calls, call[c].pc # "done",
         NEW pc \in {"written", "sending", "done"}, CallMoves(c, pc),
         stats'.inflight = stats.inflight, stats.pending \in Int,
         \/ /\ chan' = chan /\ pc # "sending" /\ call[c].pc \notin {"sending", "refused"}
            /\ stats'.pending = stats.pending
         \/ /\ chan' = chan /\ pc = "sending" /\ call[c].pc = "written"
            /\ stats'.pending = stats.pending + 1
         \/ /\ chan' = chan /\ pc = "done" /\ call[c].pc = "refused"
            /\ stats'.pending = stats.pending - 1
         \/ /\ chan' = Append(chan, NewItem(c)) /\ pc = "done" /\ call[c].pc = "written"
            /\ stats'.pending = stats.pending + 1
         \/ /\ chan' = Append(chan, NewItem(c)) /\ pc = "done" /\ call[c].pc = "sending"
            /\ stats'.pending = stats.pending
  PROVE  Counts'
<1>0. HandFiles' = HandFiles /\ TaskFiles' = TaskFiles /\ tasks' = tasks /\ worker' = worker
  BY CallFrameFiles
<1>1. Flying' = Flying
  BY <1>0 DEF Flying
<1>2. c \notin HeldFiles
  BY CallerFacts DEF HeldFiles
<1>3. call'[c].pc = pc /\ \A d \in Calls : d # c => call'[d] = call[d]
  BY DEF CallMoves
<1>4. /\ chan' = chan => HeldFiles' = HeldFiles
      /\ chan' = Append(chan, NewItem(c)) => HeldFiles' = HeldFiles \cup {c}
  <2>1. chan' = chan => ChanFiles' = ChanFiles
    BY DEF ChanFiles
  <2>2. chan' = Append(chan, NewItem(c)) => ChanFiles' = ChanFiles \cup {c}
    <3> DEFINE e == NewItem(c)
    <3>1. e \in Items /\ e.file = c /\ chan \in Seq(Items)
      BY NewItemType DEF Shape
    <3> HIDE DEF e
    <3>2. Files(Append(chan, e)) = Files(chan) \cup {c}
      BY <3>1, AppendFiles
    <3> QED BY <3>2 DEF ChanFiles, e
  <2> QED BY <1>0, <2>1, <2>2 DEF HeldFiles
<1>5. /\ pc = "sending" => Counted' = Counted \cup {c}
      /\ pc # "sending" => Counted' = Counted \ {c}
      /\ c \in Counted <=> call[c].pc \in {"sending", "refused"}
  BY <1>3 DEF Counted
<1>6. Busy \in SUBSET Calls
  BY BusyType
<1>7. /\ Cardinality(Busy) \in Nat
      /\ c \notin Busy => Cardinality(Busy \cup {c}) = Cardinality(Busy) + 1
      /\ c \in Busy => Cardinality(Busy \ {c}) = Cardinality(Busy) - 1
  BY <1>6, CountFiles
<1>8. CASE /\ chan' = chan /\ pc # "sending" /\ call[c].pc \notin {"sending", "refused"}
           /\ stats'.pending = stats.pending
  <2>1. Busy' = Busy
    BY <1>4, <1>5, <1>8 DEF Busy
  <2> QED BY <1>0, <1>1, <1>8, <2>1, CountsKept
<1>9. CASE /\ stats'.pending = stats.pending + 1 /\ call[c].pc = "written"
           /\ \/ chan' = chan /\ pc = "sending"
              \/ chan' = Append(chan, NewItem(c)) /\ pc = "done"
  <2>1. Busy' = Busy \cup {c} /\ c \notin Busy
    BY <1>2, <1>4, <1>5, <1>9 DEF Busy
  <2> QED BY <1>0, <1>1, <1>7, <1>9, <2>1 DEF Counts
<1>10. CASE chan' = chan /\ pc = "done" /\ call[c].pc = "refused" /\ stats'.pending = stats.pending - 1
  <2>1. Busy' = Busy \ {c} /\ c \in Busy
    BY <1>2, <1>4, <1>5, <1>10 DEF Busy
  <2> QED BY <1>0, <1>1, <1>7, <1>10, <2>1 DEF Counts
<1>11. CASE /\ chan' = Append(chan, NewItem(c)) /\ pc = "done" /\ call[c].pc = "sending"
            /\ stats'.pending = stats.pending
  <2>1. Busy' = Busy
    BY <1>4, <1>5, <1>11 DEF Busy
  <2> QED BY <1>0, <1>1, <1>11, <2>1, CountsKept
<1> QED BY <1>8, <1>9, <1>10, <1>11

\* The counters after a step of a task.
LEMMA TaskCounts ==
  ASSUME Shape, Owned, Slots, Counts, NEW t \in tasks, TaskStep(t) \/ (Wake(t) /\ TaskFrame)
  PROVE  Counts'
<1> DEFINE f == t.item.file
<1>1. TaskFrame /\ (Settled(t) \/ \E u : Changed(t, u))
  BY TaskEffect
<1>2. Busy \in SUBSET Calls /\ Flying \in SUBSET Calls /\ Unique /\ stats \in Counters
  BY BusyType DEF Owned, Shape
<1>3. f \in TaskFiles /\ f \in Calls
  BY <1>2, TaskFilesKept, FilesType DEF FilesKnown
<1>4. f \notin ChanFiles /\ f \notin HandFiles /\ call[f].pc = "done"
  BY <1>3 DEF Owned, OneOwner
<1>5. f \in Busy /\ f \notin Counted
  BY <1>3, <1>4 DEF Busy, HeldFiles, Counted
<1>6. /\ ChanFiles' = ChanFiles /\ HandFiles' = HandFiles /\ worker' = worker
  BY <1>1 DEF TaskFrame, ChanFiles, HandFiles
<1>7. stats.pending \in Int /\ stats.inflight \in Int
  BY <1>2 DEF Counters
<1>8. /\ Cardinality(Busy) \in Nat /\ Cardinality(Flying) \in Nat
      /\ Cardinality(Busy \ {f}) = Cardinality(Busy) - 1
      /\ f \in Flying => Cardinality(Flying \ {f}) = Cardinality(Flying) - 1
      /\ f \notin Flying => Cardinality(Flying \ {f}) = Cardinality(Flying)
      /\ f \in Flying => Cardinality(Flying \cup {f}) = Cardinality(Flying)
      /\ f \notin Flying => Cardinality(Flying \cup {f}) = Cardinality(Flying) + 1
  <2> HIDE DEF f
  <2>1. Cardinality(Busy) \in Nat /\ Cardinality(Busy \ {f}) = Cardinality(Busy) - 1
    BY <1>2, <1>5, CountFiles
  <2> QED BY <1>2, <2>1, CountFiles
<1>9. CASE Settled(t)
  <2>1. /\ tasks' = tasks \ {t} /\ Steady /\ stats'.pending = stats.pending - 1
        /\ stats'.inflight = stats.inflight - One(t.pc # "start")
    BY <1>9 DEF Settled
  <2>2. /\ t.pc # "start" <=> f \in Flying
        /\ Flying' = Flying \ {f} /\ TaskFiles' = TaskFiles \ {f} /\ Counted' = Counted
    BY <1>2, <2>1, TaskEndsFiles, TaskFilesKept, SteadyFacts
  <2> HIDE DEF f
  <2>3. Busy' = Busy \ {f}
    BY <1>4, <1>5, <1>6, <2>2 DEF Busy, HeldFiles
  <2>4. /\ Cardinality(Busy') = Cardinality(Busy) - 1
        /\ Cardinality(Flying') = Cardinality(Flying) - One(t.pc # "start")
    BY <1>8, <2>2, <2>3 DEF One
  <2> QED BY <1>6, <1>7, <2>1, <2>4 DEF Counts
<1>10. ASSUME NEW u, Changed(t, u) PROVE Counts'
  <2>1. /\ tasks' = (tasks \ {t}) \cup {u} /\ u.item.file = f /\ u.pc # "start" /\ Steady
        /\ stats'.pending = stats.pending /\ stats'.inflight = stats.inflight + One(t.pc = "start")
    BY <1>10 DEF Changed
  <2>2. /\ t.pc # "start" <=> f \in Flying
        /\ Flying' = Flying \cup {f} /\ TaskFiles' = TaskFiles /\ Counted' = Counted
    BY <1>2, <2>1, TaskGoesOnFiles, TaskFilesKept, SteadyFacts
  <2> HIDE DEF f
  <2>3. Busy' = Busy
    BY <1>6, <2>2 DEF Busy, HeldFiles
  <2>4. Cardinality(Flying') = Cardinality(Flying) + One(t.pc = "start")
    BY <1>8, <2>2 DEF One
  <2> QED BY <1>6, <1>7, <2>1, <2>3, <2>4 DEF Counts
<1> QED BY <1>1, <1>9, <1>10

\* The counters stay exact.
LEMMA CountsStep == Shape /\ Owned /\ Slots /\ Counts /\ [Next]_vars => Counts'
<1> SUFFICES ASSUME Shape, Owned, Slots, Counts, [Next]_vars PROVE Counts'
  OBVIOUS
<1>0. /\ stats \in Counters /\ stats.pending \in Int /\ Unique /\ Hands
      /\ \A c \in Calls : call[c].bytes \in Int
  <2>1. stats \in Counters /\ call \in [Calls -> CallStates] /\ Unique /\ Hands
    BY DEF Shape, Owned
  <2> QED BY <2>1 DEF Counters, CallStates
<1>1. ASSUME NEW b \in Int
      PROVE  /\ Rises(stats, b).pending = stats.pending + 1 /\ Rises(stats, b).inflight = stats.inflight
             /\ Falls(stats, b).pending = stats.pending - 1 /\ Falls(stats, b).inflight = stats.inflight
  BY <1>0, CounterType
<1>2. ASSUME NEW c \in Calls, NEW op \in Ops, NEW hash \in BOOLEAN, NEW bytes \in 0..2,
             Begin(c, op, hash, bytes)
      PROVE  Counts'
  <2>1. /\ CallFrame /\ stats' = stats /\ chan' = chan /\ call[c].pc = "idle"
        /\ CallMoves(c, "done") \/ CallMoves(c, "written")
    BY <1>2, BeginEffect DEF CallEnds
  <2> QED BY <1>0, <2>1, CallCounts
<1>3. ASSUME NEW c \in Calls, Send(c) PROVE Counts'
  <2>1. /\ CallFrame /\ call[c].pc = "written"
        /\ \/ CallMoves(c, "done") /\ chan' = chan /\ stats' = stats
           \/ /\ CallMoves(c, "sending") /\ stats' = Rises(stats, call[c].bytes) /\ chan' = chan
           \/ /\ CallMoves(c, "done")
              /\ chan' = Append(chan, NewItem(c)) /\ stats' = Rises(stats, call[c].bytes)
    BY <1>3, SendEffect DEF CallEnds
  <2>2. stats' = Rises(stats, call[c].bytes)
          => stats'.pending = stats.pending + 1 /\ stats'.inflight = stats.inflight
    BY <1>0, <1>1
  <2>3. CASE CallMoves(c, "done") /\ chan' = chan /\ stats' = stats
    BY <1>0, <2>1, <2>3, CallCounts
  <2>4. CASE CallMoves(c, "sending") /\ stats' = Rises(stats, call[c].bytes) /\ chan' = chan
    BY <1>0, <2>1, <2>2, <2>4, CallCounts
  <2>5. CASE /\ CallMoves(c, "done")
             /\ chan' = Append(chan, NewItem(c)) /\ stats' = Rises(stats, call[c].bytes)
    BY <1>0, <2>1, <2>2, <2>5, CallCounts
  <2> QED BY <2>1, <2>3, <2>4, <2>5
<1>4. ASSUME NEW c \in Calls, SendReady(c) PROVE Counts'
  <2>1. /\ CallFrame /\ call[c].pc = "sending" /\ CallMoves(c, "done") /\ stats' = stats
        /\ chan' = Append(chan, NewItem(c))
    BY <1>4, SendReadyEffect
  <2> QED BY <1>0, <2>1, CallCounts
<1>5. ASSUME NEW c \in Calls, SendRefused(c) PROVE Counts'
  <2>1. /\ CallFrame /\ call[c].pc = "refused" /\ CallMoves(c, "done") /\ chan' = chan
        /\ stats' = Falls(stats, call[c].bytes)
    BY <1>5, SendRefusedEffect DEF CallEnds
  <2>2. stats'.pending = stats.pending - 1 /\ stats'.inflight = stats.inflight
    BY <1>0, <1>1, <2>1
  <2> QED BY <1>0, <2>1, <2>2, CallCounts
<1>6. ASSUME NEW t \in tasks, TaskStep(t) \/ (Wake(t) /\ TaskFrame) PROVE Counts'
  BY <1>6, TaskCounts
<1>7. ASSUME chan' = chan, worker'.item = worker.item, tasks' = tasks,
             Counted' = Counted, stats'.pending = stats.pending, stats'.inflight = stats.inflight,
             worker.pc = "aborted" => worker'.pc = "aborted"
      PROVE  Counts'
  <2>1. Busy' = Busy /\ Flying' = Flying
    BY <1>7 DEF Busy, HeldFiles, ChanFiles, HandFiles, TaskFiles, Flying
  <2> QED BY <1>7, <2>1, CountsKept
<1>8. CASE UNCHANGED vars \/ ScanList \/ ScanDone \/ SweepOrphans
  <2>1. UNCHANGED <<chan, worker, tasks, call>>
        /\ stats'.pending = stats.pending /\ stats'.inflight = stats.inflight
    BY <1>8, SweepEffect DEF vars, work, ScanList, ScanDone, SweepOrphans
  <2>2. Counted' = Counted
    BY <2>1 DEF Counted
  <2> QED BY <1>7, <2>1, <2>2
<1>9. CASE Idles
  BY <1>0, <1>7, <1>9, IdleEffect, SteadyFacts
<1>10. ASSUME NEW u \in inline, InlineEnds(u) PROVE Counts'
  BY <1>7, <1>10, InlineEffect, SteadyFacts
<1>11. CASE Receive
  <2> DEFINE h == Head(chan)
  <2>1. /\ chan # <<>> /\ chan' = Tail(chan) /\ worker'.item = h /\ worker.item = None
        /\ worker.pc # "aborted" /\ h \in Items /\ chan \in Seq(Items) /\ h # None
        /\ UNCHANGED <<call, tasks, stats>>
    BY <1>11, ReceiveEffect, ConfigAssumption DEF Shape
  <2>2. ChanFiles' = ChanFiles \ {h.file} /\ h.file \in ChanFiles
    BY <1>0, <2>1, TailFiles DEF ChanFiles, Unique
  <2> HIDE DEF h
  <2>3. HandFiles' = {h.file} /\ HandFiles = {} /\ TaskFiles' = TaskFiles
        /\ Counted' = Counted /\ Flying' = Flying
    BY <2>1 DEF HandFiles, TaskFiles, Counted, Flying
  <2>4. Busy' = Busy
    BY <2>2, <2>3 DEF Busy, HeldFiles
  <2> QED BY <2>1, <2>3, <2>4, CountsKept
<1>12. CASE Dispatch
  <2> DEFINE w == worker.item
             n == NewTask(w)
  <2>1. /\ w \in Items /\ w # None /\ tasks' = tasks \cup {n} /\ n.item = w
        /\ n.pc = "start" /\ worker'.item = None /\ worker.pc # "aborted"
        /\ UNCHANGED <<chan, call, stats>>
    BY <1>12, DispatchEffect
  <2> HIDE DEF w, n
  <2>2. /\ HandFiles = {w.file} /\ HandFiles' = {} /\ ChanFiles' = ChanFiles
        /\ TaskFiles' = TaskFiles \cup {w.file} /\ Counted' = Counted /\ Flying' = Flying
    BY <2>1 DEF HandFiles, ChanFiles, TaskFiles, Counted, Flying, w
  <2>3. Busy' = Busy
    BY <2>2 DEF Busy, HeldFiles
  <2> QED BY <2>1, <2>2, <2>3, CountsKept
<1>13. CASE DrainTimeout
  BY <1>13, TimeoutEffect DEF Counts
<1>14. CASE Crashes
  <2>1. /\ \A c \in Calls : call'[c].pc \in {"done", "idle"}
        /\ chan' = <<>> /\ tasks' = {} /\ worker' = [pc |-> "loop", item |-> None]
        /\ stats' = NoStats
    BY <1>14, CrashEffect
  <2>2. worker'.item = None /\ stats'.pending = 0 /\ stats'.inflight = 0
    BY <2>1 DEF NoStats
  <2>3. ChanFiles' = {} /\ HandFiles' = {} /\ TaskFiles' = {} /\ Flying' = {} /\ Counted' = {}
    BY <2>1, <2>2, EmptyFiles DEF ChanFiles, HandFiles, TaskFiles, Flying, Counted
  <2>4. Busy' = {}
    BY <2>3 DEF Busy, HeldFiles
  <2> QED BY <2>2, <2>3, <2>4, FS_EmptySet DEF Counts
<1>15. ASSUME NEW f \in scan, ScanOne(f) PROVE Counts'
  <2>1. /\ f \in Calls /\ phase = "scan"
        /\ \/ UNCHANGED <<chan, stats>>
           \/ chan' = Append(chan, Recovered(f)) /\ stats' = Rises(stats, 1)
        /\ UNCHANGED <<call, worker, tasks>>
    BY <1>15, ScanEffect
  <2>2. Counted' = Counted /\ HandFiles' = HandFiles /\ TaskFiles' = TaskFiles /\ Flying' = Flying
    BY <2>1 DEF Counted, HandFiles, TaskFiles, Flying
  <2>3. CASE UNCHANGED <<chan, stats>>
    BY <1>7, <2>1, <2>2, <2>3
  <2>4. CASE chan' = Append(chan, Recovered(f)) /\ stats' = Rises(stats, 1)
    <3>1. f \notin HeldFiles /\ call[f].pc = "done"
      BY <2>1 DEF Owned, OneOwner, HeldFiles
    <3>2. f \notin Busy
      BY <3>1 DEF Busy, Counted
    <3>3. ChanFiles' = ChanFiles \cup {f}
      <4> DEFINE e == Recovered(f)
      <4>1. e \in Items /\ e.file = f /\ chan \in Seq(Items) /\ chan' = Append(chan, e)
        BY <2>1, <2>4, RecoveredType DEF Shape
      <4> HIDE DEF e
      <4> QED BY <4>1, AppendFiles DEF ChanFiles
    <3>4. Busy' = Busy \cup {f}
      BY <2>2, <3>3 DEF Busy, HeldFiles
    <3>5. stats'.pending = stats.pending + 1 /\ stats'.inflight = stats.inflight
      BY <1>1, <2>4
    <3>6. Busy \in SUBSET Calls
      BY BusyType
    <3>7. Cardinality(Busy') = Cardinality(Busy) + 1 /\ Cardinality(Busy) \in Nat
      BY <3>2, <3>4, <3>6, CountFiles
    <3> QED BY <2>1, <2>2, <3>5, <3>7 DEF Counts
  <2> QED BY <2>1, <2>3, <2>4
<1> QED BY <1>2, <1>3, <1>4, <1>5, <1>6, <1>8, <1>9, <1>10, <1>11, <1>12, <1>13, <1>14, <1>15,
           StepKinds

\* The queue holds one item of a file.
LEMMA HeldOnce ==
  ASSUME Shape, Owned, NEW i \in Held, NEW j \in Held, i.file = j.file
  PROVE  i = j
<1> DEFINE f == i.file
<1>1. f \in Calls
  BY HeldFilesAre, FilesType DEF FilesKnown
<1>2. Unique /\ OneOwner(f)
  BY <1>1 DEF Owned
<1> DEFINE hand == IF worker.item = None THEN {} ELSE {worker.item}
           run == {t.item : t \in tasks}
<1>3. /\ i \in ToSet(chan) \/ i \in run \/ i \in hand
      /\ j \in ToSet(chan) \/ j \in run \/ j \in hand
  BY DEF Held
<1>4. /\ i \in ToSet(chan) \/ j \in ToSet(chan) => f \in ChanFiles
      /\ i \in run \/ j \in run => f \in TaskFiles
      /\ i \in hand \/ j \in hand => f \in HandFiles
  BY DEF ToSet, ChanFiles, Files, TaskFiles, HandFiles
<1>5. i \in ToSet(chan) /\ j \in ToSet(chan) => i = j
  BY <1>2 DEF Unique, Once, ToSet
<1>6. i \in run /\ j \in run => i = j
  BY <1>2 DEF Unique
<1>7. i \in hand /\ j \in hand => i = j
  OBVIOUS
<1> HIDE DEF f, hand, run
<1>8. ~(f \in ChanFiles /\ f \in TaskFiles) /\ ~(f \in ChanFiles /\ f \in HandFiles)
      /\ ~(f \in HandFiles /\ f \in TaskFiles)
  BY <1>2 DEF OneOwner
<1> QED BY <1>3, <1>4, <1>5, <1>6, <1>7, <1>8

-----------------------------------------------------------------------------
(* The bytes.                                                              *)

\* Finitely many files have finitely many bytes.
LEMMA LoadFinite ==
  ASSUME NEW P
  PROVE  IsFiniteSet(Load(P)) /\ Cardinality(Load(P)) \in Nat
<1>1. IsFiniteSet(1..2)
  <2>1. \A k \in Int : IsFiniteSet(1..k)
    BY FS_Interval
  <2>2. 2 \in Int
    OBVIOUS
  <2> QED BY Zenon, <2>1, <2>2
<1>2. IsFiniteSet(Calls \X (1..2))
  BY <1>1, FS_Product, ConfigAssumption
<1>3. Load(P) \subseteq Calls \X (1..2)
  BY DEF Load
<1> QED BY <1>2, <1>3, FS_Subset, FS_CardinalityType

\* The bytes of one more file.
LEMMA LoadAdds ==
  ASSUME NEW P, NEW f \in Calls, NEW n \in 0..2, \A p \in P : p[1] # f
  PROVE  /\ Cardinality(Load(P)) \in Nat
         /\ Cardinality(Load(P \cup {<<f, n>>})) = Cardinality(Load(P)) + n
<1> DEFINE A == Load(P)
           B == {f} \X (1..n)
<1>1. IsFiniteSet(1..n) /\ Cardinality(1..n) = n
  <2>1. ASSUME NEW k \in Int
        PROVE  IsFiniteSet(1..k) /\ Cardinality(1..k) = IF 1 > k THEN 0 ELSE k - 1 + 1
    BY FS_Interval
  <2>2. n \in Int /\ (n = 0 \/ n >= 1)
    OBVIOUS
  <2>3. IsFiniteSet(1..n) /\ Cardinality(1..n) = IF 1 > n THEN 0 ELSE n - 1 + 1
    BY <2>1, <2>2
  <2> QED BY <2>2, <2>3
<1>2. IsFiniteSet(A) /\ Cardinality(A) \in Nat
  BY LoadFinite
<1>3. IsFiniteSet(B) /\ Cardinality(B) = n
  <2>1. IsFiniteSet({f}) /\ Cardinality({f}) = 1
    BY FS_Singleton
  <2>2. IsFiniteSet(B) /\ Cardinality(B) = Cardinality({f}) * Cardinality(1..n)
    BY <1>1, <2>1, FS_Product
  <2> HIDE DEF B
  <2> QED BY <1>1, <2>1, <2>2
<1>4. A \cap B = {}
  BY DEF Load
<1>5. Load(P \cup {<<f, n>>}) = A \cup B
  <2>1. ASSUME NEW x \in Calls \X (1..2)
        PROVE  x \in Load(P \cup {<<f, n>>}) <=> x \in A \/ x \in B
    <3>1. PICK a \in Calls, b \in 1..2 : x = <<a, b>>
      BY <2>1
    <3>2. x[1] = a /\ x[2] = b /\ (x \in B <=> a = f /\ b <= n)
      BY <3>1
    <3>3. (\E p \in P \cup {<<f, n>>} : p[1] = a /\ b <= p[2])
             <=> (\E p \in P : p[1] = a /\ b <= p[2]) \/ (f = a /\ b <= n)
      <4> DEFINE q == <<f, n>>
      <4>1. q[1] = f /\ q[2] = n
        OBVIOUS
      <4> HIDE DEF q
      <4>2. (\E p \in P \cup {q} : p[1] = a /\ b <= p[2])
               <=> (\E p \in P : p[1] = a /\ b <= p[2]) \/ (q[1] = a /\ b <= q[2])
        BY Zenon
      <4> QED BY <4>1, <4>2 DEF q
    <3> QED BY <3>2, <3>3 DEF Load
  <2>2. Load(P \cup {<<f, n>>}) \subseteq Calls \X (1..2) /\ A \subseteq Calls \X (1..2)
    BY DEF Load
  <2>3. B \subseteq Calls \X (1..2)
    OBVIOUS
  <2> HIDE DEF A, B
  <2> QED BY <2>1, <2>2, <2>3
<1> HIDE DEF A, B
<1>6. Cardinality(A \cup B) = Cardinality(A) + Cardinality(B) - Cardinality(A \cap B)
  BY <1>2, <1>3, FS_Union
<1>7. Cardinality(A \cap B) = 0
  BY <1>4, FS_EmptySet
<1>8. Cardinality(A \cup B) = Cardinality(A) + n
  BY <1>2, <1>3, <1>6, <1>7
<1> QED BY <1>2, <1>5, <1>8 DEF A

\* The bytes of one file less.
LEMMA LoadFalls ==
  ASSUME NEW P, NEW f \in Calls, NEW n \in 0..2, <<f, n>> \in P,
         \A p \in P : p[1] = f => p = <<f, n>>
  PROVE  /\ Cardinality(Load(P)) \in Nat
         /\ Cardinality(Load(P \ {<<f, n>>})) = Cardinality(Load(P)) - n
<1> DEFINE Q == P \ {<<f, n>>}
<1>1. P = Q \cup {<<f, n>>} /\ \A p \in Q : p[1] # f
  OBVIOUS
<1> HIDE DEF Q
<1>2. Cardinality(Load(Q)) \in Nat /\ Cardinality(Load(Q \cup {<<f, n>>})) = Cardinality(Load(Q)) + n
  BY <1>1, LoadAdds
<1>3. Cardinality(Load(P)) = Cardinality(Load(Q)) + n
  BY <1>1, <1>2
<1> QED BY <1>2, <1>3 DEF Q

\* Nothing weighs nothing.
LEMMA LoadNone == Load({}) = {} /\ Cardinality(Load({})) = 0
<1>1. Load({}) = {}
  BY DEF Load
<1> QED BY <1>1, FS_EmptySet

\* What is counted is of a file that is counted, of a known size.
LEMMA SizesType ==
  ASSUME Shape
  PROVE  /\ \A p \in Sizes : p[1] \in Busy
         /\ \A item \in Held : item.bytes \in 0..2 /\ item.file \in HeldFiles
<1>1. \A item \in Held : item.bytes \in 0..2
  BY HeldType DEF Items
<1>2. \A item \in Held : item.file \in HeldFiles
  BY HeldFilesAre
<1> QED BY <1>1, <1>2 DEF Sizes, HeldSizes, CallSizes, Busy

\* The bytes after a step that changes neither them nor what they count.
LEMMA BytesKept ==
  ASSUME Exact, Sizes' = Sizes, stats'.bytes = stats.bytes,
         worker.pc = "aborted" => worker'.pc = "aborted",
         \A t \in tasks' : t \in tasks \/ t.pc = "start"
  PROVE  Exact'
BY DEF Exact

\* One more item in the channel.
LEMMA AppendHeld ==
  ASSUME NEW q \in Seq(Items), NEW e \in Items
  PROVE  ToSet(Append(q, e)) = ToSet(q) \cup {e}
<1>1. /\ Append(q, e) \in Seq(Items) /\ Len(Append(q, e)) = Len(q) + 1
      /\ \A i \in 1..Len(q) : Append(q, e)[i] = q[i]
      /\ Append(q, e)[Len(q) + 1] = e /\ Len(q) \in Nat
      /\ DOMAIN Append(q, e) = 1..(Len(q) + 1) /\ DOMAIN q = 1..Len(q)
  OBVIOUS
<1>2. ASSUME NEW x PROVE x \in ToSet(Append(q, e)) <=> x \in ToSet(q) \/ x = e
  <2>1. x \in ToSet(Append(q, e)) => x \in ToSet(q) \/ x = e
    <3>1. ASSUME NEW i \in 1..(Len(q) + 1), x = Append(q, e)[i] PROVE x \in ToSet(q) \/ x = e
      BY <1>1, <3>1 DEF ToSet
    <3> QED BY <1>1, <3>1 DEF ToSet
  <2>2. x \in ToSet(q) => x \in ToSet(Append(q, e))
    <3>1. ASSUME NEW i \in 1..Len(q), x = q[i] PROVE x \in ToSet(Append(q, e))
      <4>1. i \in DOMAIN Append(q, e) /\ Append(q, e)[i] = x
        BY <1>1, <3>1
      <4> QED BY <4>1 DEF ToSet
    <3> QED BY <1>1, <3>1 DEF ToSet
  <2>3. e \in ToSet(Append(q, e))
    <3>1. Len(q) + 1 \in DOMAIN Append(q, e)
      BY <1>1
    <3> QED BY <1>1, <3>1 DEF ToSet
  <2> QED BY <2>1, <2>2, <2>3
<1> QED BY <1>2

\* The head and the rest of a channel are its items.
LEMMA TailHeld ==
  ASSUME NEW q \in Seq(Items), q # <<>>
  PROVE  ToSet(q) = ToSet(Tail(q)) \cup {Head(q)}
<1>1. /\ Tail(q) \in Seq(Items) /\ Len(Tail(q)) = Len(q) - 1 /\ Len(q) \in Nat \ {0}
      /\ \A i \in 1..Len(Tail(q)) : Tail(q)[i] = q[i + 1]
      /\ Head(q) = q[1]
      /\ DOMAIN Tail(q) = 1..Len(Tail(q)) /\ DOMAIN q = 1..Len(q)
  OBVIOUS
<1>2. ASSUME NEW x PROVE x \in ToSet(q) <=> x \in ToSet(Tail(q)) \/ x = Head(q)
  <2>1. ASSUME NEW i \in 1..Len(q), x = q[i] PROVE x \in ToSet(Tail(q)) \/ x = Head(q)
    <3>1. CASE i = 1
      BY <1>1, <2>1, <3>1
    <3>2. CASE i # 1
      <4>1. i - 1 \in 1..Len(Tail(q)) /\ Tail(q)[i - 1] = q[(i - 1) + 1] /\ (i - 1) + 1 = i
        BY <1>1, <3>2
      <4>2. i - 1 \in DOMAIN Tail(q) /\ x = Tail(q)[i - 1]
        BY <1>1, <2>1, <4>1
      <4> QED BY <4>2 DEF ToSet
    <3> QED BY <3>1, <3>2
  <2>2. ASSUME NEW i \in 1..Len(Tail(q)), x = Tail(q)[i] PROVE x \in ToSet(q)
    <3>1. i + 1 \in DOMAIN q /\ x = q[i + 1]
      BY <1>1, <2>2
    <3> QED BY <3>1 DEF ToSet
  <2>3. Head(q) \in ToSet(q)
    <3>1. 1 \in DOMAIN q /\ Head(q) = q[1]
      BY <1>1
    <3> QED BY <3>1 DEF ToSet
  <2>4. x \in ToSet(q) => x \in ToSet(Tail(q)) \/ x = Head(q)
    BY <1>1, <2>1 DEF ToSet
  <2>5. x \in ToSet(Tail(q)) => x \in ToSet(q)
    BY <1>1, <2>2 DEF ToSet
  <2> QED BY <2>3, <2>4, <2>5
<1> QED BY <1>2

\* What the sizes are made of.
LEMMA SizesAre ==
  /\ \A p : p \in HeldSizes <=> \E i \in Held : p = <<i.file, i.bytes>>
  /\ \A p : p \in CallSizes <=> \E c \in Counted : p = <<c, call[c].bytes>>
  /\ \A p \in HeldSizes : \E i \in Held : p[1] = i.file /\ p[2] = i.bytes
  /\ \A p \in CallSizes : p[1] \in Counted /\ p[2] = call[p[1]].bytes
<1>1. \A p : p \in HeldSizes <=> \E i \in Held : p = <<i.file, i.bytes>>
  BY DEF HeldSizes
<1>2. \A p : p \in CallSizes <=> \E c \in Counted : p = <<c, call[c].bytes>>
  BY DEF CallSizes
<1> QED BY <1>1, <1>2

\* The sizes after a call moves on.
LEMMA CallSizesMove ==
  ASSUME Shape, Owned, CallFrame, NEW c \in Calls, call[c].pc # "done",
         NEW pc \in {"written", "sending", "done"}, CallMoves(c, pc),
         pc = "sending" => call'[c].bytes = call[c].bytes
  PROVE  /\ \A p \in HeldSizes : p[1] # c
         /\ c \notin Counted => \A p \in Sizes : p[1] # c
         /\ c \in Counted => <<c, call[c].bytes>> \in Sizes
         /\ \A p \in Sizes : p[1] = c => p = <<c, call[c].bytes>>
         /\ chan' = chan => HeldSizes' = HeldSizes
         /\ chan' = Append(chan, NewItem(c)) => HeldSizes' = HeldSizes \cup {<<c, call[c].bytes>>}
         /\ pc = "sending" /\ c \notin Counted => CallSizes' = CallSizes \cup {<<c, call[c].bytes>>}
         /\ pc # "sending" => CallSizes' = CallSizes \ {<<c, call[c].bytes>>}
<1> DEFINE n == call[c].bytes
<1>1. c \notin HeldFiles
  BY CallerFacts DEF HeldFiles
<1>2. \A i \in Held : i.file # c
  BY <1>1, HeldFilesAre
<1>3. \A p \in HeldSizes : p[1] # c
  BY <1>2, SizesAre
<1>4. call'[c].pc = pc /\ \A d \in Calls : d # c => call'[d] = call[d]
  BY DEF CallMoves
<1>5. \A p \in CallSizes : p[1] = c => p = <<c, n>>
  <2> SUFFICES ASSUME NEW p \in CallSizes, p[1] = c PROVE p = <<c, n>>
    OBVIOUS
  <2>1. PICK d \in Counted : p = <<d, call[d].bytes>>
    BY SizesAre
  <2> QED BY <2>1
<1>6. /\ c \notin Counted => \A p \in CallSizes : p[1] # c
      /\ c \in Counted => <<c, n>> \in CallSizes
  BY SizesAre
<1>7. tasks' = tasks /\ worker' = worker
  BY DEF CallFrame
<1>8. chan' = chan => HeldSizes' = HeldSizes
  BY <1>7 DEF HeldSizes, Held
<1>9. ASSUME chan' = Append(chan, NewItem(c)) PROVE HeldSizes' = HeldSizes \cup {<<c, n>>}
  <2> DEFINE e == NewItem(c)
  <2>1. e \in Items /\ e.file = c /\ e.bytes = n /\ chan \in Seq(Items) /\ chan' = Append(chan, e)
    BY <1>9, NewItemType DEF Shape, NewItem
  <2> HIDE DEF e, n
  <2>2. ToSet(chan') = ToSet(chan) \cup {e}
    BY <2>1, AppendHeld
  <2>3. Held' = Held \cup {e}
    BY <1>7, <2>2 DEF Held
  <2> QED BY <2>1, <2>3 DEF HeldSizes
<1>10. ASSUME pc = "sending", c \notin Counted PROVE CallSizes' = CallSizes \cup {<<c, n>>}
  <2>1. Counted' = Counted \cup {c} /\ call'[c].bytes = n
    BY <1>4, <1>10 DEF Counted
  <2>2. \A d \in Counted : call'[d].bytes = call[d].bytes
    BY <1>4, <1>10 DEF Counted
  <2> HIDE DEF n
  <2> QED BY <2>1, <2>2 DEF CallSizes
<1>11. ASSUME pc # "sending" PROVE CallSizes' = CallSizes \ {<<c, n>>}
  <2>1. Counted' = Counted \ {c}
    BY <1>4, <1>11 DEF Counted
  <2>2. \A d \in Counted' : call'[d].bytes = call[d].bytes /\ d # c /\ d \in Counted
    BY <1>4, <2>1 DEF Counted
  <2>3. ASSUME NEW p PROVE p \in CallSizes' <=> p \in CallSizes /\ p # <<c, n>>
    <3>1. p \in CallSizes' => p \in CallSizes /\ p # <<c, n>>
      <4>1. ASSUME NEW d \in Counted', p = <<d, call'[d].bytes>>
            PROVE  p \in CallSizes /\ p # <<c, n>>
        <5>1. d \in Counted /\ d # c /\ p = <<d, call[d].bytes>>
          BY <2>2, <4>1
        <5>2. p \in CallSizes
          BY <5>1, SizesAre
        <5> QED BY <5>1, <5>2
      <4> QED BY <4>1 DEF CallSizes
    <3>2. ASSUME p \in CallSizes, p # <<c, n>> PROVE p \in CallSizes'
      <4>1. PICK d \in Counted : p = <<d, call[d].bytes>>
        BY <3>2, SizesAre
      <4>2. d # c
        BY <3>2, <4>1
      <4>3. d \in Counted' /\ p = <<d, call'[d].bytes>>
        BY <2>1, <2>2, <4>1, <4>2
      <4> QED BY <4>3 DEF CallSizes
    <3> QED BY <3>1, <3>2
  <2> QED BY <2>3
<1> QED BY <1>3, <1>5, <1>6, <1>8, <1>9, <1>10, <1>11 DEF Sizes

\* The bytes after a call moves on.
LEMMA CallBytes ==
  ASSUME Shape, Owned, Exact, CallFrame, NEW c \in Calls, call[c].pc # "done",
         NEW pc \in {"written", "sending", "done"}, CallMoves(c, pc),
         pc = "sending" => call'[c].bytes = call[c].bytes,
         \/ /\ chan' = chan /\ pc # "sending" /\ call[c].pc \notin {"sending", "refused"}
            /\ stats'.bytes = stats.bytes
         \/ /\ chan' = chan /\ pc = "sending" /\ call[c].pc = "written"
            /\ stats'.bytes = stats.bytes + call[c].bytes
         \/ /\ chan' = chan /\ pc = "done" /\ call[c].pc = "refused"
            /\ stats'.bytes = stats.bytes - call[c].bytes
         \/ /\ chan' = Append(chan, NewItem(c)) /\ pc = "done" /\ call[c].pc = "written"
            /\ stats'.bytes = stats.bytes + call[c].bytes
         \/ /\ chan' = Append(chan, NewItem(c)) /\ pc = "done" /\ call[c].pc = "sending"
            /\ stats'.bytes = stats.bytes
  PROVE  Exact'
<1> DEFINE n == call[c].bytes
<1>0. n \in 0..2 /\ stats.bytes \in Int
  BY DEF Shape, CallStates, Counters
<1>1. tasks' = tasks /\ worker' = worker /\ \A t \in tasks : t.pc # "start" => t.accounted = t.item.bytes
  BY DEF CallFrame, Exact
<1>2. c \in Counted <=> call[c].pc \in {"sending", "refused"}
  BY DEF Counted
<1>3. /\ \A p \in HeldSizes : p[1] # c
      /\ c \notin Counted => \A p \in Sizes : p[1] # c
      /\ c \in Counted => <<c, n>> \in Sizes
      /\ \A p \in Sizes : p[1] = c => p = <<c, n>>
      /\ chan' = chan => HeldSizes' = HeldSizes
      /\ chan' = Append(chan, NewItem(c)) => HeldSizes' = HeldSizes \cup {<<c, n>>}
      /\ pc = "sending" /\ c \notin Counted => CallSizes' = CallSizes \cup {<<c, n>>}
      /\ pc # "sending" => CallSizes' = CallSizes \ {<<c, n>>}
  BY CallSizesMove
<1> HIDE DEF n
<1>4. <<c, n>> \notin HeldSizes /\ (c \notin Counted => <<c, n>> \notin Sizes)
  <2>1. <<c, n>>[1] = c
    OBVIOUS
  <2> QED BY <1>3, <2>1
<1>5. CASE \/ /\ chan' = chan /\ pc # "sending" /\ call[c].pc \notin {"sending", "refused"}
              /\ stats'.bytes = stats.bytes
           \/ /\ chan' = Append(chan, NewItem(c)) /\ pc = "done" /\ call[c].pc = "sending"
              /\ stats'.bytes = stats.bytes
  <2>1. Sizes' = Sizes
    BY <1>2, <1>3, <1>4, <1>5 DEF Sizes
  <2> QED BY <1>1, <1>5, <2>1, BytesKept
<1>6. CASE /\ stats'.bytes = stats.bytes + n /\ call[c].pc = "written"
           /\ \/ chan' = chan /\ pc = "sending"
              \/ chan' = Append(chan, NewItem(c)) /\ pc = "done"
  <2>1. Sizes' = Sizes \cup {<<c, n>>} /\ c \notin Counted
    BY <1>2, <1>3, <1>4, <1>6 DEF Sizes
  <2>2. /\ Cardinality(Load(Sizes)) \in Nat
        /\ Cardinality(Load(Sizes \cup {<<c, n>>})) = Cardinality(Load(Sizes)) + n
    BY <1>0, <1>3, <2>1, LoadAdds
  <2>3. Cardinality(Load(Sizes')) = Cardinality(Load(Sizes)) + n
    BY <2>1, <2>2
  <2>4. Cardinality(Load(Sizes))' = Cardinality(Load(Sizes'))
    BY DEF Load
  <2> QED BY <1>0, <1>1, <1>6, <2>2, <2>3, <2>4 DEF Exact
<1>7. CASE chan' = chan /\ pc = "done" /\ call[c].pc = "refused" /\ stats'.bytes = stats.bytes - n
  <2>1. Sizes' = Sizes \ {<<c, n>>} /\ c \in Counted
    BY <1>2, <1>3, <1>4, <1>7 DEF Sizes
  <2>2. /\ Cardinality(Load(Sizes)) \in Nat
        /\ Cardinality(Load(Sizes \ {<<c, n>>})) = Cardinality(Load(Sizes)) - n
    BY <1>0, <1>3, <2>1, LoadFalls
  <2>3. Cardinality(Load(Sizes')) = Cardinality(Load(Sizes)) - n
    BY <2>1, <2>2
  <2>4. Cardinality(Load(Sizes))' = Cardinality(Load(Sizes'))
    BY DEF Load
  <2> QED BY <1>0, <1>1, <1>7, <2>2, <2>3, <2>4 DEF Exact
<1> QED BY <1>5, <1>6, <1>7 DEF n

\* The sizes after a step of a task.
LEMMA TaskSizes ==
  ASSUME Shape, Owned, NEW t \in tasks, TaskFrame, Steady,
         \/ tasks' = tasks \ {t}
         \/ \E u : /\ tasks' = (tasks \ {t}) \cup {u} /\ u.item.file = t.item.file
                   /\ u.item.bytes = t.item.bytes
  PROVE  /\ <<t.item.file, t.item.bytes>> \in Sizes
         /\ \A p \in Sizes : p[1] = t.item.file => p = <<t.item.file, t.item.bytes>>
         /\ tasks' = tasks \ {t} => Sizes' = Sizes \ {<<t.item.file, t.item.bytes>>}
         /\ tasks' # tasks \ {t} => Sizes' = Sizes
<1> DEFINE f == t.item.file
           pair == <<f, t.item.bytes>>
           rest == ToSet(chan) \cup {u.item : u \in tasks \ {t}}
                     \cup (IF worker.item = None THEN {} ELSE {worker.item})
           others == {<<i.file, i.bytes>> : i \in rest}
<1>1. Held = rest \cup {t.item}
  BY DEF Held
<1>2. f \in TaskFiles /\ f \in Calls /\ Unique
  BY TaskFilesKept, FilesType DEF FilesKnown, Owned
<1>3. f \notin ChanFiles /\ f \notin HandFiles /\ call[f].pc = "done"
  BY <1>2 DEF Owned, OneOwner
<1>4. ASSUME NEW i \in rest PROVE i.file # f
  <2>1. CASE i \in ToSet(chan)
    BY <1>3, <2>1 DEF ToSet, ChanFiles, Files
  <2>2. CASE i \in {u.item : u \in tasks \ {t}}
    BY <1>2, <2>2 DEF Unique
  <2>3. CASE worker.item # None /\ i = worker.item
    BY <1>3, <2>3 DEF HandFiles
  <2> QED BY <2>1, <2>2, <2>3
<1>5. CallSizes' = CallSizes /\ \A p \in CallSizes : p[1] # f
  <2>1. Counted' = Counted /\ Counted \subseteq Handing /\ Counted \subseteq Calls
    BY SteadyFacts DEF Counted, Handing
  <2>2. \A c \in Counted : call'[c].bytes = call[c].bytes
    BY <2>1 DEF Steady
  <2>3. f \notin Counted
    BY <1>3 DEF Counted
  <2>4. CallSizes' = CallSizes
    BY <2>1, <2>2 DEF CallSizes
  <2> QED BY <2>3, <2>4, SizesAre
<1>6. HeldSizes = others \cup {pair}
  BY <1>1 DEF HeldSizes
<1>7. \A p \in others : p[1] # f
  BY <1>4
<1>8. chan' = chan /\ worker' = worker
  BY DEF TaskFrame
<1>9. CASE tasks' = tasks \ {t}
  <2>1. Held' = rest
    BY <1>8, <1>9 DEF Held
  <2>2. HeldSizes' = others
    BY <2>1 DEF HeldSizes
  <2> HIDE DEF f, pair, rest, others
  <2>3. pair[1] = f
    BY DEF pair
  <2>4. Sizes' = Sizes \ {pair}
    BY <1>5, <1>6, <1>7, <2>2, <2>3 DEF Sizes
  <2> QED BY <1>5, <1>6, <1>7, <1>9, <2>4 DEF Sizes, pair, f
<1>10. ASSUME NEW u, tasks' = (tasks \ {t}) \cup {u}, u.item.file = f, u.item.bytes = t.item.bytes
       PROVE  HeldSizes' = HeldSizes
  <2>1. Held' = rest \cup {u.item}
    <3>1. {v.item : v \in tasks'} = {v.item : v \in tasks \ {t}} \cup {u.item}
      BY <1>10
    <3> QED BY <1>8, <3>1 DEF Held
  <2>2. HeldSizes' = others \cup {<<u.item.file, u.item.bytes>>}
    BY <2>1 DEF HeldSizes
  <2> QED BY <1>6, <1>10, <2>2
<1>11. CASE tasks' # tasks \ {t}
  <2>1. Sizes' = Sizes
    BY <1>5, <1>10, <1>11 DEF Sizes
  <2> HIDE DEF f, rest, others
  <2> QED BY <1>5, <1>6, <1>7, <1>11, <2>1 DEF Sizes, f
<1> QED BY <1>9, <1>11

\* The bytes after a step of a task.
LEMMA TaskBytes ==
  ASSUME Shape, Owned, Slots, Exact, ~stats.swept, NEW t \in tasks, TaskStep(t) \/ (Wake(t) /\ TaskFrame)
  PROVE  Exact'
<1> DEFINE f == t.item.file
           n == t.item.bytes
<1>1. TaskFrame /\ (Settled(t) \/ \E u : Changed(t, u))
  BY TaskEffect
<1>2. t.item \in Items /\ f \in Calls /\ n \in 0..2 /\ stats.bytes \in Int /\ Unique
  BY HeldType DEF Shape, Items, Counters, Owned
<1>3. worker' = worker
  BY <1>1 DEF TaskFrame
<1>4. (IF t.pc = "start" THEN Accounted(t.item) ELSE t.accounted) = n
  <2>1. f \in temp
    BY TaskFilesKept DEF Owned, Backed, HeldFiles
  <2>2. Accounted(t.item) = n
    BY <2>1 DEF Accounted
  <2> QED BY <2>2 DEF Exact
<1>5. Cardinality(Load(Sizes))' = Cardinality(Load(Sizes'))
  BY DEF Load
<1>6. CASE Settled(t)
  <2>1. tasks' = tasks \ {t} /\ Steady /\ stats'.bytes = stats.bytes - n
    BY <1>4, <1>6 DEF Settled
  <2>2. /\ <<f, n>> \in Sizes /\ \A p \in Sizes : p[1] = f => p = <<f, n>>
        /\ Sizes' = Sizes \ {<<f, n>>}
    BY <1>1, <2>1, TaskSizes
  <2> HIDE DEF f, n
  <2>3. /\ Cardinality(Load(Sizes)) \in Nat
        /\ Cardinality(Load(Sizes \ {<<f, n>>})) = Cardinality(Load(Sizes)) - n
    BY <1>2, <2>2, LoadFalls
  <2>4. Cardinality(Load(Sizes))' = Cardinality(Load(Sizes)) - n
    BY <1>5, <2>2, <2>3
  <2> QED BY <1>2, <1>3, <2>1, <2>3, <2>4 DEF Exact
<1>7. ASSUME NEW u, Changed(t, u) PROVE Exact'
  <2>1. /\ tasks' = (tasks \ {t}) \cup {u} /\ u.item.file = f /\ u.item.bytes = n /\ Steady
        /\ u.accounted = n /\ stats'.bytes = stats.bytes /\ u.pc # "start"
    BY <1>4, <1>7 DEF Changed
  <2>2. u \in tasks' /\ t.item.file = u.item.file
    BY <2>1
  <2>3. tasks' # tasks \ {t}
    <3>1. ASSUME tasks' = tasks \ {t} PROVE FALSE
      <4>1. u \in tasks /\ u # t
        BY <2>2, <3>1
      <4> QED BY <1>2, <2>2, <4>1 DEF Unique
    <3> QED BY <3>1
  <2>4. Sizes' = Sizes
    BY <1>1, <2>1, <2>3, TaskSizes
  <2>5. \A v \in tasks' : v.pc # "start" => v.accounted = v.item.bytes
    BY <2>1 DEF Exact
  <2>6. worker'.pc # "aborted" => stats'.bytes = Cardinality(Load(Sizes))'
    BY <1>3, <1>5, <2>1, <2>4 DEF Exact
  <2> QED BY <2>5, <2>6 DEF Exact
<1> QED BY <1>1, <1>6, <1>7

\* A new process counts nothing.
LEMMA CrashExact == ASSUME Shape, Owned, Crashes PROVE Exact'
<1>1. /\ \A c \in Calls : call'[c].pc \in {"done", "idle"}
      /\ chan' = <<>> /\ tasks' = {} /\ worker' = [pc |-> "loop", item |-> None]
      /\ stats' = NoStats
  BY CrashEffect
<1>2. worker'.item = None /\ stats'.bytes = 0
  BY <1>1 DEF NoStats
<1>3. Held' = {} /\ Counted' = {}
  BY <1>1, <1>2 DEF Held, Counted, ToSet
<1>4. Sizes' = {}
  BY <1>3 DEF Sizes, HeldSizes, CallSizes
<1>5. Cardinality(Load(Sizes))' = 0
  <2>1. Cardinality(Load(Sizes))' = Cardinality(Load(Sizes'))
    BY DEF Load
  <2> QED BY <1>4, <2>1, LoadNone
<1> QED BY <1>1, <1>2, <1>5 DEF Exact

\* The bytes stay exact, if the sweep took no queued item's file.
LEMMA ExactStep == Shape /\ Owned /\ Slots /\ Exact /\ ~stats.swept /\ [Next]_vars => Exact'
<1> SUFFICES ASSUME Shape, Owned, Slots, Exact, ~stats.swept, [Next]_vars PROVE Exact'
  OBVIOUS
<1>0. /\ stats \in Counters /\ stats.bytes \in Int /\ Hands
      /\ \A c \in Calls : call[c].bytes \in Int
  <2>1. stats \in Counters /\ call \in [Calls -> CallStates] /\ Hands
    BY DEF Shape, Owned
  <2> QED BY <2>1 DEF Counters, CallStates
<1>1. ASSUME NEW b \in Int
      PROVE  Rises(stats, b).bytes = stats.bytes + b /\ Falls(stats, b).bytes = stats.bytes - b
  BY <1>0, CounterType
<1>2. ASSUME NEW c \in Calls, NEW op \in Ops, NEW hash \in BOOLEAN, NEW bytes \in 0..2,
             Begin(c, op, hash, bytes)
      PROVE  Exact'
  <2>1. /\ CallFrame /\ stats' = stats /\ chan' = chan /\ call[c].pc = "idle"
        /\ CallMoves(c, "done") \/ CallMoves(c, "written")
    BY <1>2, BeginEffect DEF CallEnds
  <2> QED BY <2>1, CallBytes
<1>3. ASSUME NEW c \in Calls, Send(c) PROVE Exact'
  <2>1. /\ CallFrame /\ call[c].pc = "written"
        /\ \/ CallMoves(c, "done") /\ chan' = chan /\ stats' = stats
           \/ /\ CallMoves(c, "sending") /\ call'[c].bytes = call[c].bytes
              /\ stats' = Rises(stats, call[c].bytes) /\ chan' = chan
           \/ /\ CallMoves(c, "done")
              /\ chan' = Append(chan, NewItem(c)) /\ stats' = Rises(stats, call[c].bytes)
    BY <1>3, SendEffect DEF CallEnds
  <2>2. stats' = Rises(stats, call[c].bytes) => stats'.bytes = stats.bytes + call[c].bytes
    BY <1>0, <1>1
  <2>3. CASE CallMoves(c, "done") /\ chan' = chan /\ stats' = stats
    BY <2>1, <2>3, CallBytes
  <2>4. CASE /\ CallMoves(c, "sending") /\ call'[c].bytes = call[c].bytes
             /\ stats' = Rises(stats, call[c].bytes) /\ chan' = chan
    BY <2>1, <2>2, <2>4, CallBytes
  <2>5. CASE /\ CallMoves(c, "done")
             /\ chan' = Append(chan, NewItem(c)) /\ stats' = Rises(stats, call[c].bytes)
    BY <2>1, <2>2, <2>5, CallBytes
  <2> QED BY <2>1, <2>3, <2>4, <2>5
<1>4. ASSUME NEW c \in Calls, SendReady(c) PROVE Exact'
  <2>1. /\ CallFrame /\ call[c].pc = "sending" /\ CallMoves(c, "done") /\ stats' = stats
        /\ chan' = Append(chan, NewItem(c))
    BY <1>4, SendReadyEffect
  <2> QED BY <2>1, CallBytes
<1>5. ASSUME NEW c \in Calls, SendRefused(c) PROVE Exact'
  <2>1. /\ CallFrame /\ call[c].pc = "refused" /\ CallMoves(c, "done") /\ chan' = chan
        /\ stats' = Falls(stats, call[c].bytes)
    BY <1>5, SendRefusedEffect DEF CallEnds
  <2>2. stats'.bytes = stats.bytes - call[c].bytes
    BY <1>0, <1>1, <2>1
  <2> QED BY <2>1, <2>2, CallBytes
<1>6. ASSUME NEW t \in tasks, TaskStep(t) \/ (Wake(t) /\ TaskFrame) PROVE Exact'
  BY <1>6, TaskBytes
<1>7. ASSUME chan' = chan, worker'.item = worker.item, tasks' = tasks, Steady,
             stats'.bytes = stats.bytes, worker.pc = "aborted" => worker'.pc = "aborted"
      PROVE  Exact'
  <2>1. HeldSizes' = HeldSizes
    BY <1>7 DEF HeldSizes, Held
  <2>2. Counted' = Counted /\ Counted \subseteq Handing /\ Counted \subseteq Calls
    BY <1>7, SteadyFacts DEF Counted, Handing
  <2>3. \A c \in Counted : call'[c].bytes = call[c].bytes
    BY <1>7, <2>2 DEF Steady
  <2>4. CallSizes' = CallSizes
    BY <2>2, <2>3 DEF CallSizes
  <2> QED BY <1>7, <2>1, <2>4, BytesKept DEF Sizes
<1>8. CASE UNCHANGED vars \/ ScanList \/ ScanDone \/ SweepOrphans
  <2>1. UNCHANGED <<chan, worker, tasks, call>> /\ stats'.bytes = stats.bytes
    BY <1>8, SweepEffect DEF vars, work, ScanList, ScanDone, SweepOrphans
  <2>2. Steady
    BY <2>1 DEF Steady, Shape
  <2> QED BY <1>7, <2>1, <2>2
<1>9. CASE Idles
  BY <1>0, <1>7, <1>9, IdleEffect
<1>10. ASSUME NEW u \in inline, InlineEnds(u) PROVE Exact'
  BY <1>7, <1>10, InlineEffect
<1>11. CASE Receive
  <2>1. /\ chan # <<>> /\ chan' = Tail(chan) /\ worker'.item = Head(chan) /\ worker.item = None
        /\ worker.pc # "aborted" /\ Head(chan) \in Items /\ chan \in Seq(Items)
        /\ UNCHANGED <<call, tasks, stats>>
    BY <1>11, ReceiveEffect DEF Shape
  <2>2. ToSet(chan) = ToSet(Tail(chan)) \cup {Head(chan)}
    BY <2>1, TailHeld
  <2>3. worker'.item # None
    BY <2>1, ConfigAssumption
  <2>4. Held' = Held
    BY <2>1, <2>2, <2>3 DEF Held
  <2>5. Sizes' = Sizes
    BY <2>1, <2>4 DEF Sizes, HeldSizes, CallSizes, Counted
  <2> QED BY <2>1, <2>5, BytesKept
<1>12. CASE Dispatch
  <2> DEFINE w == worker.item
             n == NewTask(w)
  <2>1. /\ w # None /\ tasks' = tasks \cup {n} /\ n.item = w
        /\ n.pc = "start" /\ worker'.item = None /\ worker.pc # "aborted"
        /\ UNCHANGED <<chan, call, stats>>
    BY <1>12, DispatchEffect
  <2> HIDE DEF n
  <2>2. {t.item : t \in tasks'} = {t.item : t \in tasks} \cup {w}
    BY <2>1
  <2>3. Held' = Held
    BY <2>1, <2>2 DEF Held
  <2>4. Sizes' = Sizes
    BY <2>1, <2>3 DEF Sizes, HeldSizes, CallSizes, Counted
  <2>5. \A t \in tasks' : t \in tasks \/ t.pc = "start"
    BY <2>1
  <2> QED BY <2>1, <2>4, <2>5, BytesKept
<1>13. CASE DrainTimeout
  BY <1>13, TimeoutEffect DEF Exact
<1>14. CASE Crashes
  BY <1>14, CrashExact
<1>15. ASSUME NEW f \in scan, ScanOne(f) PROVE Exact'
  <2>1. /\ f \in Calls /\ phase = "scan"
        /\ \/ UNCHANGED <<chan, stats>>
           \/ chan' = Append(chan, Recovered(f)) /\ stats' = Rises(stats, 1)
        /\ UNCHANGED <<call, worker, tasks>>
    BY <1>15, ScanEffect
  <2>2. CallSizes' = CallSizes
    BY <2>1 DEF CallSizes, Counted
  <2>3. CASE UNCHANGED <<chan, stats>>
    <3>1. HeldSizes' = HeldSizes
      BY <2>1, <2>3 DEF HeldSizes, Held
    <3> QED BY <2>1, <2>2, <2>3, <3>1, BytesKept DEF Sizes
  <2>4. CASE chan' = Append(chan, Recovered(f)) /\ stats' = Rises(stats, 1)
    <3>1. f \notin HeldFiles /\ call[f].pc = "done"
      BY <2>1 DEF Owned, OneOwner, HeldFiles
    <3>2. \A p \in Sizes : p[1] # f
      BY <3>1, SizesType DEF Busy, Counted
    <3>3. HeldSizes' = HeldSizes \cup {<<f, 1>>}
      <4> DEFINE e == Recovered(f)
      <4>1. e \in Items /\ e.file = f /\ e.bytes = 1 /\ chan \in Seq(Items) /\ chan' = Append(chan, e)
        BY <2>1, <2>4, RecoveredType DEF Shape, Recovered
      <4> HIDE DEF e
      <4>2. ToSet(chan') = ToSet(chan) \cup {e}
        BY <4>1, AppendHeld
      <4>3. Held' = Held \cup {e}
        BY <2>1, <4>2 DEF Held
      <4> QED BY <4>1, <4>3 DEF HeldSizes
    <3>4. Sizes' = Sizes \cup {<<f, 1>>}
      BY <2>2, <3>3 DEF Sizes
    <3>5. /\ Cardinality(Load(Sizes)) \in Nat
          /\ Cardinality(Load(Sizes \cup {<<f, 1>>})) = Cardinality(Load(Sizes)) + 1
      <4>1. 1 \in 0..2
        OBVIOUS
      <4> QED BY <2>1, <3>2, <4>1, LoadAdds
    <3>6. Cardinality(Load(Sizes))' = Cardinality(Load(Sizes'))
      BY DEF Load
    <3>7. Cardinality(Load(Sizes))' = Cardinality(Load(Sizes)) + 1
      BY <3>4, <3>5, <3>6
    <3>8. stats'.bytes = stats.bytes + 1
      BY <1>1, <2>4
    <3>9. worker'.pc # "aborted" => stats'.bytes = Cardinality(Load(Sizes))'
      BY <2>1, <3>7, <3>8 DEF Exact
    <3> QED BY <2>1, <3>9 DEF Exact
  <2> QED BY <2>1, <2>3, <2>4
<1> QED BY <1>2, <1>3, <1>4, <1>5, <1>6, <1>8, <1>9, <1>10, <1>11, <1>12, <1>13, <1>14, <1>15,
           StepKinds

\* What the sweep took stays noted until the process ends.
LEMMA SweptStays ==
  ASSUME Shape, Owned, Slots, [Next]_vars, ~Crashes, stats.swept
  PROVE  stats'.swept
<1>1. CASE UNCHANGED vars \/ ScanList \/ ScanDone
  BY <1>1 DEF vars, work, ScanList, ScanDone
<1>2. CASE SweepOrphans
  BY <1>2, SweepEffect
<1>3. CASE Idles
  BY <1>3, IdleEffect DEF Owned
<1>4. ASSUME NEW c \in Calls, NEW op \in Ops, NEW hash \in BOOLEAN, NEW bytes \in 0..2,
             Begin(c, op, hash, bytes)
      PROVE  stats'.swept
  BY <1>4, BeginEffect
<1>5. ASSUME NEW c \in Calls, Send(c) \/ SendReady(c) \/ SendRefused(c) PROVE stats'.swept
  BY <1>5, SendEffect, SendReadyEffect, SendRefusedEffect DEF CallFrame
<1>6. ASSUME NEW u \in inline, InlineEnds(u) PROVE stats'.swept
  BY <1>6, InlineEffect
<1>7. CASE Receive \/ Dispatch \/ DrainTimeout
  BY <1>7 DEF Receive, Dispatch, DrainTimeout
<1>8. ASSUME NEW t \in tasks, TaskStep(t) \/ (Wake(t) /\ TaskFrame) PROVE stats'.swept
  BY <1>8, TaskEffect DEF Settled, Changed
<1>9. ASSUME NEW f \in scan, ScanOne(f) PROVE stats'.swept
  <2>1. stats' \in {stats, Rises(stats, 1)} /\ stats \in Counters /\ 1 \in Int
    BY <1>9, ScanEffect DEF Shape
  <2>2. Rises(stats, 1).swept = stats.swept
    BY <2>1, CounterType
  <2> QED BY <2>1, <2>2
<1> QED BY <1>1, <1>2, <1>3, <1>4, <1>5, <1>6, <1>7, <1>8, <1>9, StepKinds

\* The bytes stay exact until the sweep takes a queued item's file.
LEMMA BytesStep == Shape /\ Owned /\ Slots /\ Bytes /\ [Next]_vars => Bytes'
<1> SUFFICES ASSUME Shape, Owned, Slots, Bytes, [Next]_vars, ~stats'.swept PROVE Exact'
  BY DEF Bytes
<1>1. CASE Crashes
  BY <1>1, CrashExact
<1>2. CASE ~Crashes
  BY <1>2, SweptStays, ExactStep DEF Bytes
<1> QED BY <1>1, <1>2

-----------------------------------------------------------------------------
(* Durability.                                                             *)

\* Whatever removes or adds a temp or a sidecar also ends or begins the promise, or
\* touches a file that is no pair.
LEMMA PromisedStep == Shape /\ Owned /\ Slots /\ Promised /\ [Next]_vars => Promised'
<1> SUFFICES ASSUME Shape, Owned, Slots, Promised, [Next]_vars PROVE Promised'
  OBVIOUS
<1>1. ASSUME owed' = owed, temp' \cap meta' = temp \cap meta PROVE Promised'
  BY <1>1 DEF Promised
<1>2. ASSUME NEW f, RemoveFiles(f) PROVE Promised'
  BY <1>2 DEF Promised, RemoveFiles
<1>4. CASE UNCHANGED vars
  BY <1>1, <1>4 DEF vars, disk
<1>5. CASE Idles
  BY <1>1, <1>5, IdleEffect DEF Owned
<1>6. ASSUME NEW c \in Calls, call[c].pc # "done", CallEnds(c) PROVE Promised'
  <2>1. c \notin meta
    BY <1>6, CallerFacts
  <2>2. temp' \cup {c} = temp \cup {c} /\ meta' = meta /\ owed' = owed
    BY <1>6 DEF CallEnds
  <2> QED BY <1>1, <2>1, <2>2
<1>7. ASSUME NEW c \in Calls, NEW op \in Ops, NEW hash \in BOOLEAN, NEW bytes \in 0..2,
             Begin(c, op, hash, bytes)
      PROVE  Promised'
  <2>1. /\ UNCHANGED <<meta, owed>> /\ call[c].pc # "done"
        /\ CallEnds(c) \/ temp' = temp \cup {c}
    BY <1>7, BeginEffect
  <2>2. c \notin meta
    BY <2>1, CallerFacts
  <2> QED BY <1>1, <1>6, <2>1, <2>2
<1>8. ASSUME NEW c \in Calls, Send(c) PROVE Promised'
  <2>1. /\ call[c].pc = "written"
        /\ \/ CallEnds(c)
           \/ UNCHANGED <<temp, meta, owed>>
           \/ temp' = temp /\ meta' = meta \cup {c} /\ owed' = owed \cup {c}
    BY <1>8, SendEffect
  <2>2. c \in temp
    BY <2>1, CallerFacts
  <2>3. CASE temp' = temp /\ meta' = meta \cup {c} /\ owed' = owed \cup {c}
    BY <2>2, <2>3 DEF Promised
  <2> QED BY <1>1, <1>6, <2>1, <2>3
<1>9. ASSUME NEW c \in Calls, SendReady(c) PROVE Promised'
  BY <1>1, <1>9, SendReadyEffect
<1>10. ASSUME NEW c \in Calls, SendRefused(c) PROVE Promised'
  BY <1>6, <1>10, SendRefusedEffect
<1>11. ASSUME NEW u \in inline, InlineEnds(u) PROVE Promised'
  <2>1. u.file \notin meta
    BY <1>11 DEF Owned, OnDisk, InlineFiles
  <2> QED BY <1>1, <1>11, <2>1, InlineEffect
<1>12. CASE Receive \/ Dispatch \/ DrainTimeout
  BY <1>1, <1>12, ReceiveEffect, DispatchEffect, TimeoutEffect
<1>13. ASSUME NEW t \in tasks, TaskStep(t) \/ (Wake(t) /\ TaskFrame) PROVE Promised'
  <2>1. Settled(t) \/ \E u : Changed(t, u)
    BY <1>13, TaskEffect
  <2>2. CASE Settled(t)
    BY <1>2, <2>2 DEF Settled
  <2>3. ASSUME NEW u, Changed(t, u) PROVE Promised'
    BY <1>1, <2>3 DEF Changed, disk
  <2> QED BY <2>1, <2>2, <2>3
<1>14. CASE Crashes
  BY <1>14, CrashEffect DEF Promised
<1>15. CASE ScanList \/ ScanDone
  BY <1>1, <1>15 DEF ScanList, ScanDone, disk
<1>16. ASSUME NEW f \in scan, ScanOne(f) PROVE Promised'
  BY <1>1, <1>2, <1>16, ScanEffect
<1>17. CASE SweepOrphans
  BY <1>17 DEF SweepOrphans, Promised
<1> QED BY <1>4, <1>5, <1>7, <1>8, <1>9, <1>10, <1>11, <1>12, <1>13, <1>14, <1>15, <1>16, <1>17,
           StepKinds

-----------------------------------------------------------------------------
(* The in-flight guard.                                                    *)

\* Who may hold the guard: an item in the channel, in the worker's hands or in a
\* task, or a call on its way to the channel.
HandMarks == {f \in HandFiles : worker.item.mark}
TaskMarks == {t.item.file : t \in {u \in tasks : u.item.mark}}
CallMarks == {c \in Handing : call[c].hash}
AllMarks == Marks(chan) \cup HandMarks \cup TaskMarks \cup CallMarks

\* The holders GuardHasHolder speaks of.
Holders == {item.file : item \in {i \in Held : i.mark}} \cup {c \in Handing : call[c].hash}

\* They are the same.
LEMMA HoldersAre == Shape => Holders = AllMarks
<1> SUFFICES ASSUME Shape PROVE Holders = AllMarks
  OBVIOUS
<1>1. \A f : f \in Marks(chan) <=> \E i \in ToSet(chan) : i.mark /\ f = i.file
  BY DEF Marks, ToSet
<1>2. \A f : f \in TaskMarks <=> \E i \in {t.item : t \in tasks} : i.mark /\ f = i.file
  BY DEF TaskMarks
<1>3. \A f : f \in HandMarks
               <=> \E i \in (IF worker.item = None THEN {} ELSE {worker.item}) : i.mark /\ f = i.file
  BY DEF HandMarks, HandFiles
<1>4. \A f : f \in Holders <=> f \in CallMarks \/ \E i \in Held : i.mark /\ f = i.file
  BY DEF Holders, CallMarks
<1> QED BY <1>1, <1>2, <1>3, <1>4 DEF Held, AllMarks

\* Holders are files of items or calls on their way.
LEMMA MarksType ==
  /\ Marks(chan) \subseteq ChanFiles /\ HandMarks \subseteq HandFiles
  /\ TaskMarks \subseteq TaskFiles /\ CallMarks \subseteq Handing
BY DEF Marks, ChanFiles, Files, HandMarks, TaskMarks, TaskFiles, CallMarks

\* The guard in terms of them.
Marked == /\ \A f, g \in AllMarks : f = g
          /\ marked <=> AllMarks # {}

\* A guard that stays, or goes with its holder.
LEMMA MarkedStays ==
  ASSUME Marked, marked' = marked, AllMarks' = AllMarks
  PROVE  Marked'
BY DEF Marked

\* A holder that ends takes the guard with it.
LEMMA MarkedGoes ==
  ASSUME Marked, NEW f, NEW b \in BOOLEAN, marked \in BOOLEAN,
         marked' = (marked /\ ~b), b <=> f \in AllMarks, AllMarks' = AllMarks \ {f}
  PROVE  Marked'
BY DEF Marked

\* The guard after a step of a task.
LEMMA TaskMarked ==
  ASSUME Shape, Owned, Slots, Marked, NEW t \in tasks, TaskStep(t) \/ (Wake(t) /\ TaskFrame)
  PROVE  Marked'
<1> DEFINE f == t.item.file
<1>1. TaskFrame /\ (Settled(t) \/ \E u : Changed(t, u))
  BY TaskEffect
<1>2. Unique /\ t.item.mark \in BOOLEAN /\ marked \in BOOLEAN /\ call \in [Calls -> CallStates]
  BY HeldType DEF Owned, Shape, Items
<1>3. f \in TaskFiles /\ f \in Calls
  BY <1>2, TaskFilesKept, FilesType DEF FilesKnown
<1>4. f \notin ChanFiles /\ f \notin HandFiles /\ call[f].pc = "done"
  BY <1>3 DEF Owned, OneOwner
<1>5. f \notin Marks(chan) /\ f \notin HandMarks /\ f \notin CallMarks
  BY <1>4 DEF HandMarks, CallMarks, Handing, Marks, ChanFiles, Files
<1>6. /\ chan' = chan /\ HandMarks' = HandMarks
  BY <1>1 DEF TaskFrame, HandMarks, HandFiles
<1>7. Steady => CallMarks' = CallMarks
  BY SteadyFacts DEF Steady, CallMarks, Handing
<1>8. t.item.mark <=> f \in TaskMarks
  BY <1>2 DEF Unique, TaskMarks
<1>9. CASE Settled(t)
  <2>1. tasks' = tasks \ {t} /\ Steady /\ marked' = (marked /\ ~t.item.mark)
    BY <1>9 DEF Settled
  <2>2. TaskMarks' = TaskMarks \ {f}
    BY <1>2, <2>1 DEF Unique, TaskMarks
  <2> HIDE DEF f
  <2>3. AllMarks' = AllMarks \ {f} /\ (t.item.mark <=> f \in AllMarks)
    BY <1>5, <1>6, <1>7, <1>8, <2>1, <2>2 DEF AllMarks
  <2> QED BY <1>2, <2>1, <2>3, MarkedGoes
<1>10. ASSUME NEW u, Changed(t, u) PROVE Marked'
  <2>1. /\ tasks' = (tasks \ {t}) \cup {u} /\ u.item.file = f /\ u.item.mark = t.item.mark
        /\ Steady /\ marked' = marked
    BY <1>10 DEF Changed
  <2>2. TaskMarks' = TaskMarks
    BY <1>2, <2>1 DEF Unique, TaskMarks
  <2> QED BY <1>6, <1>7, <2>1, <2>2, MarkedStays DEF AllMarks
<1> QED BY <1>1, <1>9, <1>10

\* The guard after a call moves on.
LEMMA CallMarked ==
  ASSUME Shape, Owned, Marked, CallFrame, NEW c \in Calls, call[c].pc # "done",
         NEW pc \in {"written", "sending", "done"}, CallMoves(c, pc),
         \/ /\ chan' = chan /\ pc = "done" /\ c \in Handing /\ marked' = (marked /\ ~call[c].hash)
         \/ /\ chan' = chan /\ pc = "done" /\ c \notin Handing /\ marked' = marked
         \/ /\ chan' = chan /\ pc # "done" /\ c \in Handing /\ call'[c].hash = call[c].hash
            /\ marked' = marked
         \/ /\ chan' = chan /\ pc # "done" /\ c \notin Handing /\ ~(call'[c].hash /\ marked)
            /\ marked' = (marked \/ call'[c].hash)
         \/ chan' = Append(chan, NewItem(c)) /\ pc = "done" /\ c \in Handing /\ marked' = marked
  PROVE  Marked'
<1>0. /\ HandMarks' = HandMarks /\ TaskMarks' = TaskMarks /\ marked \in BOOLEAN
      /\ call[c].hash \in BOOLEAN /\ call'[c].hash \in BOOLEAN
  <2>1. /\ worker' = worker /\ tasks' = tasks /\ marked \in BOOLEAN
        /\ call[c] \in CallStates /\ call'[c] \in CallStates
    BY CallFrameFiles DEF Shape, CallMoves
  <2> QED BY <2>1 DEF HandMarks, HandFiles, TaskMarks, CallStates
<1>1. c \notin Marks(chan) /\ c \notin HandMarks /\ c \notin TaskMarks
  BY CallerFacts, MarksType
<1>2. call'[c].pc = pc /\ \A d \in Calls : d # c => call'[d] = call[d]
  BY DEF CallMoves
<1>3. /\ pc = "done" => CallMarks' = CallMarks \ {c}
      /\ pc # "done" /\ call'[c].hash => CallMarks' = CallMarks \cup {c}
      /\ pc # "done" /\ ~call'[c].hash => CallMarks' = CallMarks \ {c}
      /\ c \in CallMarks <=> c \in Handing /\ call[c].hash
  BY <1>2 DEF CallMarks, Handing
<1>4. CASE chan' = chan /\ pc = "done" /\ c \in Handing /\ marked' = (marked /\ ~call[c].hash)
  <2>1. AllMarks' = AllMarks \ {c} /\ (call[c].hash <=> c \in AllMarks)
    BY <1>0, <1>1, <1>3, <1>4 DEF AllMarks
  <2> QED BY <1>0, <1>4, <2>1, MarkedGoes
<1>5. CASE \/ /\ chan' = chan /\ pc = "done" /\ c \notin Handing /\ marked' = marked
           \/ /\ chan' = chan /\ pc # "done" /\ c \in Handing /\ call'[c].hash = call[c].hash
              /\ marked' = marked
  <2>1. AllMarks' = AllMarks
    BY <1>0, <1>1, <1>3, <1>5 DEF AllMarks
  <2> QED BY <1>5, <2>1, MarkedStays
<1>6. CASE /\ chan' = chan /\ pc # "done" /\ c \notin Handing /\ ~(call'[c].hash /\ marked)
           /\ marked' = (marked \/ call'[c].hash)
  <2>1. CASE call'[c].hash
    <3>1. AllMarks' = AllMarks \cup {c}
      BY <1>0, <1>3, <1>6, <2>1 DEF AllMarks
    <3>2. ~marked /\ marked'
      BY <1>6, <2>1
    <3> QED BY <3>1, <3>2 DEF Marked
  <2>2. CASE ~call'[c].hash
    <3>1. AllMarks' = AllMarks
      BY <1>0, <1>1, <1>3, <1>6, <2>2 DEF AllMarks
    <3>2. marked' = marked
      BY <1>0, <1>6, <2>2
    <3> QED BY <3>1, <3>2, MarkedStays
  <2> QED BY <2>1, <2>2
<1>7. CASE chan' = Append(chan, NewItem(c)) /\ pc = "done" /\ c \in Handing /\ marked' = marked
  <2>1. Marks(chan') = Marks(chan) \cup {f \in {c} : call[c].hash}
    <3> DEFINE e == NewItem(c)
    <3>1. e \in Items /\ e.file = c /\ chan \in Seq(Items) /\ e.mark = call[c].hash
      BY NewItemType DEF Shape
    <3> HIDE DEF e
    <3>2. Marks(Append(chan, e)) = Marks(chan) \cup {f \in {c} : call[c].hash}
      BY <3>1, AppendFiles
    <3> QED BY <1>7, <3>2 DEF e
  <2>2. AllMarks' = AllMarks
    BY <1>0, <1>3, <1>7, <2>1 DEF AllMarks
  <2> QED BY <1>7, <2>2, MarkedStays
<1> QED BY <1>4, <1>5, <1>6, <1>7

\* Every step keeps the one holder of the guard.
LEMMA MarkedStep == Shape /\ Owned /\ Slots /\ Marked /\ [Next]_vars => Marked'
<1> SUFFICES ASSUME Shape, Owned, Slots, Marked, [Next]_vars PROVE Marked'
  OBVIOUS
<1>0. /\ Unique /\ Hands /\ call \in [Calls -> CallStates] /\ marked \in BOOLEAN
      /\ chan \in Seq(Items)
  BY DEF Owned, Shape
<1>1. ASSUME NEW c \in Calls, NEW op \in Ops, NEW hash \in BOOLEAN, NEW bytes \in 0..2,
             Begin(c, op, hash, bytes)
      PROVE  Marked'
  <2>1. /\ CallFrame /\ chan' = chan /\ call[c].pc = "idle"
        /\ \/ CallMoves(c, "done") /\ marked' = marked
           \/ /\ CallMoves(c, "written") /\ call'[c].hash = hash
              /\ ~(hash /\ marked) /\ marked' = (marked \/ hash)
    BY <1>1, BeginEffect DEF CallEnds
  <2>2. c \notin Handing
    BY <2>1 DEF Handing
  <2> QED BY <2>1, <2>2, CallMarked
<1>2. ASSUME NEW c \in Calls, Send(c) PROVE Marked'
  <2>1. /\ CallFrame /\ call[c].pc = "written"
        /\ \/ CallMoves(c, "done") /\ chan' = chan /\ marked' = (marked /\ ~call[c].hash)
           \/ /\ CallMoves(c, "sending") /\ chan' = chan /\ call'[c].hash = call[c].hash
              /\ marked' = marked
           \/ CallMoves(c, "done") /\ chan' = Append(chan, NewItem(c)) /\ marked' = marked
    BY <1>2, SendEffect DEF CallEnds
  <2>2. c \in Handing
    BY <2>1 DEF Handing
  <2> QED BY <2>1, <2>2, CallMarked
<1>3. ASSUME NEW c \in Calls, SendReady(c) PROVE Marked'
  <2>1. /\ CallFrame /\ call[c].pc = "sending" /\ CallMoves(c, "done") /\ marked' = marked
        /\ chan' = Append(chan, NewItem(c))
    BY <1>3, SendReadyEffect
  <2>2. c \in Handing
    BY <2>1 DEF Handing
  <2> QED BY <2>1, <2>2, CallMarked
<1>4. ASSUME NEW c \in Calls, SendRefused(c) PROVE Marked'
  <2>1. /\ CallFrame /\ call[c].pc = "refused" /\ CallMoves(c, "done") /\ chan' = chan
        /\ marked' = (marked /\ ~call[c].hash)
    BY <1>4, SendRefusedEffect DEF CallEnds
  <2>2. c \in Handing
    BY <2>1 DEF Handing
  <2> QED BY <2>1, <2>2, CallMarked
<1>5. ASSUME NEW t \in tasks, TaskStep(t) \/ (Wake(t) /\ TaskFrame) PROVE Marked'
  BY <1>5, TaskMarked
<1>6. Steady => CallMarks' = CallMarks
  BY SteadyFacts DEF Steady, CallMarks, Handing
<1>7. ASSUME chan' = chan, worker'.item = worker.item, tasks' = tasks, CallMarks' = CallMarks,
             marked' = marked
      PROVE  Marked'
  <2>1. AllMarks' = AllMarks
    BY <1>7 DEF AllMarks, HandMarks, HandFiles, TaskMarks
  <2> QED BY <1>7, <2>1, MarkedStays
<1>8. CASE UNCHANGED vars \/ ScanList \/ ScanDone \/ SweepOrphans
  <2>1. UNCHANGED <<chan, worker, tasks, call, marked>>
    BY <1>8 DEF vars, work, ScanList, ScanDone, SweepOrphans
  <2>2. CallMarks' = CallMarks
    BY <2>1 DEF CallMarks, Handing
  <2> QED BY <1>7, <2>1, <2>2
<1>9. CASE Idles
  BY <1>0, <1>6, <1>7, <1>9, IdleEffect
<1>10. ASSUME NEW u \in inline, InlineEnds(u) PROVE Marked'
  BY <1>6, <1>7, <1>10, InlineEffect
<1>11. CASE Receive
  <2> DEFINE h == Head(chan)
  <2>1. /\ chan # <<>> /\ chan' = Tail(chan) /\ worker'.item = h /\ worker.item = None
        /\ h \in Items /\ h # None /\ UNCHANGED <<call, tasks, marked>>
    BY <1>11, ReceiveEffect, ConfigAssumption
  <2>2. Marks(chan') = Marks(chan) \ {h.file} /\ (h.mark <=> h.file \in Marks(chan))
    BY <1>0, <2>1, TailFiles DEF Unique
  <2> HIDE DEF h
  <2>3. /\ HandMarks' = {f \in {h.file} : h.mark} /\ HandMarks = {} /\ TaskMarks' = TaskMarks
        /\ CallMarks' = CallMarks
    BY <2>1 DEF HandMarks, HandFiles, TaskMarks, CallMarks, Handing
  <2>4. AllMarks' = AllMarks
    BY <2>2, <2>3 DEF AllMarks
  <2> QED BY <2>1, <2>4, MarkedStays
<1>12. CASE Dispatch
  <2> DEFINE w == worker.item
             n == NewTask(w)
  <2>1. /\ w \in Items /\ w # None /\ tasks' = tasks \cup {n} /\ n.item = w
        /\ worker'.item = None /\ UNCHANGED <<chan, call, marked>>
    BY <1>12, DispatchEffect
  <2> HIDE DEF w, n
  <2>2. /\ HandMarks = {f \in {w.file} : w.mark} /\ HandMarks' = {} /\ CallMarks' = CallMarks
    BY <2>1 DEF HandMarks, HandFiles, CallMarks, Handing, w
  <2>3. TaskMarks' = TaskMarks \cup {f \in {w.file} : w.mark}
    BY <2>1 DEF TaskMarks
  <2>4. AllMarks' = AllMarks
    BY <2>1, <2>2, <2>3 DEF AllMarks
  <2> QED BY <2>1, <2>4, MarkedStays
<1>13. CASE DrainTimeout
  <2>1. /\ Steady /\ chan' = <<>> /\ tasks' = {} /\ worker'.item = None
        /\ marked' = (marked /\ \A item \in Held : ~item.mark)
    BY <1>13, TimeoutEffect
  <2>2. CallMarks' = CallMarks /\ Marks(chan') = {} /\ HandMarks' = {} /\ TaskMarks' = {}
    BY <1>6, <2>1, EmptyFiles DEF HandMarks, HandFiles, TaskMarks
  <2>3. AllMarks' = CallMarks
    BY <2>2 DEF AllMarks
  <2>4. AllMarks = CallMarks \cup {i.file : i \in {j \in Held : j.mark}}
    BY HoldersAre DEF Holders, CallMarks
  <2>5. \A f \in CallMarks, i \in Held : i.mark => i.file \notin CallMarks
    <3>1. ASSUME NEW i \in Held, i.file \in Handing PROVE FALSE
      <4>1. i.file \in HeldFiles /\ i.file \in Calls
        BY HeldFilesAre, FilesType DEF FilesKnown
      <4>2. call[i.file].pc = "done"
        BY <4>1 DEF Owned, OneOwner, HeldFiles
      <4> QED BY <3>1, <4>2 DEF Handing
    <3> QED BY <3>1 DEF CallMarks
  <2>6. CASE \E i \in Held : i.mark
    <3>1. ~marked' /\ AllMarks' = {}
      BY <2>1, <2>3, <2>4, <2>5, <2>6 DEF Marked
    <3> QED BY <3>1 DEF Marked
  <2>7. CASE \A i \in Held : ~i.mark
    <3>1. AllMarks' = AllMarks /\ marked' = marked
      BY <1>0, <2>1, <2>3, <2>4, <2>7
    <3> QED BY <3>1, MarkedStays
  <2> QED BY <2>6, <2>7
<1>14. CASE Crashes
  <2>1. /\ \A c \in Calls : call'[c].pc \in {"done", "idle"}
        /\ chan' = <<>> /\ tasks' = {} /\ worker' = [pc |-> "loop", item |-> None]
        /\ marked' = FALSE
    BY <1>14, CrashEffect
  <2>2. worker'.item = None
    BY <2>1
  <2>3. CallMarks' = {} /\ Marks(chan') = {} /\ HandMarks' = {} /\ TaskMarks' = {}
    BY <2>1, <2>2, EmptyFiles DEF HandMarks, HandFiles, TaskMarks, CallMarks, Handing
  <2>4. AllMarks' = {}
    BY <2>3 DEF AllMarks
  <2> QED BY <2>1, <2>4 DEF Marked
<1>15. ASSUME NEW f \in scan, ScanOne(f) PROVE Marked'
  <2>1. /\ f \in Calls /\ (chan' = chan \/ chan' = Append(chan, Recovered(f)))
        /\ UNCHANGED <<call, worker, tasks, marked>>
    BY <1>15, ScanEffect
  <2>2. Marks(chan') = Marks(chan)
    <3> DEFINE e == Recovered(f)
    <3>1. e \in Items /\ ~e.mark
      BY <2>1, RecoveredType
    <3> HIDE DEF e
    <3>2. Marks(Append(chan, e)) = Marks(chan) \cup {g \in {e.file} : e.mark}
      BY <1>0, <3>1, AppendFiles
    <3> QED BY <2>1, <3>1, <3>2 DEF e
  <2>3. AllMarks' = AllMarks
    BY <2>1, <2>2 DEF AllMarks, HandMarks, HandFiles, TaskMarks, CallMarks, Handing
  <2> QED BY <2>1, <2>3, MarkedStays
<1> QED BY <1>1, <1>2, <1>3, <1>4, <1>5, <1>8, <1>9, <1>10, <1>11, <1>12, <1>13, <1>14, <1>15,
           StepKinds

-----------------------------------------------------------------------------
(* Nothing is left behind.                                                 *)

\* A step after which no more is on disk, and nothing has lost its owner.
LEMMA NoLeakKept ==
  ASSUME NoLeak, crashes' = crashes,
         phase # "open" => temp' \subseteq temp /\ meta' \subseteq meta,
         worker.pc = "aborted" => worker'.pc = "aborted",
         phase' # "open" => phase # "open",
         \A f : f \in (temp' \ torn') \cup meta' /\ worker.pc # "aborted" /\ worker'.pc # "aborted"
                   => \/ f \in HeldFiles' \cup Handing' \cup TempInlines'
                      \/ /\ f \in (temp \ torn) \cup meta
                         /\ f \in HeldFiles \cup Handing \cup TempInlines
                               => f \in HeldFiles' \cup Handing' \cup TempInlines'
  PROVE  NoLeak'
<1> SUFFICES ASSUME crashes = 0 PROVE NoLeak'
  BY DEF NoLeak
<1>1. phase' # "open" => temp' = {} /\ meta' = {}
  BY DEF NoLeak
<1>2. worker'.pc # "aborted" =>
        (temp' \ torn') \cup meta' \subseteq HeldFiles' \cup Handing' \cup TempInlines'
  BY DEF NoLeak
<1> QED BY <1>1, <1>2 DEF NoLeak

\* The owners a call passes its file to.
LEMMA CallNoLeak ==
  ASSUME Shape, Owned, NoLeak, CallFrame, NEW c \in Calls, call[c].pc # "done", phase = "open",
         \/ CallEnds(c)
         \/ /\ CallMoves(c, "written") \/ CallMoves(c, "sending")
            /\ temp' \subseteq temp \cup {c} /\ meta' = meta /\ chan' = chan /\ inline' = inline
         \/ /\ CallMoves(c, "done") /\ chan' = Append(chan, NewItem(c)) /\ temp' = temp
            /\ meta' \subseteq meta \cup {c} /\ inline' = inline
  PROVE  NoLeak'
<1>0. /\ HandFiles' = HandFiles /\ TaskFiles' = TaskFiles /\ worker' = worker /\ phase' = phase
      /\ crashes' = crashes /\ torn \subseteq torn'
  BY CallFrameFiles DEF CallFrame
<1>1. c \notin meta
  BY CallerFacts
<1>2. ASSUME NEW pc, CallMoves(c, pc)
      PROVE  /\ Handing \ {c} \subseteq Handing'
             /\ pc \in {"written", "sending"} => c \in Handing'
  BY <1>2 DEF CallMoves, Handing
<1>3. CASE CallEnds(c)
  <2>1. /\ CallMoves(c, "done") /\ temp' \cup {c} = temp \cup {c} /\ meta' = meta /\ chan' = chan
    BY <1>3 DEF CallEnds
  <2>2. HeldFiles' = HeldFiles
    BY <1>0, <2>1 DEF HeldFiles, ChanFiles
  <2>3. TempInlines \subseteq TempInlines' /\ (c \in temp' => c \in TempInlines' \cup torn')
    BY <1>3 DEF CallEnds, TempInlines
  <2>4. Handing \ {c} \subseteq Handing'
    BY <1>2, <2>1
  <2> QED BY <1>0, <1>1, <2>1, <2>2, <2>3, <2>4, NoLeakKept
<1>4. CASE /\ CallMoves(c, "written") \/ CallMoves(c, "sending")
           /\ temp' \subseteq temp \cup {c} /\ meta' = meta /\ chan' = chan /\ inline' = inline
  <2>1. HeldFiles' = HeldFiles /\ TempInlines' = TempInlines
    BY <1>0, <1>4 DEF HeldFiles, ChanFiles, TempInlines
  <2>2. Handing \ {c} \subseteq Handing' /\ c \in Handing'
    BY <1>2, <1>4
  <2> QED BY <1>0, <1>4, <2>1, <2>2, NoLeakKept
<1>5. CASE /\ CallMoves(c, "done") /\ chan' = Append(chan, NewItem(c)) /\ temp' = temp
           /\ meta' \subseteq meta \cup {c} /\ inline' = inline
  <2>1. ChanFiles' = ChanFiles \cup {c}
    <3> DEFINE e == NewItem(c)
    <3>1. e \in Items /\ e.file = c /\ chan \in Seq(Items) /\ chan' = Append(chan, e)
      BY <1>5, NewItemType DEF Shape
    <3> HIDE DEF e
    <3> QED BY <3>1, AppendFiles DEF ChanFiles
  <2>2. HeldFiles' = HeldFiles \cup {c} /\ TempInlines' = TempInlines
    BY <1>0, <1>5, <2>1 DEF HeldFiles, TempInlines
  <2>3. Handing \ {c} \subseteq Handing'
    BY <1>2, <1>5
  <2> QED BY <1>0, <1>5, <2>2, <2>3, NoLeakKept
<1> QED BY <1>3, <1>4, <1>5

\* Every step leaves an owner for what it leaves on disk.
LEMMA NoLeakStep == Shape /\ Owned /\ Slots /\ NoLeak /\ [Next]_vars => NoLeak'
<1> SUFFICES ASSUME Shape, Owned, Slots, NoLeak, [Next]_vars PROVE NoLeak'
  OBVIOUS
<1>0. Unique /\ Hands /\ chan \in Seq(Items) /\ crashes \in Nat
  BY DEF Owned, Shape
<1>1. ASSUME NEW c \in Calls, NEW op \in Ops, NEW hash \in BOOLEAN, NEW bytes \in 0..2,
             Begin(c, op, hash, bytes)
      PROVE  NoLeak'
  BY <1>1, BeginEffect, CallNoLeak
<1>2. ASSUME NEW c \in Calls, Send(c) \/ SendReady(c) \/ SendRefused(c) PROVE NoLeak'
  <2>1. call[c].pc \in {"written", "sending", "refused"}
    BY <1>2 DEF Send, SendReady, SendRefused
  <2>2. phase = "open" /\ call[c].pc # "done"
    BY <2>1, CallerFacts
  <2> QED BY <1>2, <2>2, SendEffect, SendReadyEffect, SendRefusedEffect, CallNoLeak
<1>3. ASSUME crashes' = crashes, phase' = phase, temp' \subseteq temp, meta' \subseteq meta,
             torn \cap temp' \subseteq torn',
             worker.pc = "aborted" => worker'.pc = "aborted",
             \A f : f \in (temp' \ torn') \cup meta' /\ worker'.pc # "aborted"
                       /\ f \in HeldFiles \cup Handing \cup TempInlines
                            => f \in HeldFiles' \cup Handing' \cup TempInlines'
      PROVE  NoLeak'
  BY <1>3, NoLeakKept
<1>4. CASE Idles
  <2>1. /\ UNCHANGED <<phase, crashes, temp, meta, torn, chan, tasks, inline>> /\ Steady
        /\ worker'.item = worker.item /\ (worker'.pc = "aborted" <=> worker.pc = "aborted")
    BY <1>0, <1>4, IdleEffect
  <2>2. HeldFiles' = HeldFiles /\ TempInlines' = TempInlines /\ Handing' = Handing
    BY <2>1, SteadyFacts DEF HeldFiles, ChanFiles, HandFiles, TaskFiles, TempInlines
  <2> QED BY <1>3, <2>1, <2>2
<1>5. ASSUME NEW u \in inline, InlineEnds(u) PROVE NoLeak'
  <2>1. /\ Steady /\ inline' = inline \ {u} /\ temp' = (IF u.temp THEN temp \ {u.file} ELSE temp)
        /\ UNCHANGED <<phase, crashes, meta, torn, chan, worker, tasks>>
    BY <1>5, InlineEffect
  <2>2. HeldFiles' = HeldFiles /\ Handing' = Handing
    BY <2>1, SteadyFacts DEF HeldFiles, ChanFiles, HandFiles, TaskFiles
  <2>3. u.file \notin meta
    BY <1>5 DEF Owned, OnDisk, InlineFiles
  <2>4. /\ u.temp => TempInlines \ {u.file} \subseteq TempInlines'
        /\ ~u.temp => TempInlines \subseteq TempInlines'
    BY <2>1 DEF TempInlines
  <2> QED BY <1>3, <2>1, <2>2, <2>3, <2>4
<1>6. CASE Receive
  <2> DEFINE h == Head(chan)
  <2>1. /\ chan # <<>> /\ chan' = Tail(chan) /\ worker'.item = h /\ worker.item = None
        /\ h \in Items /\ h # None /\ worker.pc # "aborted"
        /\ UNCHANGED <<phase, crashes, call, temp, meta, torn, tasks, inline>>
    BY <1>6, ReceiveEffect, ConfigAssumption
  <2>2. ChanFiles' = ChanFiles \ {h.file}
    BY <1>0, <2>1, TailFiles DEF ChanFiles, Unique
  <2> HIDE DEF h
  <2>3. /\ HandFiles' = {h.file} /\ HandFiles = {} /\ TaskFiles' = TaskFiles
        /\ Handing' = Handing /\ TempInlines' = TempInlines
    BY <2>1 DEF HandFiles, TaskFiles, Handing, TempInlines
  <2>4. HeldFiles \subseteq HeldFiles'
    BY <2>2, <2>3 DEF HeldFiles
  <2> QED BY <1>3, <2>1, <2>3, <2>4
<1>7. CASE Dispatch
  <2> DEFINE w == worker.item
             n == NewTask(w)
  <2>1. /\ w \in Items /\ w # None /\ tasks' = tasks \cup {n} /\ n.item = w
        /\ worker.pc # "aborted"
        /\ UNCHANGED <<phase, crashes, call, temp, meta, torn, chan, inline>>
    BY <1>7, DispatchEffect
  <2> HIDE DEF w, n
  <2>2. /\ HandFiles = {w.file} /\ ChanFiles' = ChanFiles /\ TaskFiles' = TaskFiles \cup {w.file}
        /\ Handing' = Handing /\ TempInlines' = TempInlines
    BY <2>1 DEF HandFiles, ChanFiles, TaskFiles, Handing, TempInlines, w
  <2>3. HeldFiles \subseteq HeldFiles'
    BY <2>2 DEF HeldFiles
  <2> QED BY <1>3, <2>1, <2>2, <2>3
<1>8. ASSUME NEW t \in tasks, TaskStep(t) \/ (Wake(t) /\ TaskFrame) PROVE NoLeak'
  <2> DEFINE f == t.item.file
  <2>1. TaskFrame /\ (Settled(t) \/ \E u : Changed(t, u))
    BY <1>8, TaskEffect
  <2>2. /\ ChanFiles' = ChanFiles /\ HandFiles' = HandFiles /\ TempInlines' = TempInlines
        /\ UNCHANGED <<phase, crashes, worker>>
    BY <2>1 DEF TaskFrame, ChanFiles, HandFiles, TempInlines
  <2>3. CASE Settled(t)
    <3>1. /\ tasks' = tasks \ {t} /\ temp' = temp \ {f} /\ meta' = meta \ {f} /\ Steady
          /\ torn' = torn \ {f}
      BY <2>3 DEF Settled, RemoveFiles
    <3>2. TaskFiles' = TaskFiles \ {f} /\ Handing' = Handing
      BY <1>0, <3>1, TaskFilesKept, SteadyFacts
    <3>3. HeldFiles \ {f} \subseteq HeldFiles'
      BY <2>2, <3>2 DEF HeldFiles
    <3> HIDE DEF f
    <3> QED BY <1>3, <2>2, <3>1, <3>2, <3>3
  <2>4. ASSUME NEW u, Changed(t, u) PROVE NoLeak'
    <3>1. /\ tasks' = (tasks \ {t}) \cup {u} /\ u.item.file = f /\ Steady
          /\ temp' = temp /\ meta' = meta /\ torn' = torn
      BY <2>4 DEF Changed, disk
    <3>2. TaskFiles' = TaskFiles /\ Handing' = Handing
      BY <1>0, <3>1, TaskFilesKept, SteadyFacts
    <3>3. HeldFiles' = HeldFiles
      BY <2>2, <3>2 DEF HeldFiles
    <3> QED BY <1>3, <2>2, <3>1, <3>2, <3>3
  <2> QED BY <2>1, <2>3, <2>4
<1>9. CASE DrainTimeout
  BY <1>3, <1>9, TimeoutEffect
<1>10. CASE Crashes
  <2>1. crashes' = crashes + 1
    BY <1>10, CrashEffect
  <2> QED BY <1>0, <2>1 DEF NoLeak
<1>11. CASE UNCHANGED vars
  <2>1. UNCHANGED <<phase, crashes, call, temp, meta, torn, chan, worker, tasks, inline>>
    BY <1>11 DEF vars, disk, work
  <2>2. HeldFiles' = HeldFiles /\ TempInlines' = TempInlines /\ Handing' = Handing
    BY <2>1 DEF HeldFiles, ChanFiles, HandFiles, TaskFiles, TempInlines, Handing
  <2> QED BY <1>3, <2>1, <2>2
<1>12. CASE ScanList \/ ScanDone \/ SweepOrphans
  <2>1. /\ phase # "open" /\ crashes' = crashes /\ temp' \subseteq temp /\ meta' \subseteq meta
    BY <1>12 DEF ScanList, ScanDone, SweepOrphans, disk
  <2> QED BY <2>1 DEF NoLeak
<1>13. ASSUME NEW f \in scan, ScanOne(f) PROVE NoLeak'
  <2>1. phase = "scan" /\ crashes' = crashes /\ f \in meta
    BY <1>13, ScanEffect DEF Owned, Phases
  <2> QED BY <2>1 DEF NoLeak
<1> QED BY <1>1, <1>2, <1>4, <1>5, <1>6, <1>7, <1>8, <1>9, <1>10, <1>11, <1>12, <1>13, StepKinds

-----------------------------------------------------------------------------
(* Theorems.                                                               *)

IInv == Shape /\ Owned /\ Slots /\ Counts /\ Bytes /\ Promised /\ Marked /\ NoLeak

\* The queue starts with an empty directory and nothing in its hands.
LEMMA InitInv == ~Detached /\ Init => IInv
<1> SUFFICES ASSUME ~Detached, Init PROVE IInv
  OBVIOUS
<1>1. /\ phase = "list" /\ crashes = 0 /\ call = [c \in Calls |-> Idle]
      /\ temp = {} /\ meta = {} /\ torn = {} /\ aged = {} /\ scan = {} /\ owed = {}
      /\ chan = <<>> /\ worker = [pc |-> "loop", item |-> None]
      /\ tasks = {} /\ free = MaxConcurrent /\ inline = {} /\ draining = FALSE /\ marked = FALSE
      /\ stats = NoStats
  BY DEF Init
<1>2. Idle \in CallStates /\ Idle.pc = "idle"
  BY DEF Idle, CallStates, Replies
<1>3. call \in [Calls -> CallStates] /\ \A c \in Calls : call[c].pc = "idle"
  <2> HIDE DEF Idle
  <2> QED BY <1>1, <1>2
<1>4. worker.item = None /\ worker.pc = "loop" /\ stats.pending = 0 /\ stats.inflight = 0
      /\ stats \in Counters /\ worker \in [pc : WorkerPoints, item : Items \cup {None}]
  BY <1>1 DEF Counters, WorkerPoints, NoStats
<1>5. MaxConcurrent \in Nat
  BY ConfigAssumption
<1>6. Shape
  <2>1. chan \in Seq(Items) /\ free \in Int /\ crashes \in Nat
    BY <1>1, <1>5
  <2> QED BY <1>1, <1>3, <1>4, <2>1 DEF Shape
<1>7. /\ ChanFiles = {} /\ HandFiles = {} /\ TaskFiles = {} /\ InlineFiles = {} /\ Once(chan)
      /\ Handing = {} /\ Counted = {} /\ SlotFiles = {} /\ Flying = {} /\ Marks(chan) = {}
  BY <1>1, <1>3, <1>4, EmptyFiles
     DEF ChanFiles, HandFiles, TaskFiles, InlineFiles, Handing, Counted, SlotFiles, Flying
<1>8. HeldFiles = {} /\ Busy = {} /\ AllMarks = {}
  BY <1>7 DEF HeldFiles, Busy, AllMarks, HandMarks, TaskMarks, TaskFiles, CallMarks
<1>9. Owned
  <2>1. Unique /\ Hands
    BY <1>1, <1>4, <1>7 DEF Unique, Hands
  <2>2. \A f \in Calls : OneOwner(f)
    BY <1>1, <1>7 DEF OneOwner
  <2> QED BY <1>1, <1>3, <1>4, <1>7, <1>8, <2>1, <2>2 DEF Owned, Phases, OnDisk, Backed
<1>10. Slots /\ Counts
  BY <1>1, <1>4, <1>5, <1>7, <1>8, FS_EmptySet DEF Slots, Counts
<1>11. Promised /\ Marked /\ NoLeak
  BY <1>1, <1>8 DEF Promised, Marked, NoLeak
<1>12. Bytes
  <2>1. Held = {}
    BY <1>1, <1>4 DEF Held, ToSet
  <2>2. Sizes = {}
    BY <1>7, <2>1 DEF Sizes, HeldSizes, CallSizes
  <2>3. stats.bytes = 0
    BY <1>1 DEF NoStats
  <2> QED BY <1>1, <2>2, <2>3, LoadNone DEF Bytes, Exact
<1> QED BY <1>6, <1>9, <1>10, <1>11, <1>12 DEF IInv

\* The inductive invariant holds in every reachable state of a process that scans its
\* directory before it takes calls.
LEMMA Always == ASSUME ~Detached PROVE Spec => []IInv
<1>1. IInv /\ [Next]_vars => IInv'
  <2> SUFFICES ASSUME IInv, [Next]_vars PROVE IInv'
    OBVIOUS
  <2>1. Shape /\ Owned /\ Slots /\ Counts /\ Bytes /\ Promised /\ Marked /\ NoLeak
    BY DEF IInv
  <2>2. Shape'
    BY <2>1, ShapeStep
  <2>3. Owned' /\ Slots' /\ Counts' /\ Bytes' /\ Promised' /\ Marked' /\ NoLeak'
    BY <2>1, <2>2, OwnedStep, SlotsStep, CountsStep, BytesStep, PromisedStep, MarkedStep,
       NoLeakStep
  <2> QED BY <2>2, <2>3 DEF IInv
<1>2. Init => IInv
  BY InitInv
<1> QED BY <1>1, <1>2, PTL DEF Spec

\* A set without two elements is empty or has one.
LEMMA AtMostOne ==
  ASSUME NEW S, \A x, y \in S : x = y
  PROVE  \/ S = {} /\ Cardinality(S) = 0 /\ IsFiniteSet(S)
         \/ S # {} /\ Cardinality(S) = 1 /\ IsFiniteSet(S)
<1>1. CASE S = {}
  BY <1>1, FS_EmptySet
<1>2. ASSUME NEW x \in S PROVE S # {} /\ Cardinality(S) = 1 /\ IsFiniteSet(S)
  <2>1. S = {x}
    BY <1>2
  <2> QED BY <2>1, FS_Singleton
<1> QED BY <1>1, <1>2

\* In a process that scans its directory before it takes calls, a file on disk has one
\* owner: OwnedOnce, for any number of calls and lives.  The recovery re-enqueues no
\* pair a call of this life has handed to the queue, and a rejected item is not both
\* queued and uploaded inline.
THEOREM FilesHaveOneOwner == ASSUME ~Detached PROVE Spec => []OwnedOnce
<1>1. IInv => OwnedOnce
  <2> SUFFICES ASSUME IInv, NEW f \in Calls
               PROVE  Cardinality(OwnedBy(f)) + Quantify(inline, LAMBDA u : u.file = f)
                        + Cardinality({f} \cap Handing) <= 1
    BY DEF OwnedOnce
  <2> DEFINE A == OwnedBy(f)
             B == {u \in inline : u.file = f}
             C == {f} \cap Handing
  <2>0. Shape /\ Owned /\ Unique /\ OneOwner(f)
    BY DEF IInv, Owned
  <2>1. (\A x, y \in A : x = y) /\ (A # {} => f \in HeldFiles)
    <3>1. \A x, y \in A : x = y
      BY <2>0, HeldOnce DEF OwnedBy
    <3>2. A # {} => f \in HeldFiles
      BY HeldFilesAre DEF OwnedBy
    <3> QED BY <3>1, <3>2
  <2>2. (\A x, y \in B : x = y) /\ (B # {} => f \in InlineFiles)
    BY <2>0 DEF Unique, InlineFiles
  <2>3. (\A x, y \in C : x = y) /\ (C # {} => call[f].pc # "done")
    BY DEF Handing
  <2>4. ~(f \in HeldFiles /\ f \in InlineFiles)
        /\ (f \in HeldFiles \/ f \in InlineFiles => call[f].pc = "done")
    BY <2>0 DEF OneOwner, HeldFiles
  <2> HIDE DEF A, B, C
  <2>5. /\ (A = {} /\ Cardinality(A) = 0) \/ (A # {} /\ Cardinality(A) = 1)
        /\ (B = {} /\ Cardinality(B) = 0) \/ (B # {} /\ Cardinality(B) = 1)
        /\ (C = {} /\ Cardinality(C) = 0) \/ (C # {} /\ Cardinality(C) = 1)
    BY <2>1, <2>2, <2>3, AtMostOne
  <2>6. Cardinality(A) + Cardinality(B) + Cardinality(C) <= 1
    BY <2>1, <2>2, <2>3, <2>4, <2>5
  <2> QED BY <2>6 DEF A, B, C, Quantify
<1> QED BY <1>1, Always, PTL

\* An accepted pair stays on disk until it is uploaded or given up: Durable, through
\* every drain, abort, crash, refused recovery and sweep.
THEOREM AcceptedIsDurable == ASSUME ~Detached PROVE Spec => []Durable
<1>1. IInv => Durable
  BY DEF IInv, Promised, Durable
<1> QED BY <1>1, Always, PTL

\* A pair on disk is one that was taken on and neither uploaded nor given up:
\* NothingResurfaces.  No settlement, refusal or sweep, cut short by a crash or not,
\* leaves a pair for the next recovery to upload again.
THEOREM SettledStaySettled == ASSUME ~Detached PROVE Spec => []NothingResurfaces
<1>1. IInv => NothingResurfaces
  BY DEF IInv, Promised, NothingResurfaces
<1> QED BY <1>1, Always, PTL

\* The in-flight set holds the object exactly while one caller or item holds the guard:
\* GuardHasHolder.
THEOREM GuardHeldByOne == ASSUME ~Detached PROVE Spec => []GuardHasHolder
<1>1. IInv => GuardHasHolder
  <2> SUFFICES ASSUME IInv PROVE GuardHasHolder
    OBVIOUS
  <2>1. Shape /\ Marked
    BY DEF IInv
  <2>2. Holders = AllMarks
    BY <2>1, HoldersAre
  <2>3. (\A f, g \in Holders : f = g) /\ (marked <=> Holders # {})
    BY <2>1, <2>2 DEF Marked
  <2>4. Cardinality(Holders) = IF marked THEN 1 ELSE 0
    <3> HIDE DEF Holders
    <3> QED BY <2>3, AtMostOne
  <2> QED BY <2>4 DEF GuardHasHolder, Holders
<1> QED BY <1>1, Always, PTL

\* In the first life of a queue that was not aborted no outcome leaves a temp or a
\* sidecar behind but the part of a file whose copy failed: NothingLeaks.
THEOREM NoFileLeaks == ASSUME ~Detached PROVE Spec => []NothingLeaks
<1>1. IInv => NothingLeaks
  <2> SUFFICES ASSUME IInv, crashes = 0, worker.pc # "aborted", NEW f \in (temp \ torn) \cup meta
               PROVE  OwnedBy(f) # {} \/ f \in Handing \/ \E u \in inline : u.file = f /\ u.temp
    BY DEF NothingLeaks
  <2>1. f \in HeldFiles \/ f \in Handing \/ f \in TempInlines
    BY DEF IInv, NoLeak
  <2>2. f \in HeldFiles => OwnedBy(f) # {}
    BY HeldFilesAre DEF OwnedBy
  <2> QED BY <2>1, <2>2 DEF TempInlines
<1> QED BY <1>1, Always, PTL

\* A set of tasks is counted by its files.
LEMMA TasksByFile ==
  ASSUME Shape, Unique, NEW S \in SUBSET tasks
  PROVE  Cardinality(S) = Cardinality({t.item.file : t \in S})
<1> DEFINE F == {t.item.file : t \in S}
           g == [t \in S |-> t.item.file]
<1>1. F \in SUBSET Calls
  BY HeldType
<1>2. IsFiniteSet(F)
  BY <1>1, FS_Subset, ConfigAssumption
<1>3. g \in Injection(S, F) /\ g \in Surjection(S, F)
  <2>1. g \in [S -> F] /\ \A t \in S : g[t] = t.item.file
    OBVIOUS
  <2>2. \A t, u \in S : g[t] = g[u] => t = u
    BY <2>1 DEF Unique
  <2>3. \A x \in F : \E t \in S : g[t] = x
    BY <2>1
  <2> HIDE DEF g, F
  <2> QED BY <2>1, <2>2, <2>3 DEF Injection, IsInjective, Surjection
<1> HIDE DEF F, g
<1>4. Cardinality(S) = Cardinality(F)
  BY <1>2, <1>3, FS_Injection
<1> QED BY <1>4 DEF F

\* Slots are neither lost, made up nor overdrawn, and a task uses the wire only with a
\* slot: SlotsConserved, for any number of slots, parks and resumes.
THEOREM SlotsAreConserved == ASSUME ~Detached PROVE Spec => []SlotsConserved
<1>1. IInv => SlotsConserved
  <2> SUFFICES ASSUME IInv PROVE SlotsConserved
    OBVIOUS
  <2>1. Shape /\ Unique /\ Slots
    BY DEF IInv, Owned
  <2> DEFINE S == {t \in tasks : t.slot}
  <2>2. S \in SUBSET tasks /\ SlotFiles = {t.item.file : t \in S}
    BY DEF SlotFiles
  <2>3. Quantify(tasks, LAMBDA t : t.slot) = Cardinality(S)
    BY DEF Quantify
  <2> HIDE DEF S
  <2>4. Cardinality(S) = Cardinality(SlotFiles)
    BY <2>1, <2>2, TasksByFile
  <2> QED BY <2>1, <2>3, <2>4 DEF Slots, SlotsConserved
<1> QED BY <1>1, Always, PTL

\* The bytes of a function's values are those of its pairs, when its arguments are files.
LEMMA TotalOfCalls ==
  ASSUME NEW S \in SUBSET Calls, NEW size \in [S -> 0..2]
  PROVE  UNION {{x} \X (1..size[x]) : x \in S} = Load({<<c, size[c]>> : c \in S})
<1> DEFINE P == {<<c, size[c]>> : c \in S}
           U == UNION {{x} \X (1..size[x]) : x \in S}
<1>1. ASSUME NEW y PROVE y \in U <=> y \in Load(P)
  <2>1. ASSUME y \in U PROVE y \in Load(P)
    <3>0. PICK c \in S : y \in {c} \X (1..size[c])
      BY <2>1
    <3>1. PICK b \in 1..size[c] : y = <<c, b>>
      BY <3>0
    <3>2. size[c] \in 0..2 /\ c \in Calls
      OBVIOUS
    <3>3. y \in Calls \X (1..2) /\ y[1] = c /\ y[2] = b
      BY <3>1, <3>2
    <3>4. <<c, size[c]>> \in P /\ <<c, size[c]>>[1] = c /\ <<c, size[c]>>[2] = size[c] /\ b <= size[c]
      BY <3>2
    <3>5. \E p \in P : p[1] = y[1] /\ y[2] <= p[2]
      <4> HIDE DEF P
      <4> QED BY <3>3, <3>4
    <3> QED BY <3>3, <3>5 DEF Load
  <2>2. ASSUME y \in Load(P) PROVE y \in U
    <3>1. PICK a \in Calls, b \in 1..2 : y = <<a, b>>
      BY <2>2 DEF Load
    <3>2. PICK c \in S : a = c /\ b <= size[c]
      BY <2>2, <3>1 DEF Load
    <3>3. y \in {c} \X (1..size[c])
      BY <3>1, <3>2
    <3> QED BY <3>3
  <2> QED BY <2>1, <2>2
<1> HIDE DEF P, U
<1>2. U = Load(P)
  BY <1>1
<1> QED BY <1>2 DEF P, U

\* Keyed by item or keyed by file, the bytes are as many.
LEMMA TotalByFile ==
  ASSUME NEW S, NEW size \in [S -> 0..2], \A i \in S : i.file \in Calls,
         \A i, j \in S : i.file = j.file => i = j,
         NEW P, P = {<<i.file, size[i]>> : i \in S}
  PROVE  Total(size) = Cardinality(Load(P))
<1> DEFINE U == UNION {{x} \X (1..size[x]) : x \in S}
           g == [y \in U |-> <<y[1].file, y[2]>>]
<1>1. ASSUME NEW y
      PROVE  y \in U <=> \E i \in S, b \in 1..2 : y = <<i, b>> /\ b <= size[i]
  <2>1. ASSUME y \in U PROVE \E i \in S, b \in 1..2 : y = <<i, b>> /\ b <= size[i]
    <3>0. PICK i \in S : y \in {i} \X (1..size[i])
      BY <2>1
    <3>1. PICK b \in 1..size[i] : y = <<i, b>>
      BY <3>0
    <3>2. size[i] \in 0..2
      OBVIOUS
    <3>3. b \in 1..2 /\ b <= size[i]
      BY <3>2
    <3> QED BY <3>1, <3>3
  <2>2. ASSUME NEW i \in S, NEW b \in 1..2, y = <<i, b>>, b <= size[i] PROVE y \in U
    <3>1. size[i] \in 0..2
      OBVIOUS
    <3>2. y \in {i} \X (1..size[i])
      BY <2>2, <3>1
    <3> QED BY <3>2
  <2> QED BY <2>1, <2>2
<1>2. ASSUME NEW z
      PROVE  z \in Load(P) <=> \E i \in S, b \in 1..2 : z = <<i.file, b>> /\ b <= size[i]
  <2>1. ASSUME z \in Load(P) PROVE \E i \in S, b \in 1..2 : z = <<i.file, b>> /\ b <= size[i]
    <3>1. PICK a \in Calls, b \in 1..2 : z = <<a, b>>
      BY <2>1 DEF Load
    <3>2. PICK i \in S : a = i.file /\ b <= size[i]
      BY <2>1, <3>1 DEF Load
    <3> QED BY <3>1, <3>2
  <2>2. ASSUME NEW i \in S, NEW b \in 1..2, z = <<i.file, b>>, b <= size[i] PROVE z \in Load(P)
    <3>1. z \in Calls \X (1..2) /\ z[1] = i.file /\ z[2] = b
      BY <2>2
    <3>2. <<i.file, size[i]>> \in P /\ <<i.file, size[i]>>[1] = i.file /\ <<i.file, size[i]>>[2] = size[i]
      OBVIOUS
    <3>3. \E p \in P : p[1] = z[1] /\ z[2] <= p[2]
      BY <2>2, <3>1, <3>2
    <3> QED BY <3>1, <3>3 DEF Load
  <2> QED BY <2>1, <2>2
<1>3. IsFiniteSet(Load(P))
  BY LoadFinite
<1> HIDE DEF U
<1>4. \A y \in U : g[y] = <<y[1].file, y[2]>> /\ g[y] \in Load(P)
  <2> SUFFICES ASSUME NEW y \in U PROVE g[y] = <<y[1].file, y[2]>> /\ g[y] \in Load(P)
    OBVIOUS
  <2>1. PICK i \in S, b \in 1..2 : y = <<i, b>> /\ b <= size[i]
    BY <1>1
  <2>2. g[y] = <<i.file, b>>
    BY <2>1
  <2> QED BY <1>2, <2>1, <2>2
<1>5. \A y, z \in U : g[y] = g[z] => y = z
  <2> SUFFICES ASSUME NEW y \in U, NEW z \in U, g[y] = g[z] PROVE y = z
    OBVIOUS
  <2>1. PICK i \in S, b \in 1..2 : y = <<i, b>>
    BY <1>1
  <2>2. PICK j \in S, d \in 1..2 : z = <<j, d>>
    BY <1>1
  <2>3. <<i.file, b>> = <<j.file, d>>
    BY <2>1, <2>2
  <2> QED BY <2>1, <2>2, <2>3
<1>6. \A z \in Load(P) : \E y \in U : g[y] = z
  <2> SUFFICES ASSUME NEW z \in Load(P) PROVE \E y \in U : g[y] = z
    OBVIOUS
  <2>1. PICK i \in S, b \in 1..2 : z = <<i.file, b>> /\ b <= size[i]
    BY <1>2
  <2>2. <<i, b>> \in U
    BY <1>1, <2>1
  <2> QED BY <2>1, <2>2
<1>7. g \in [U -> Load(P)]
  BY <1>4
<1> HIDE DEF g
<1>8. g \in Injection(U, Load(P)) /\ g \in Surjection(U, Load(P))
  BY <1>5, <1>6, <1>7 DEF Injection, IsInjective, Surjection
<1>9. Cardinality(U) = Cardinality(Load(P))
  BY <1>3, <1>8, FS_Injection
<1> QED BY <1>9 DEF Total, U

\* The sum of the counted bytes.
LEMMA BytesSum ==
  ASSUME IInv
  PROVE  Cardinality(Load(Sizes)) = Total([item \in Held |-> item.bytes])
                                      + Total([c \in Counted |-> call[c].bytes])
<1> DEFINE h == [item \in Held |-> item.bytes]
           k == [c \in Counted |-> call[c].bytes]
<1>0. Shape /\ Owned
  BY DEF IInv
<1>1. h \in [Held -> 0..2] /\ DOMAIN h = Held /\ \A i \in Held : h[i] = i.bytes
  BY <1>0, SizesType
<1>2. k \in [Counted -> 0..2] /\ DOMAIN k = Counted /\ \A c \in Counted : k[c] = call[c].bytes
  <2>1. \A c \in Counted : call[c].bytes \in 0..2
    BY <1>0 DEF Shape, CallStates, Counted
  <2> QED BY <2>1
<1>3. \A i \in Held : i.file \in Calls
  BY <1>0, HeldType DEF Items
<1>4. \A i, j \in Held : i.file = j.file => i = j
  BY <1>0, HeldOnce
<1>5. {<<i.file, h[i]>> : i \in Held} = HeldSizes /\ {<<c, k[c]>> : c \in Counted} = CallSizes
  BY DEF HeldSizes, CallSizes
<1> HIDE DEF h, k
<1>6. IsFiniteSet(Load(HeldSizes))
  BY LoadFinite
<1>7. Total(h) = Cardinality(Load(HeldSizes))
  BY <1>1, <1>3, <1>4, <1>5, TotalByFile
<1>8. UNION {{x} \X (1..k[x]) : x \in Counted} = Load(CallSizes)
  <2>1. Counted \in SUBSET Calls
    BY DEF Counted
  <2>2. UNION {{x} \X (1..k[x]) : x \in Counted} = Load({<<c, k[c]>> : c \in Counted})
    BY <1>2, <2>1, TotalOfCalls
  <2> QED BY <1>5, <2>2
<1>9. Total(k) = Cardinality(Load(CallSizes))
  BY <1>2, <1>8 DEF Total
<1>10. Load(Sizes) = Load(HeldSizes) \cup Load(CallSizes)
  BY DEF Load, Sizes
<1>11. IsFiniteSet(Load(CallSizes))
  BY LoadFinite
<1>12. Load(HeldSizes) \cap Load(CallSizes) = {}
  <2> SUFFICES ASSUME NEW z \in Load(HeldSizes), z \in Load(CallSizes) PROVE FALSE
    OBVIOUS
  <2>1. PICK p \in HeldSizes : p[1] = z[1]
    BY DEF Load
  <2>2. PICK q \in CallSizes : q[1] = z[1]
    BY DEF Load
  <2>3. PICK i \in Held : p[1] = i.file
    BY SizesAre
  <2>4. z[1] \in HeldFiles /\ z[1] \in Calls
    BY <1>3, <2>1, <2>3, HeldFilesAre
  <2>5. z[1] \in Counted
    BY <2>2, SizesAre
  <2>6. call[z[1]].pc = "done"
    BY <1>0, <2>4 DEF Owned, OneOwner, HeldFiles
  <2> QED BY <2>5, <2>6 DEF Counted
<1>13. Cardinality(Load(HeldSizes) \cap Load(CallSizes)) = 0
  BY <1>12, FS_EmptySet
<1> DEFINE A == Load(HeldSizes)
           B == Load(CallSizes)
<1> HIDE DEF A, B
<1>14. /\ Cardinality(A \cup B) = Cardinality(A) + Cardinality(B) - Cardinality(A \cap B)
       /\ Cardinality(A) \in Nat /\ Cardinality(B) \in Nat
  BY <1>6, <1>11, FS_Union, FS_CardinalityType DEF A, B
<1>15. Cardinality(A \cup B) = Cardinality(A) + Cardinality(B)
  BY <1>13, <1>14 DEF A, B
<1> QED BY <1>7, <1>9, <1>10, <1>15 DEF A, B, h, k

\* While the worker lives, the counters that gate the disk budget and that wait_idle
\* polls are exact: pending counts the items the queue holds and those waiting for room,
\* pending_bytes their bytes, until the sweep takes a queued item's file, and inflight
\* the tasks past their start.
THEOREM CountersAreExact == ASSUME ~Detached PROVE Spec => []CountersExact
<1>1. IInv => CountersExact
  <2> SUFFICES ASSUME IInv, worker.pc # "aborted"
               PROVE  PendingExact /\ InflightExact /\ (~stats.swept => BytesExact)
    BY DEF CountersExact
  <2>1. /\ Shape /\ Owned /\ Unique
        /\ stats.pending = Cardinality(Busy) /\ stats.inflight = Cardinality(Flying)
    BY DEF IInv, Owned, Counts
  <2>2. InflightExact
    <3> DEFINE S == {t \in tasks : t.pc # "start"}
    <3>1. S \in SUBSET tasks /\ Flying = {t.item.file : t \in S}
      BY DEF Flying
    <3>2. Quantify(tasks, LAMBDA t : t.pc # "start") = Cardinality(S)
      BY DEF Quantify
    <3> HIDE DEF S
    <3>3. Cardinality(S) = Cardinality(Flying)
      BY <2>1, <3>1, TasksByFile
    <3> QED BY <2>1, <3>2, <3>3 DEF InflightExact
  <2>3. Cardinality(Held) = Cardinality(HeldFiles) /\ IsFiniteSet(HeldFiles)
    <3> DEFINE g == [i \in Held |-> i.file]
    <3>1. IsFiniteSet(HeldFiles)
      BY <2>1, FilesType, FS_Subset, ConfigAssumption DEF FilesKnown
    <3>2. g \in [Held -> HeldFiles] /\ \A i \in Held : g[i] = i.file
      BY HeldFilesAre
    <3>3. \A i, j \in Held : g[i] = g[j] => i = j
      BY <2>1, <3>2, HeldOnce
    <3>4. \A x \in HeldFiles : \E i \in Held : g[i] = x
      BY <3>2, HeldFilesAre
    <3> HIDE DEF g
    <3>5. g \in Injection(Held, HeldFiles) /\ g \in Surjection(Held, HeldFiles)
      BY <3>2, <3>3, <3>4 DEF Injection, IsInjective, Surjection
    <3> QED BY <3>1, <3>5, FS_Injection
  <2>4. HeldFiles \cap Counted = {}
    <3>1. ASSUME NEW f \in HeldFiles, f \in Counted PROVE FALSE
      <4>1. f \in Calls /\ call[f].pc \in {"sending", "refused"}
        BY <3>1 DEF Counted
      <4>2. call[f].pc = "done"
        BY <2>1, <3>1, <4>1 DEF Owned, OneOwner, HeldFiles
      <4> QED BY <4>1, <4>2
    <3> QED BY <3>1
  <2>5. IsFiniteSet(Counted)
    BY FS_Subset, ConfigAssumption DEF Counted
  <2>6. Cardinality(Busy) = Cardinality(HeldFiles) + Cardinality(Counted)
    <3>1. /\ Cardinality(HeldFiles \cup Counted)
               = Cardinality(HeldFiles) + Cardinality(Counted) - Cardinality(HeldFiles \cap Counted)
          /\ Cardinality(HeldFiles) \in Nat /\ Cardinality(Counted) \in Nat
      BY <2>3, <2>5, FS_Union, FS_CardinalityType
    <3>2. Cardinality(HeldFiles \cap Counted) = 0
      BY <2>4, FS_EmptySet
    <3> QED BY <3>1, <3>2 DEF Busy
  <2>7. ~stats.swept => BytesExact
    BY <2>1, BytesSum DEF IInv, Bytes, Exact, BytesExact
  <2> QED BY <2>1, <2>2, <2>3, <2>6, <2>7 DEF PendingExact
<1> QED BY <1>1, Always, PTL

=============================================================================
