-------------------------- MODULE ClientTurnsProofs --------------------------
(***************************************************************************)
(* The three invariants of ClientTurns, for every set of prompts, clients  *)
(* and wakes and every bound: the pager's rows converge to the shell's     *)
(* queue, a finished turn leaves the screen, and prompts reach the shell   *)
(* in the order they were typed.                                           *)
(***************************************************************************)
EXTENDS ClientTurns, PromptQueueProofs

-----------------------------------------------------------------------------
(* The inductive invariant.                                                *)

RowType == [id : Prompts, version : Nat]
StashType == [id : Prompts, known : BOOLEAN, ended : BOOLEAN]
PagerType ==
    [cur : Ids \cup {None}, state : {"idle", "running", "cancelling"}, viewer : BOOLEAN,
     inFlight : BOOLEAN, stash : StashType \cup {None}, fed : Ids \cup {None},
     armed : Prompts \cup {None}, shared : Seq(RowType), mirror : Seq(RowType),
     echoes : Seq(Mine), local : Seq(Mine)]

ChangedType == [kind : {"changed"}, running : Ids \cup {None}, rows : Seq(RowType)]
EndType == [kind : {"turn_completed", "prompt_complete"}, id : Ids]
ResponseType == [kind : {"response"}, id : Mine]
EventType == ChangedType \cup EndType \cup ResponseType
CallType == [kind : {"prompt"}, id : Mine] \cup [kind : {"cancel"}, rewind : BOOLEAN]

TypeOK ==
    /\ pager \in PagerType /\ typed \in Seq(Mine)
    /\ queue \in Seq(Ids) /\ running \in Ids \cup {None} /\ deltas \in Nat
    /\ ending \in [id : Ids, terminal : BOOLEAN] \cup {None}
    /\ version \in [Prompts -> Nat]
    /\ rpc \in [Ids -> {"new", "waiting", "announce", "answer", "removed", "gone"}]
    /\ \A id \in Ids : rpc[id] \in {"answer", "removed"} => id \in Mine
    /\ calls \in Seq(CallType) /\ removes \in SUBSET RowType
    /\ events \in Seq(EventType) /\ updates \in Seq(Ids) /\ answers \in SUBSET Mine
    /\ commands \in Nat /\ lost \in SUBSET Mine /\ missed \in SUBSET Prompts

\* The shell: the queue holds the waiting prompts, each once, the running one in
\* front; a turn being finished with runs no more.
Shell ==
    /\ running # None => FrontIs(queue, running)
    /\ Distinct(queue)
    /\ \A id \in ToSet(queue) : rpc[id] = "waiting"
    /\ \A id \in Prompts : rpc[id] = "waiting" => id \in ToSet(queue)
    /\ ending # None => running = None /\ rpc[ending.id] \notin {"new", "waiting"}

\* The typed prompts: n are with the shell, the next are on their way, the rest
\* wait in the pager.
Sent(c) == Kept(c, {PromptCall(id) : id \in Mine})
HandedOver(n, t, r) == \A id \in Mine : r[id] # "new" <=> \E i \in 1..n : id = t[i]
InTypedOrder(n, t, s, l) ==
    /\ n + Len(s) + Len(l) = Len(t)
    /\ \A i \in 1..Len(s) : s[i] = PromptCall(t[n + i])
    /\ \A i \in 1..Len(l) : l[i] = t[n + Len(s) + i]
Order ==
    /\ Distinct(typed)
    /\ \E n \in 0..Len(typed) :
          HandedOver(n, typed, rpc) /\ InTypedOrder(n, typed, Sent(calls), pager.local)

\* The rows: the last broadcast on its way shows the queue; with none on its way
\* the pager has the queue and its echoes, and an echo's prompt or the broadcast
\* that retires it is on its way.
Silent(e) == \A m \in ToSet(e) : m.kind # "changed"
Current(e, rows) ==
    \A i \in 1..Len(e) :
        e[i].kind = "changed" /\ (\A j \in 1..Len(e) : j > i => e[j].kind # "changed")
            => e[i].rows = rows
Shows(e, id) == \E m \in ToSet(e) : m.kind = "changed" /\ id \in RowIds(m.rows)
Mirror ==
    /\ Current(events, Rows(queue, running, version))
    /\ Silent(events) => pager.shared = Rows(queue, running, version) \o Pinned(pager.echoes)
    /\ Silent(events) /\ removes = {} => pager.mirror = pager.shared
    /\ \A id \in ToSet(pager.echoes) : PromptCall(id) \in ToSet(calls) \/ Shows(events, id)

\* The screen.  A turn other clients or the shell have told of has started.
Started(id, run, r) == r[id] \in {"announce", "answer", "gone"} \/ (r[id] = "waiting" /\ run = id)
Runs(e, id) == \E m \in ToSet(e) : m.kind = "changed" /\ m.running = id
Told(run, r) ==
    /\ pager.stash # None => Started(pager.stash.id, run, r)
    /\ pager.cur \in Theirs => Started(pager.cur, run, r)
    /\ \A id \in Prompts : Runs(events, id) \/ id \in ToSet(updates) => Started(id, run, r)
\* A prompt of the pager's own on screen is on its way or with the shell.
Dispatched ==
    pager.cur \in Mine /\ rpc[pager.cur] = "new" => PromptCall(pager.cur) \in ToSet(calls)
Shown == pager.state = "idle" => pager.cur \notin Prompts

\* No announcement of the prompt's end is still to come; its answer is.
Over(id) ==
    /\ rpc[id] \notin {"new", "waiting", "announce"}
    /\ ending # None => ending # [id |-> id, terminal |-> TRUE]
    /\ Terminal(id) \notin ToSet(events) /\ Complete(id) \notin ToSet(events)
Answering(id) == id \in answers \/ Response(id) \in ToSet(events)

\* The end of the turn on screen is still to come, one way or another, or missed.
EndComes ==
    pager.cur \in Prompts =>
        \/ ~Over(pager.cur) \/ pager.armed = pager.cur \/ pager.cur \in missed
        \/ rpc[pager.cur] = "removed" \/ Answering(pager.cur)
Answered ==
    /\ \A id \in Mine : Answering(id) => rpc[id] = "gone"
    /\ \A id \in answers : ~Runs(events, id)
    /\ \A id \in Mine : rpc[id] = "gone" /\ id \notin lost /\ ~Answering(id) =>
          /\ pager.cur # id /\ ~Runs(events, id)
          /\ pager.stash # None => pager.stash.id # id
\* A response follows every broadcast of its own turn.
InOrder(e) ==
    \A i, j \in 1..Len(e) :
        i < j /\ e[i].kind = "response" => ~(e[j].kind = "changed" /\ e[j].running = e[i].id)

Screen == Shown /\ Told(running, rpc) /\ Dispatched /\ EndComes /\ Answered /\ InOrder(events)

Inv == TypeOK /\ Shell /\ Order /\ Mirror /\ Screen

-----------------------------------------------------------------------------
(* Messages and the sequences that carry them.                             *)

\* An event is told apart by its kind.
LEMMA EventKinds ==
  ASSUME NEW m \in EventType
  PROVE  /\ m.kind = "changed" <=> m \in ChangedType
         /\ m.kind = "response" <=> m \in ResponseType
         /\ m.kind \notin {"changed", "response"} => m \in EndType
  BY DEF EventType, ChangedType, EndType, ResponseType

\* What the shell sends is an event.
LEMMA MessageTypes ==
  ASSUME NEW id \in Ids
  PROVE  /\ Terminal(id) \in EndType /\ Terminal(id) \in EventType
         /\ Complete(id) \in EndType /\ Complete(id) \in EventType
         /\ Terminal(id).kind = "turn_completed" /\ Complete(id).kind = "prompt_complete"
         /\ Terminal(id).id = id /\ Complete(id).id = id
         /\ Response(id).kind = "response" /\ Response(id).id = id
         /\ id \in Mine => Response(id) \in EventType
  BY DEF Terminal, Complete, Response, EventType, EndType, ResponseType

\* A prompt call names its prompt and is no cancel.
LEMMA CallTypes ==
  /\ \A id \in Mine : PromptCall(id) \in CallType /\ PromptCall(id).kind = "prompt"
                      /\ PromptCall(id).id = id
  /\ \A b \in BOOLEAN : CancelCall(b) \in CallType /\ CancelCall(b).kind = "cancel"
  /\ \A c \in CallType : c.kind = "prompt" => c.id \in Mine /\ c = PromptCall(c.id)
  /\ \A c \in CallType : c.kind = "cancel" => c.rewind \in BOOLEAN
  /\ \A c \in CallType : c.kind = "prompt" \/ c.kind = "cancel"
  /\ \A a, b \in Mine : PromptCall(a) = PromptCall(b) => a = b
<1>1. \A id \in Mine : PromptCall(id) \in CallType /\ PromptCall(id).kind = "prompt"
                      /\ PromptCall(id).id = id
  BY DEF PromptCall, CallType
<1>2. \A b \in BOOLEAN : CancelCall(b) \in CallType /\ CancelCall(b).kind = "cancel"
  BY DEF CancelCall, CallType
<1>3. \A c \in CallType : c.kind = "prompt" => c.id \in Mine /\ c = PromptCall(c.id)
  BY DEF PromptCall, CallType
<1>4. \A c \in CallType : c.kind = "cancel" => c.rewind \in BOOLEAN
  BY DEF CallType
<1>5. \A c \in CallType : c.kind = "prompt" \/ c.kind = "cancel"
  BY DEF CallType
<1>6. \A a, b \in Mine : PromptCall(a) = PromptCall(b) => a = b
  BY <1>1
<1> QED BY <1>1, <1>2, <1>3, <1>4, <1>5, <1>6

\* What a queue holds after its front is popped.
LEMMA TailItems ==
  ASSUME NEW S, NEW q \in Seq(S), q # <<>>
  PROVE  /\ Tail(q) \in Seq(S) /\ Head(q) \in S /\ Head(q) \in ToSet(q)
         /\ ToSet(Tail(q)) \subseteq ToSet(q)
         /\ \A x \in ToSet(q) : x = Head(q) \/ x \in ToSet(Tail(q))
<1> DEFINE t == Tail(q)
<1>1. /\ t \in Seq(S) /\ Len(t) = Len(q) - 1 /\ Len(q) \in Nat /\ Len(q) >= 1
      /\ Head(q) = q[1] /\ q[1] \in S /\ \A k \in 1..Len(t) : t[k] = q[k + 1]
  OBVIOUS
<1> HIDE DEF t
<1>2. \A x \in ToSet(t) : \E k \in 1..Len(t) : x = t[k]
  BY <1>1, Elements
<1>3. \A x \in ToSet(q) : \E k \in 1..Len(q) : x = q[k]
  BY Elements
<1>4. /\ \A k \in 1..Len(q) : q[k] \in ToSet(q)
      /\ \A k \in 1..Len(t) : t[k] \in ToSet(t)
  BY <1>1, Elements
<1>5. ToSet(t) \subseteq ToSet(q)
  BY <1>1, <1>2, <1>4
<1>6. ASSUME NEW x \in ToSet(q) PROVE x = q[1] \/ x \in ToSet(t)
  <2>1. PICK k \in 1..Len(q) : x = q[k]
    BY <1>3
  <2>2. CASE k = 1
    BY <2>1, <2>2
  <2>3. CASE k # 1
    <3>1. k - 1 \in 1..Len(t) /\ t[k - 1] = q[k]
      BY <1>1, <2>3
    <3> QED BY <1>4, <2>1, <3>1
  <2> QED BY <2>2, <2>3
<1>7. q[1] \in ToSet(q)
  BY <1>1, <1>4
<1> QED BY <1>1, <1>5, <1>6, <1>7 DEF t

\* The empty sequence has no item.
LEMMA NoItems ==
  ToSet(<<>>) = {}
  BY DEF ToSet

\* A message sent last: what the pager will have been told when it arrives.
LEMMA EventsAppend ==
  ASSUME NEW e \in Seq(EventType), NEW m \in EventType
  PROVE  /\ Append(e, m) \in Seq(EventType) /\ ToSet(Append(e, m)) = ToSet(e) \cup {m}
         /\ Silent(Append(e, m)) <=> Silent(e) /\ m.kind # "changed"
         /\ \A rows : m.kind = "changed" /\ m.rows = rows => Current(Append(e, m), rows)
         /\ \A rows : m.kind # "changed" /\ Current(e, rows) => Current(Append(e, m), rows)
         /\ InOrder(e) /\ (m.kind = "changed" => \A r \in ToSet(e) : r.kind = "response" => r.id # m.running)
                => InOrder(Append(e, m))
<1> DEFINE a == Append(e, m)
<1>1. /\ a \in Seq(EventType) /\ Len(a) = Len(e) + 1 /\ Len(e) \in Nat
      /\ a[Len(a)] = m /\ \A i \in 1..Len(e) : a[i] = e[i]
  OBVIOUS
<1>2. ToSet(a) = ToSet(e) \cup {m}
  BY AppendFacts
<1> HIDE DEF a
<1>3. Silent(a) <=> Silent(e) /\ m.kind # "changed"
  BY <1>2 DEF Silent
<1>4. ASSUME NEW rows, m.kind = "changed", m.rows = rows PROVE Current(a, rows)
  BY <1>1, <1>4 DEF Current
<1>5. ASSUME NEW rows, m.kind # "changed", Current(e, rows) PROVE Current(a, rows)
  <2> SUFFICES ASSUME NEW i \in 1..Len(a), a[i].kind = "changed",
                      \A j \in 1..Len(a) : j > i => a[j].kind # "changed"
               PROVE  a[i].rows = rows
    BY DEF Current
  <2>1. i \in 1..Len(e) /\ a[i] = e[i]
    BY <1>1, <1>5
  <2>2. \A j \in 1..Len(e) : j > i => e[j].kind # "changed"
    BY <1>1
  <2> QED BY <1>5, <2>1, <2>2 DEF Current
<1>6. ASSUME InOrder(e), m.kind = "changed" => \A r \in ToSet(e) : r.kind = "response" => r.id # m.running
      PROVE  InOrder(a)
  <2> SUFFICES ASSUME NEW i \in 1..Len(a), NEW j \in 1..Len(a), i < j, a[i].kind = "response",
                      a[j].kind = "changed", a[j].running = a[i].id
               PROVE  FALSE
    BY DEF InOrder
  <2>1. i \in 1..Len(e) /\ a[i] = e[i] /\ e[i] \in ToSet(e)
    <3>1. i \in 1..Len(e)
      BY <1>1
    <3> QED BY <1>1, <3>1, Elements
  <2>2. CASE j \in 1..Len(e)
    BY <1>1, <1>6, <2>1, <2>2 DEF InOrder
  <2>3. CASE j = Len(a)
    BY <1>1, <1>6, <2>1, <2>3
  <2> QED BY <1>1, <2>2, <2>3
<1> QED BY <1>1, <1>2, <1>3, <1>4, <1>5, <1>6 DEF a

\* A message received.
LEMMA EventsTail ==
  ASSUME NEW e \in Seq(EventType), e # <<>>
  PROVE  /\ Tail(e) \in Seq(EventType) /\ Head(e) \in EventType
         /\ Head(e) \in ToSet(e) /\ ToSet(Tail(e)) \subseteq ToSet(e)
         /\ \A x \in ToSet(e) : x = Head(e) \/ x \in ToSet(Tail(e))
         /\ Silent(Tail(e)) /\ Head(e).kind # "changed" => Silent(e)
         /\ \A rows : Current(e, rows) => Current(Tail(e), rows)
         /\ \A rows : Current(e, rows) /\ Head(e).kind = "changed" /\ Silent(Tail(e)) => Head(e).rows = rows
         /\ InOrder(e) => InOrder(Tail(e))
         /\ InOrder(e) /\ Head(e).kind = "response" => ~Runs(Tail(e), Head(e).id)
<1> DEFINE t == Tail(e)
<1>1. /\ t \in Seq(EventType) /\ Len(t) = Len(e) - 1 /\ Len(e) \in Nat /\ Len(e) >= 1
      /\ Head(e) = e[1] /\ \A k \in 1..Len(t) : t[k] = e[k + 1]
  OBVIOUS
<1>2. /\ Head(e) \in EventType /\ Head(e) \in ToSet(e) /\ ToSet(t) \subseteq ToSet(e)
      /\ \A x \in ToSet(e) : x = Head(e) \/ x \in ToSet(t)
  BY TailItems
<1> HIDE DEF t
<1>3. /\ \A k \in 1..Len(t) : t[k] \in ToSet(t)
      /\ \A x \in ToSet(t) : \E k \in 1..Len(t) : x = t[k]
  BY <1>1, Elements
<1>4. Silent(t) /\ Head(e).kind # "changed" => Silent(e)
  BY <1>2 DEF Silent
<1>5. ASSUME NEW rows, Current(e, rows) PROVE Current(t, rows)
  <2> SUFFICES ASSUME NEW i \in 1..Len(t), t[i].kind = "changed",
                      \A j \in 1..Len(t) : j > i => t[j].kind # "changed"
               PROVE  t[i].rows = rows
    BY DEF Current
  <2>1. i + 1 \in 1..Len(e) /\ t[i] = e[i + 1]
    BY <1>1
  <2>2. ASSUME NEW j \in 1..Len(e), j > i + 1 PROVE e[j].kind # "changed"
    <3>1. j - 1 \in 1..Len(t) /\ j - 1 > i /\ t[j - 1] = e[j]
      BY <1>1, <2>2
    <3> QED BY <3>1
  <2> QED BY <1>5, <2>1, <2>2 DEF Current
<1>6. ASSUME NEW rows, Current(e, rows), e[1].kind = "changed", Silent(t) PROVE e[1].rows = rows
  <2>1. ASSUME NEW j \in 1..Len(e), j > 1 PROVE e[j].kind # "changed"
    <3>1. j - 1 \in 1..Len(t) /\ t[j - 1] = e[j]
      BY <1>1, <2>1
    <3> QED BY <1>3, <1>6, <3>1 DEF Silent
  <2>2. 1 \in 1..Len(e)
    BY <1>1
  <2> QED BY <1>6, <2>1, <2>2 DEF Current
<1>7. ASSUME InOrder(e) PROVE InOrder(t)
  <2> SUFFICES ASSUME NEW i \in 1..Len(t), NEW j \in 1..Len(t), i < j, t[i].kind = "response",
                      t[j].kind = "changed", t[j].running = t[i].id
               PROVE  FALSE
    BY DEF InOrder
  <2>1. i + 1 \in 1..Len(e) /\ j + 1 \in 1..Len(e) /\ i + 1 < j + 1 /\ t[i] = e[i + 1] /\ t[j] = e[j + 1]
    BY <1>1
  <2> QED BY <1>7, <2>1 DEF InOrder
<1>8. ASSUME InOrder(e), e[1].kind = "response" PROVE ~Runs(t, e[1].id)
  <2> SUFFICES ASSUME NEW m \in ToSet(t), m.kind = "changed", m.running = e[1].id PROVE FALSE
    BY DEF Runs
  <2>1. PICK k \in 1..Len(t) : m = t[k]
    BY <1>3
  <2>2. 1 \in 1..Len(e) /\ k + 1 \in 1..Len(e) /\ 1 < k + 1 /\ m = e[k + 1]
    BY <1>1, <2>1
  <2> QED BY <1>8, <2>2 DEF InOrder
<1> QED BY <1>1, <1>2, <1>4, <1>5, <1>6, <1>7, <1>8 DEF t

-----------------------------------------------------------------------------
(* What the pager's handlers do to the fields of what it holds.            *)

\* Nothing of the rows is touched.
SameRows(p, r) == r.shared = p.shared /\ r.mirror = p.mirror /\ r.echoes = p.echoes

\* The fields of what the pager holds have their types.
LEMMA PagerFields ==
  ASSUME NEW p \in PagerType
  PROVE  /\ p.cur \in Ids \cup {None} /\ p.state \in {"idle", "running", "cancelling"}
         /\ p.viewer \in BOOLEAN /\ p.inFlight \in BOOLEAN
         /\ p.stash \in StashType \cup {None} /\ p.fed \in Ids \cup {None}
         /\ p.armed \in Prompts \cup {None} /\ p.shared \in Seq(RowType)
         /\ p.mirror \in Seq(RowType) /\ p.echoes \in Seq(Mine) /\ p.local \in Seq(Mine)
         /\ p.stash # None => /\ p.stash.id \in Prompts /\ p.stash.known \in BOOLEAN
                              /\ p.stash.ended \in BOOLEAN
  BY DEF PagerType, StashType

\* AgentSession::finish_turn clears the turn and nothing else.
LEMMA FinishTurnFields ==
  ASSUME NEW p \in PagerType
  PROVE  LET r == FinishTurn(p)
         IN  /\ r \in PagerType /\ SameRows(p, r) /\ r.local = p.local /\ r.viewer = p.viewer
             /\ r.cur = None /\ r.state = "idle" /\ r.stash = p.stash /\ r.armed = p.armed
  BY DEF FinishTurn, SameRows, PagerType

\* apply_turn_start_shim shows the turn.
LEMMA TurnStartFields ==
  ASSUME NEW p \in PagerType, NEW id \in Prompts, NEW known \in BOOLEAN
  PROVE  LET r == TurnStartShim(p, id, known)
         IN  /\ r \in PagerType /\ SameRows(p, r) /\ r.local = p.local
             /\ r.cur = id /\ r.state = "running" /\ r.stash = p.stash /\ r.armed = p.armed
  BY DEF TurnStartShim, SameRows, PagerType, Ids

\* The end of the turn on screen leaves no turn, or the stashed one.
LEMMA HandOverFields ==
  ASSUME NEW p \in PagerType, NEW id
  PROVE  LET r == HandOver(p, id)
         IN  /\ r \in PagerType /\ SameRows(p, r) /\ r.local = p.local
             /\ r.stash = None /\ r.armed = p.armed
             /\ \/ r.cur = None /\ r.state = "idle"
                \/ /\ p.stash # None /\ p.stash.id # id
                   /\ r.cur = p.stash.id /\ r.state = "running"
<1> DEFINE f == FinishTurn(p)
           d == [f EXCEPT !.stash = None]
<1>1. /\ f \in PagerType /\ SameRows(p, f) /\ f.local = p.local /\ f.cur = None /\ f.state = "idle"
      /\ f.armed = p.armed
  BY FinishTurnFields
<1> HIDE DEF f
<1>2. /\ d \in PagerType /\ SameRows(p, d) /\ d.local = p.local /\ d.cur = None /\ d.state = "idle"
      /\ d.armed = p.armed /\ d.stash = None
  BY <1>1 DEF SameRows, PagerType
<1>3. HandOver(p, id) = IF p.stash # None /\ p.stash.id # id
                        THEN TurnStartShim(d, p.stash.id, p.stash.known)
                        ELSE [d EXCEPT !.fed = None]
  BY DEF HandOver, f
<1> HIDE DEF d
<1>4. CASE p.stash # None /\ p.stash.id # id
  <2>1. p.stash.id \in Prompts /\ p.stash.known \in BOOLEAN
    BY <1>4, PagerFields
  <2> DEFINE s == p.stash.id
             k == p.stash.known
             r == TurnStartShim(d, s, k)
  <2>2. s \in Prompts /\ k \in BOOLEAN
    BY <2>1
  <2> HIDE DEF s, k
  <2>3. /\ r \in PagerType /\ SameRows(d, r) /\ r.local = d.local
        /\ r.cur = s /\ r.state = "running" /\ r.stash = d.stash /\ r.armed = d.armed
    BY <1>2, <2>2, TurnStartFields
  <2>4. r = HandOver(p, id) /\ s = p.stash.id
    BY <1>3, <1>4 DEF s, k
  <2> HIDE DEF r
  <2> QED BY <1>2, <1>4, <2>3, <2>4 DEF SameRows
<1>5. CASE ~(p.stash # None /\ p.stash.id # id)
  <2> DEFINE r == [d EXCEPT !.fed = None]
  <2>1. /\ r \in PagerType /\ SameRows(d, r) /\ r.local = d.local
        /\ r.cur = d.cur /\ r.state = d.state /\ r.stash = d.stash /\ r.armed = d.armed
    BY <1>2 DEF SameRows, PagerType
  <2>2. r = HandOver(p, id)
    BY <1>3, <1>5
  <2> HIDE DEF r
  <2> QED BY <1>2, <2>1, <2>2 DEF SameRows
<1> QED BY <1>4, <1>5

\* maybe_drain_queue sends the oldest local prompt and shows it, or does nothing.
LEMMA DrainFields ==
  ASSUME NEW p \in PagerType
  PROVE  LET r == Drain(p)
         IN  /\ r \in PagerType /\ SameRows(p, r) /\ r.stash = p.stash /\ r.armed = p.armed
             /\ \/ /\ p.state = "idle" /\ p.local # <<>> /\ Head(p.local) \in Mine
                   /\ r.cur = Head(p.local) /\ r.state = "running" /\ r.local = Tail(p.local)
                   /\ SendDrained(p) = <<PromptCall(Head(p.local))>>
                \/ /\ r = p /\ SendDrained(p) = <<>>
<1>1. CASE Drains(p)
  <2>1. p.local \in Seq(Mine) /\ p.local # <<>> /\ p.state = "idle"
    BY <1>1, PagerFields DEF Drains
  <2>2. Head(p.local) \in Mine /\ Tail(p.local) \in Seq(Mine)
    BY <2>1, TailItems
  <2> DEFINE h == Head(p.local)
             t == Tail(p.local)
             r == [p EXCEPT !.cur = h, !.state = "running", !.viewer = FALSE, !.inFlight = TRUE, !.local = t]
  <2>3. Drain(p) = r /\ SendDrained(p) = <<PromptCall(Head(p.local))>>
    BY <1>1 DEF Drain, SendDrained
  <2>4. h \in Mine /\ h \in Ids /\ t \in Seq(Mine)
    BY <2>2 DEF Ids, Prompts
  <2> HIDE DEF h, t
  <2>5. /\ r \in PagerType /\ SameRows(p, r) /\ r.stash = p.stash /\ r.armed = p.armed
        /\ r.cur = h /\ r.state = "running" /\ r.local = t
    BY <2>4 DEF SameRows, PagerType
  <2> HIDE DEF r
  <2> QED BY <2>1, <2>2, <2>3, <2>5 DEF h, t
<1>2. CASE ~Drains(p)
  BY <1>2 DEF Drain, SendDrained, SameRows
<1> QED BY <1>1, <1>2

\* The rows and ids of a queue have their types.
LEMMA PinnedFields ==
  ASSUME NEW s \in Seq(Mine)
  PROVE  Pinned(s) \in Seq(RowType) /\ Len(Pinned(s)) = Len(s)
         /\ \A i \in 1..Len(s) : Pinned(s)[i] = Row(s[i], 0)
<1>1. \A x \in Mine : Row(x, 0) \in RowType
  BY DEF Row, RowType, Prompts
<1>2. \A i \in 1..Len(s) : Row(s[i], 0) \in RowType
  BY <1>1
<1> DEFINE F(i) == Row(s[i], 0)
<1>3. Pinned(s) = [i \in 1..Len(s) |-> F(i)] /\ \A i \in 1..Len(s) : F(i) \in RowType
  BY <1>2 DEF Pinned
<1> HIDE DEF F
<1>4. Pinned(s) \in Seq(RowType) /\ Len(Pinned(s)) = Len(s) /\ \A i \in 1..Len(s) : Pinned(s)[i] = F(i)
  BY <1>3
<1> QED BY <1>4 DEF F

\* build_queue_wire sends rows.
LEMMA RowsFields ==
  ASSUME NEW q \in Seq(Ids), NEW run, NEW ver \in [Prompts -> Nat]
  PROVE  /\ Rows(q, run, ver) \in Seq(RowType)
         /\ RowIds(Rows(q, run, ver)) = (ToSet(q) \cap Prompts) \ {run}
<1> DEFINE ids == Kept(q, Prompts \ {run})
           F(i) == Row(ids[i], ver[ids[i]])
           rows == Rows(q, run, ver)
<1>1. ids \in Seq(Ids) /\ ToSet(ids) = ToSet(q) \cap (Prompts \ {run})
  BY KeptFacts
<1>2. rows = [i \in 1..Len(ids) |-> F(i)]
  BY DEF Rows
<1> HIDE DEF ids, rows
<1>3. /\ \A i \in 1..Len(ids) : ids[i] \in ToSet(ids)
      /\ \A x \in ToSet(ids) : \E i \in 1..Len(ids) : x = ids[i]
  BY <1>1, Elements
<1>4. \A i \in 1..Len(ids) : F(i) \in RowType /\ F(i).id = ids[i]
  <2>1. \A x \in Prompts : Row(x, ver[x]) \in RowType /\ Row(x, ver[x]).id = x
    BY DEF Row, RowType
  <2> QED BY <1>1, <1>3, <2>1
<1> HIDE DEF F
<1>5. rows \in Seq(RowType) /\ Len(rows) = Len(ids) /\ \A i \in 1..Len(ids) : rows[i] = F(i)
  BY <1>1, <1>2, <1>4
<1>6. /\ \A i \in 1..Len(rows) : rows[i] \in ToSet(rows)
      /\ \A x \in ToSet(rows) : \E i \in 1..Len(rows) : x = rows[i]
  BY <1>5, Elements
<1>7. RowIds(rows) = ToSet(ids)
  <2>1. ASSUME NEW x \in RowIds(rows) PROVE x \in ToSet(ids)
    <3>1. PICK r \in ToSet(rows) : x = r.id
      BY <2>1 DEF RowIds
    <3>2. PICK i \in 1..Len(rows) : r = rows[i]
      BY <1>6
    <3> QED BY <1>3, <1>4, <1>5, <3>1, <3>2
  <2>2. ASSUME NEW x \in ToSet(ids) PROVE x \in RowIds(rows)
    <3>1. PICK i \in 1..Len(ids) : x = ids[i]
      BY <1>3
    <3>2. rows[i] \in ToSet(rows) /\ rows[i].id = x
      BY <1>4, <1>5, <1>6, <3>1
    <3> QED BY <3>2 DEF RowIds
  <2> QED BY <2>1, <2>2
<1>8. ToSet(ids) = (ToSet(q) \cap Prompts) \ {run}
  BY <1>1
<1> QED BY <1>5, <1>7, <1>8 DEF rows

\* A broadcast is an event that says what runs and what waits.
LEMMA ChangedFields ==
  ASSUME NEW q \in Seq(Ids), NEW run \in Ids \cup {None}, NEW ver \in [Prompts -> Nat]
  PROVE  LET m == Changed(q, run, ver)
         IN  /\ m \in EventType /\ m.kind = "changed" /\ m.running = run
             /\ m.rows = Rows(q, run, ver)
<1> DEFINE rows == Rows(q, run, ver)
<1>1. rows \in Seq(RowType)
  BY RowsFields
<1> HIDE DEF rows
<1>2. [kind |-> "changed", running |-> run, rows |-> rows] \in ChangedType
  BY <1>1 DEF ChangedType
<1> QED BY <1>2 DEF Changed, EventType, rows

\* Taking ids out of the rows leaves rows.
LEMMA WithoutFields ==
  ASSUME NEW rows \in Seq(RowType), NEW ids
  PROVE  /\ Without(rows, ids) \in Seq(RowType)
         /\ RowIds(rows) \cap ids = {} => Without(rows, ids) = rows
<1> DEFINE keep == {r \in ToSet(rows) : r.id \notin ids}
<1>1. Without(rows, ids) = Kept(rows, keep)
  BY DEF Without
<1>2. Kept(rows, keep) \in Seq(RowType)
  BY KeptFacts
<1>3. RowIds(rows) \cap ids = {} => ToSet(rows) \subseteq keep
  BY DEF RowIds
<1> HIDE DEF keep
<1>4. ToSet(rows) \subseteq keep => Kept(rows, keep) = rows
  BY KeptAll
<1> QED BY <1>1, <1>2, <1>3, <1>4

\* Arming or disarming the reconcile touches nothing else.
LEMMA ArmFields ==
  ASSUME NEW p \in PagerType, NEW x \in Prompts \cup {None}
  PROVE  LET r == [p EXCEPT !.armed = x]
         IN  /\ r \in PagerType /\ SameRows(p, r) /\ r.local = p.local /\ r.armed = x
             /\ r.cur = p.cur /\ r.state = p.state /\ r.stash = p.stash
  BY DEF SameRows, PagerType

\* AppView::apply_queue_changed: the broadcast's rows and the echoes it does not show.
LEMMA ApplyFields ==
  ASSUME NEW p \in PagerType, NEW m \in ChangedType
  PROVE  LET r == ApplyQueueChanged(p, m)
         IN  /\ r \in PagerType /\ r.local = p.local /\ r.armed = p.armed
             /\ r.cur = p.cur /\ r.state = p.state /\ r.stash = p.stash
             /\ r.shared = m.rows \o Pinned(r.echoes) /\ r.mirror = r.shared
             /\ ToSet(r.echoes) \subseteq ToSet(p.echoes) \ RowIds(m.rows)
<1> DEFINE keep == {e \in Mine : ~EchoRetired(p, m, e)}
           kept == Kept(p.echoes, keep)
           rows == m.rows \o Pinned(kept)
           r == [p EXCEPT !.echoes = kept, !.shared = rows, !.mirror = rows]
<1>1. r = ApplyQueueChanged(p, m)
  BY DEF ApplyQueueChanged
<1>2. m.rows \in Seq(RowType) /\ p.echoes \in Seq(Mine)
  BY PagerFields DEF ChangedType
<1>3. \A e \in keep : e \notin RowIds(m.rows)
  BY DEF EchoRetired
<1>4. kept \in Seq(Mine) /\ ToSet(kept) = ToSet(p.echoes) \cap keep
  BY <1>2, KeptFacts
<1> HIDE DEF keep, kept
<1>5. rows \in Seq(RowType)
  <2>1. Pinned(kept) \in Seq(RowType)
    BY <1>4, PinnedFields
  <2> QED BY <1>2, <2>1
<1>6. rows = m.rows \o Pinned(kept)
  OBVIOUS
<1> HIDE DEF rows
<1>7. /\ r \in PagerType /\ r.local = p.local /\ r.armed = p.armed
      /\ r.cur = p.cur /\ r.state = p.state /\ r.stash = p.stash
      /\ r.shared = rows /\ r.mirror = rows /\ r.echoes = kept
  BY <1>4, <1>5 DEF PagerType
<1> HIDE DEF r
<1>8. ToSet(kept) \subseteq ToSet(p.echoes) \ RowIds(m.rows)
  BY <1>3, <1>4
<1> QED BY <1>1, <1>6, <1>7, <1>8

\* handle_queue_changed without a running prompt keeps the stash or drops it.
LEMMA SpendFields ==
  ASSUME NEW p \in PagerType
  PROVE  LET r == SpendStash(p)
         IN  /\ r \in PagerType /\ SameRows(p, r) /\ r.local = p.local /\ r.armed = p.armed
             /\ r.cur = p.cur /\ r.state = p.state
             /\ r.stash # None => p.stash # None /\ r.stash.id = p.stash.id
<1>1. CASE p.stash # None /\ ~p.stash.ended
  <2> DEFINE s == [p.stash EXCEPT !.ended = TRUE]
             r == [p EXCEPT !.stash = s]
  <2>1. s \in StashType /\ s.id = p.stash.id
    BY <1>1, PagerFields DEF StashType
  <2>2. SpendStash(p) = r
    BY <1>1 DEF SpendStash
  <2> HIDE DEF s
  <2>3. /\ r \in PagerType /\ SameRows(p, r) /\ r.local = p.local /\ r.armed = p.armed
        /\ r.cur = p.cur /\ r.state = p.state /\ r.stash = s
    BY <2>1 DEF SameRows, PagerType
  <2> HIDE DEF r
  <2> QED BY <1>1, <2>1, <2>2, <2>3
<1>2. CASE ~(p.stash # None /\ ~p.stash.ended)
  <2> DEFINE r == [p EXCEPT !.stash = None, !.fed = None]
  <2>1. SpendStash(p) = r
    BY <1>2 DEF SpendStash
  <2>2. /\ r \in PagerType /\ SameRows(p, r) /\ r.local = p.local /\ r.armed = p.armed
        /\ r.cur = p.cur /\ r.state = p.state /\ r.stash = None
    BY DEF SameRows, PagerType
  <2> HIDE DEF r
  <2> QED BY <2>1, <2>2
<1> QED BY <1>1, <1>2

\* handle_queue_changed with a running prompt shows it, stashes it or does nothing.
LEMMA AdoptFields ==
  ASSUME NEW p \in PagerType, NEW id \in Ids, NEW known \in BOOLEAN
  PROVE  LET r == AdoptRunning(p, id, known)
         IN  /\ r \in PagerType /\ SameRows(p, r) /\ r.local = p.local /\ r.armed = p.armed
             /\ \/ r.cur = p.cur /\ r.state = p.state
                \/ id \in Prompts /\ r.cur = id /\ r.state = "running"
             /\ r.stash # None => \/ r.stash = p.stash
                                  \/ id \in Prompts /\ r.stash.id = id
<1>0. id \in Prompts \/ id \in Wakes
  BY DEF Ids
<1>1. id # None /\ ~(id \in Prompts /\ id \in Wakes)
  BY ClientTurnsAssumption
<1>2. CASE id \in Wakes \cup {p.cur}
  <2>1. AdoptRunning(p, id, known) = p
    BY <1>1, <1>2 DEF AdoptRunning
  <2> QED BY <2>1 DEF SameRows
<1>3. CASE id \notin Wakes \cup {p.cur} /\ p.cur = None
  <2> DEFINE r == TurnStartShim(p, id, known)
  <2>1. AdoptRunning(p, id, known) = r /\ id \in Prompts
    BY <1>0, <1>1, <1>3 DEF AdoptRunning
  <2>2. /\ r \in PagerType /\ SameRows(p, r) /\ r.local = p.local
        /\ r.cur = id /\ r.state = "running" /\ r.stash = p.stash /\ r.armed = p.armed
    BY <2>1, TurnStartFields
  <2> HIDE DEF r
  <2> QED BY <2>1, <2>2
<1>4. CASE id \notin Wakes \cup {p.cur} /\ p.cur # None
  <2> DEFINE s == [id |-> id, known |-> known, ended |-> FALSE]
             r == [p EXCEPT !.fed = None, !.stash = s]
  <2>1. /\ id \in Prompts
        /\ AdoptRunning(p, id, known) = IF p.stash # None /\ p.stash.id = id THEN p ELSE r
    BY <1>0, <1>1, <1>4 DEF AdoptRunning
  <2>2. s \in StashType /\ s.id = id
    BY <2>1 DEF StashType
  <2> HIDE DEF s
  <2>3. /\ r \in PagerType /\ SameRows(p, r) /\ r.local = p.local
        /\ r.cur = p.cur /\ r.state = p.state /\ r.stash = s /\ r.armed = p.armed
    BY <2>2 DEF SameRows, PagerType
  <2>4. SameRows(p, p)
    BY DEF SameRows
  <2> HIDE DEF r
  <2> QED BY <2>1, <2>2, <2>3, <2>4
<1> QED BY <1>2, <1>3, <1>4

\* handle_queue_changed, together.
LEMMA QueueChangedFields ==
  ASSUME NEW p \in PagerType, NEW m \in ChangedType
  PROVE  LET r == HandleQueueChanged(p, m)
         IN  /\ r \in PagerType /\ r.local = p.local /\ r.armed = p.armed
             /\ r.shared = m.rows \o Pinned(r.echoes) /\ r.mirror = r.shared
             /\ ToSet(r.echoes) \subseteq ToSet(p.echoes) \ RowIds(m.rows)
             /\ \/ r.cur = p.cur /\ r.state = p.state
                \/ m.running \in Prompts /\ r.cur = m.running /\ r.state = "running"
             /\ r.stash # None => \/ p.stash # None /\ r.stash.id = p.stash.id
                                  \/ m.running \in Prompts /\ r.stash.id = m.running
<1> DEFINE q == ApplyQueueChanged(p, m)
           known == m.running \in RowIds(p.shared)
<1>1. /\ q \in PagerType /\ q.local = p.local /\ q.armed = p.armed
      /\ q.cur = p.cur /\ q.state = p.state /\ q.stash = p.stash
      /\ q.shared = m.rows \o Pinned(q.echoes) /\ q.mirror = q.shared
      /\ ToSet(q.echoes) \subseteq ToSet(p.echoes) \ RowIds(m.rows)
  BY ApplyFields
<1>2. HandleQueueChanged(p, m) = IF m.running = None THEN SpendStash(q) ELSE AdoptRunning(q, m.running, known)
  BY DEF HandleQueueChanged
<1>3. m.running \in Ids \cup {None} /\ known \in BOOLEAN
  BY DEF ChangedType
<1> HIDE DEF q, known
<1>4. CASE m.running = None
  <2> DEFINE r == SpendStash(q)
  <2>1. /\ r \in PagerType /\ SameRows(q, r) /\ r.local = q.local /\ r.armed = q.armed
        /\ r.cur = q.cur /\ r.state = q.state
        /\ r.stash # None => q.stash # None /\ r.stash.id = q.stash.id
    BY <1>1, SpendFields
  <2>2. HandleQueueChanged(p, m) = r
    BY <1>2, <1>4
  <2> HIDE DEF r
  <2> QED BY <1>1, <2>1, <2>2 DEF SameRows
<1>5. CASE m.running # None
  <2> DEFINE id == m.running
             r == AdoptRunning(q, id, known)
  <2>1. id \in Ids
    BY <1>3, <1>5
  <2> HIDE DEF id
  <2>2. /\ r \in PagerType /\ SameRows(q, r) /\ r.local = q.local /\ r.armed = q.armed
        /\ \/ r.cur = q.cur /\ r.state = q.state
           \/ id \in Prompts /\ r.cur = id /\ r.state = "running"
        /\ r.stash # None => \/ r.stash = q.stash
                             \/ id \in Prompts /\ r.stash.id = id
    BY <1>1, <1>3, <2>1, AdoptFields
  <2>3. HandleQueueChanged(p, m) = r /\ id = m.running
    BY <1>2, <1>5 DEF id
  <2> HIDE DEF r
  <2> QED BY <1>1, <2>2, <2>3 DEF SameRows
<1> QED BY <1>4, <1>5

\* finalize_turn_from_terminal: the driver arms the reconcile, a viewer finishes
\* the turn it shows.
LEMMA FinalizeFields ==
  ASSUME NEW p \in PagerType, NEW id \in Prompts
  PROVE  LET r == Finalize(p, id)
         IN  /\ r \in PagerType /\ SameRows(p, r) /\ r.local = p.local
             /\ \/ /\ ~p.viewer /\ p.state # "idle" /\ p.cur = id /\ p.armed \in {None, id}
                   /\ r.armed = id /\ r.cur = p.cur /\ r.state = p.state /\ r.stash = p.stash
                \/ /\ r.cur = None /\ r.state = "idle" /\ r.stash = None /\ r.armed = p.armed
                \/ /\ r = p
                   /\ ~p.viewer => ~(p.state # "idle" /\ p.cur = id /\ p.armed \in {None, id})
                   /\ p.viewer => p.state = "idle"
<1>1. CASE ~p.viewer /\ ArmsReconcile(p, id)
  <2> DEFINE r == [p EXCEPT !.armed = id]
  <2>1. /\ r \in PagerType /\ SameRows(p, r) /\ r.local = p.local /\ r.armed = id
        /\ r.cur = p.cur /\ r.state = p.state /\ r.stash = p.stash
    BY ArmFields
  <2>2. Finalize(p, id) = r
    BY <1>1 DEF Finalize
  <2> HIDE DEF r
  <2> QED BY <1>1, <2>1, <2>2 DEF ArmsReconcile
<1>2. CASE p.viewer /\ (p.state # "idle" \/ p.cur # None)
  <2> DEFINE f == FinishTurn(p)
             r == [f EXCEPT !.stash = None, !.fed = None]
  <2>1. /\ f \in PagerType /\ SameRows(p, f) /\ f.local = p.local
        /\ f.cur = None /\ f.state = "idle" /\ f.armed = p.armed
    BY FinishTurnFields
  <2>2. Finalize(p, id) = r
    BY <1>2 DEF Finalize
  <2> HIDE DEF f
  <2>3. /\ r \in PagerType /\ SameRows(f, r) /\ r.local = f.local
        /\ r.cur = f.cur /\ r.state = f.state /\ r.armed = f.armed /\ r.stash = None
    BY ZenonT(60), <2>1 DEF SameRows, PagerType
  <2> HIDE DEF r
  <2> QED BY <2>1, <2>2, <2>3 DEF SameRows
<1>3. CASE /\ ~(~p.viewer /\ ArmsReconcile(p, id))
           /\ ~(p.viewer /\ (p.state # "idle" \/ p.cur # None))
  <2>1. Finalize(p, id) = p
    BY <1>3 DEF Finalize
  <2> QED BY <1>3, <2>1 DEF ArmsReconcile, SameRows
<1> QED BY <1>1, <1>2, <1>3

\* A delta is shown only when its turn is on screen or another client's.
LEMMA UpdateFields ==
  ASSUME NEW p \in PagerType, NEW id \in Ids
  PROVE  LET r == HandleUpdate(p, id)
         IN  /\ r \in PagerType /\ SameRows(p, r) /\ r.local = p.local
             /\ r.stash = p.stash /\ r.armed = p.armed
             /\ \/ r.cur = p.cur /\ r.state \in {p.state, "running"}
                \/ r.cur = id /\ id \notin Mine /\ (id \in Prompts => r.state = "running")
<1> DEFINE q == IF p.cur # id /\ id \in Prompts THEN [p EXCEPT !.viewer = id \notin Mine] ELSE p
<1>1. /\ q \in PagerType /\ SameRows(p, q) /\ q.local = p.local /\ q.stash = p.stash
      /\ q.armed = p.armed /\ q.cur = p.cur /\ q.state = p.state
      /\ p.cur # id /\ id \in Prompts => q.viewer = (id \notin Mine)
  BY DEF SameRows, PagerType
<1>2. id \in Wakes => id \notin Mine
  BY ClientTurnsAssumption DEF Prompts
<1>3. id \in Prompts \/ id \in Wakes
  BY DEF Ids
<1> DEFINE foreign == q.cur # id /\ ~q.viewer
           cur == IF q.viewer THEN id ELSE q.cur
           state == IF q.viewer /\ cur \in Prompts THEN "running" ELSE q.state
           a == [q EXCEPT !.fed = id]
           b == [q EXCEPT !.cur = cur, !.inFlight = FALSE, !.state = state]
<1>4. \/ HandleUpdate(p, id) = a
      \/ HandleUpdate(p, id) = q
      \/ HandleUpdate(p, id) = b
  BY Zenon DEF HandleUpdate
<1> HIDE DEF q
<1>5. /\ a \in PagerType /\ SameRows(q, a) /\ a.local = q.local /\ a.stash = q.stash
      /\ a.armed = q.armed /\ a.cur = q.cur /\ a.state = q.state
  BY <1>1 DEF SameRows, PagerType
<1>6. cur \in Ids \cup {None} /\ state \in {"idle", "running", "cancelling"} /\ state \in {q.state, "running"}
  BY <1>1, PagerFields
<1>7. \/ cur = q.cur
      \/ cur = id /\ id \notin Mine /\ (id \in Prompts => state = "running")
  BY <1>1, <1>2, <1>3
<1> HIDE DEF cur, state
<1>8. /\ b \in PagerType /\ SameRows(q, b) /\ b.local = q.local /\ b.stash = q.stash
      /\ b.armed = q.armed /\ b.cur = cur /\ b.state = state
  BY <1>1, <1>6 DEF SameRows, PagerType
<1> HIDE DEF a, b
<1>9. CASE HandleUpdate(p, id) = a
  BY <1>1, <1>5, <1>9 DEF SameRows
<1>10. CASE HandleUpdate(p, id) = q
  BY <1>1, <1>10 DEF SameRows
<1>11. CASE HandleUpdate(p, id) = b
  BY <1>1, <1>6, <1>7, <1>8, <1>11 DEF SameRows
<1> QED BY <1>4, <1>9, <1>10, <1>11

\* The response to a turn the pager does not show retires what it held of it.
LEMMA ForeignFields ==
  ASSUME NEW p \in PagerType, NEW id \in Mine
  PROVE  LET r == ForeignResponse(p, id)
         IN  /\ r \in PagerType /\ r.local = p.local /\ r.armed = p.armed
             /\ r.cur = p.cur /\ r.state = p.state
             /\ r.stash # None => r.stash = p.stash /\ p.stash.id # id
             /\ r.echoes = Kept(p.echoes, Mine \ {id})
             /\ r.shared = Without(p.shared, {id}) /\ r.mirror = Without(p.mirror, {id})
<1> DEFINE own == p.stash # None /\ p.stash.id = id
           stash == IF own THEN None ELSE p.stash
           fed == IF own THEN None ELSE p.fed
           echoes == Kept(p.echoes, Mine \ {id})
           shared == Without(p.shared, {id})
           mirror == Without(p.mirror, {id})
           r == [p EXCEPT !.stash = stash, !.fed = fed, !.echoes = echoes, !.shared = shared, !.mirror = mirror]
<1>1. ForeignResponse(p, id) = r
  BY DEF ForeignResponse
<1>2. p.shared \in Seq(RowType) /\ p.mirror \in Seq(RowType) /\ p.echoes \in Seq(Mine)
  BY PagerFields
<1>3. echoes \in Seq(Mine) /\ shared \in Seq(RowType) /\ mirror \in Seq(RowType)
  BY <1>2, KeptFacts, WithoutFields
<1>4. stash \in StashType \cup {None} /\ fed \in Ids \cup {None}
      /\ (stash # None => stash = p.stash /\ p.stash.id # id)
  BY PagerFields
<1> HIDE DEF stash, fed, echoes, shared, mirror
<1>5. /\ r \in PagerType /\ r.local = p.local /\ r.armed = p.armed /\ r.cur = p.cur /\ r.state = p.state
      /\ r.stash = stash /\ r.echoes = echoes /\ r.shared = shared /\ r.mirror = mirror
  BY <1>3, <1>4 DEF PagerType
<1> HIDE DEF r
<1> QED BY <1>1, <1>4, <1>5 DEF echoes, shared, mirror

-----------------------------------------------------------------------------
(* What a step of the shell does, as far as the pager and the wire see it. *)

\* A message the shell may send now: a broadcast names no turn that is over,
\* and the prompt it names runs; a response closes its call.
Proper(m) ==
    /\ m.kind = "changed" =>
          \/ m.running = None
          \/ rpc[m.running] # "gone" /\ m.running = running'
    /\ m.kind = "response" => rpc'[m.id] = "gone"
Sends ==
    \/ events' = events
    \/ \E m \in EventType : Proper(m) /\ events' = Append(events, m)
    \/ \E m, n \in EventType :
          /\ Proper(m) /\ m.kind # "response" /\ Proper(n) /\ n.kind = "changed"
          /\ events' = Append(Append(events, m), n)

\* The pager is told of the rows, or there is nothing to tell.
Broadcasts == ~Silent(events') /\ Current(events', Rows(queue', running', version'))
Muted ==
    /\ Rows(queue', running', version') = Rows(queue, running, version)
    /\ removes' = removes /\ (Silent(events') => Silent(events))
    /\ \A rows : Current(events, rows) => Current(events', rows)

\* The ways of a prompt through MvpAgent::prompt.
Moves(id) ==
    \/ rpc'[id] = rpc[id]
    \/ rpc[id] = "new" /\ rpc'[id] = "waiting"
    \/ rpc[id] = "waiting" /\ rpc'[id] = "announce"
    \/ rpc[id] = "waiting" /\ rpc'[id] = "removed" /\ id # running
    \/ rpc[id] = "waiting" /\ rpc'[id] = "gone" /\ id \notin Mine /\ (id = running => id \in Wakes)
    \/ rpc[id] = "announce" /\ rpc'[id] = "answer" /\ Complete(id) \in ToSet(events')
    \/ rpc[id] = "announce" /\ rpc'[id] = "gone" /\ id \notin Mine /\ Complete(id) \in ToSet(events')
    \/ rpc[id] \in {"answer", "removed"} /\ rpc'[id] = "gone" /\ Response(id) \in ToSet(events')
    \/ /\ rpc[id] \in {"answer", "removed"} /\ rpc'[id] = "gone"
       /\ id \in lost' /\ (rpc[id] = "removed" => id \in missed')

\* The pager's calls: nothing taken, a cancel, or a prompt that is now queued.
NewsKept == \A id \in Mine : rpc'[id] = "new" <=> rpc[id] = "new"
Takes ==
    \/ calls' = calls /\ NewsKept
    \/ calls # <<>> /\ Head(calls).kind = "cancel" /\ calls' = Tail(calls) /\ NewsKept
    \/ /\ calls # <<>> /\ Head(calls).kind = "prompt" /\ calls' = Tail(calls)
       /\ \A id \in Mine : rpc'[id] = "new" <=> rpc[id] = "new" /\ id # Head(calls).id
       /\ Shows(events', Head(calls).id)

ShellEffect ==
    /\ TypeOK' /\ Shell'
    /\ pager' = pager /\ typed' = typed /\ answers' = answers
    /\ lost \subseteq lost' /\ missed \subseteq missed'
    /\ Sends /\ (Broadcasts \/ Muted) /\ Takes /\ \A id \in Ids : Moves(id)
    /\ running # None => running' = running \/ rpc'[running] # "waiting"
    /\ \/ updates' = updates
       \/ running # None /\ running' = running /\ rpc' = rpc /\ updates' = Append(updates, running)
    /\ \/ ending = None \/ ending' = ending \/ ~ending.terminal
       \/ Terminal(ending.id) \in ToSet(events')

\* A prompt still to be handed over is new to the shell, and not on its way twice.
LEMMA NotHandedOver ==
  ASSUME TypeOK, Order
  PROVE  /\ \A id \in Mine : PromptCall(id) \in ToSet(calls) => rpc[id] = "new"
         /\ \A i \in 1..Len(pager.local) :
               rpc[pager.local[i]] = "new" /\ PromptCall(pager.local[i]) \notin ToSet(calls)
<1> DEFINE s == Sent(calls)
           l == pager.local
           K == {PromptCall(id) : id \in Mine}
<1>1. /\ typed \in Seq(Mine) /\ calls \in Seq(CallType) /\ l \in Seq(Mine)
  BY PagerFields DEF TypeOK
<1>2. s \in Seq(CallType) /\ ToSet(s) = ToSet(calls) \cap K
  BY <1>1, KeptFacts DEF Sent
<1>3. /\ Distinct(typed)
      /\ \E n \in 0..Len(typed) : HandedOver(n, typed, rpc) /\ InTypedOrder(n, typed, s, l)
  BY DEF Order
<1> HIDE DEF s, l
<1>4. PICK n \in 0..Len(typed) : HandedOver(n, typed, rpc) /\ InTypedOrder(n, typed, s, l)
  BY <1>3
<1>5. /\ Len(s) \in Nat /\ Len(l) \in Nat /\ Len(typed) \in Nat /\ n \in Nat
      /\ n + Len(s) + Len(l) = Len(typed) /\ DOMAIN typed = 1..Len(typed)
      /\ \A k \in 1..Len(typed) : typed[k] \in Mine
  BY <1>1, <1>2, <1>4 DEF InTypedOrder
<1>6. ASSUME NEW id \in Mine, PromptCall(id) \in ToSet(calls)
      PROVE  \E i \in 1..Len(s) : id = typed[n + i]
  <2>1. PromptCall(id) \in ToSet(s)
    BY <1>2, <1>6
  <2>2. PICK i \in 1..Len(s) : PromptCall(id) = s[i]
    BY <1>2, <2>1, Elements
  <2>3. s[i] = PromptCall(typed[n + i]) /\ n + i \in 1..Len(typed)
    BY <1>4, <1>5 DEF InTypedOrder
  <2>4. id = typed[n + i]
    BY <1>5, <2>2, <2>3, CallTypes
  <2> QED BY <2>4
<1>7. ASSUME NEW k \in 1..Len(typed), k > n PROVE rpc[typed[k]] = "new"
  <2>1. ASSUME NEW i \in 1..n PROVE typed[k] # typed[i]
    BY <1>3, <1>5, <1>7 DEF Distinct
  <2> QED BY <1>4, <1>5, <2>1 DEF HandedOver
<1>8. ASSUME NEW id \in Mine, PromptCall(id) \in ToSet(calls) PROVE rpc[id] = "new"
  <2>1. PICK i \in 1..Len(s) : id = typed[n + i]
    BY <1>6, <1>8
  <2>2. n + i \in 1..Len(typed) /\ n + i > n
    BY <1>5
  <2> QED BY <1>7, <2>1, <2>2
<1>9. ASSUME NEW i \in 1..Len(l) PROVE rpc[l[i]] = "new" /\ PromptCall(l[i]) \notin ToSet(calls)
  <2> DEFINE k == n + Len(s) + i
  <2>1. k \in 1..Len(typed) /\ k > n
    BY <1>5
  <2>2. l[i] = typed[k]
    BY <1>4 DEF InTypedOrder
  <2>3. rpc[typed[k]] = "new"
    BY <1>7, <2>1
  <2>4. ASSUME PromptCall(typed[k]) \in ToSet(calls) PROVE FALSE
    <3>1. PICK j \in 1..Len(s) : typed[k] = typed[n + j]
      BY <1>5, <1>6, <2>1, <2>4
    <3>2. n + j \in 1..Len(typed) /\ n + j # k
      BY <1>5
    <3> QED BY <1>3, <1>5, <2>1, <3>1, <3>2 DEF Distinct
  <2> QED BY <2>2, <2>3, <2>4
<1> QED BY <1>8, <1>9 DEF l

\* The order a client asks for names each prompt once.
LEMMA OrderFields ==
  ASSUME NEW order \in SetToSeqs(Prompts)
  PROVE  order \in Seq(Ids) /\ Distinct(order)
<1>1. Cardinality(Prompts) \in Nat
  <2>1. IsFiniteSet(Prompts)
    BY ClientTurnsAssumption, FS_Subset DEF Ids
  <2> QED BY <2>1, FS_CardinalityType
<1> DEFINE n == Cardinality(Prompts)
<1>2. order \in [1..n -> Prompts] /\ \A i, j \in 1..n : i # j => order[i] # order[j]
  BY DEF SetToSeqs
<1> HIDE DEF n
<1>3. n \in Nat
  BY <1>1 DEF n
<1>4. order \in Seq(Prompts) /\ DOMAIN order = 1..n
  BY <1>2, <1>3
<1>5. Distinct(order)
  BY <1>2, <1>4 DEF Distinct
<1>6. order \in Seq(Ids)
  BY <1>4 DEF Ids
<1> QED BY <1>5, <1>6

\* maybe_start_running_task: the running prompt goes on, or the front one starts
\* and the pager is told.
LEMMA StartNextFields ==
  ASSUME TypeOK, NEW q \in Seq(Ids), NEW run \in Ids \cup {None}, NEW out \in Seq(EventType),
         StartNext(q, run, out)
  PROVE  /\ queue' = q /\ deltas' \in Nat
         /\ run = None /\ q # <<>> =>
               /\ running' = Head(q) /\ Head(q) \in Ids /\ FrontIs(q, running')
               /\ events' = Append(events \o out, Changed(q, Head(q), version))
         /\ ~(run = None /\ q # <<>>) => running' = run /\ events' = events \o out
<1>1. events \in Seq(EventType) /\ deltas \in Nat /\ version \in [Prompts -> Nat]
  BY DEF TypeOK
<1>2. events \o out \in Seq(EventType)
  BY <1>1
<1>3. queue' = q /\ deltas' \in Nat
  BY <1>1 DEF StartNext
<1>4. CASE run = None /\ q # <<>>
  <2> DEFINE h == Head(q)
             m == Changed(q, h, version)
             e == events \o out
  <2>1. h \in Ids /\ FrontIs(q, h)
    BY <1>4 DEF FrontIs
  <2>2. running' = h /\ events' = events \o out \o <<m>>
    BY <1>4 DEF StartNext
  <2>3. m \in EventType
    BY <1>1, <2>1, ChangedFields
  <2>4. e \in Seq(EventType)
    BY <1>2
  <2> HIDE DEF m, h, e
  <2>5. e \o <<m>> = Append(e, m)
    BY <2>3, <2>4
  <2> QED BY <1>3, <1>4, <2>1, <2>2, <2>5 DEF e, m, h
<1>5. CASE ~(run = None /\ q # <<>>)
  <2>1. running' = run /\ events' = events \o out \o <<>>
    BY <1>5 DEF StartNext
  <2> DEFINE e == events \o out
  <2>2. e \in Seq(EventType)
    BY <1>2
  <2> HIDE DEF e
  <2>3. e \o <<>> = e
    BY <2>2
  <2> QED BY <1>3, <1>5, <2>1, <2>3 DEF e
<1> QED BY <1>4, <1>5

\* Popping the running turn's slot does not change the rows on the wire.
LEMMA RowsPop ==
  ASSUME NEW q \in Seq(Ids), NEW run \in Ids, NEW ver, Distinct(q), FrontIs(q, run)
  PROVE  Rows(Tail(q), None, ver) = Rows(q, run, ver)
<1>1. q # <<>> /\ Head(q) = run
  BY DEF FrontIs
<1>2. Tail(q) \in Seq(Ids) /\ ToSet(Tail(q)) = ToSet(q) \ {run} /\ ToSet(q) \subseteq Ids
  BY <1>1, TailFacts, Elements
<1> DEFINE K == Prompts \ {run}
           J == Prompts \ {None}
           t == Tail(q)
<1>3. Kept(t, K) = Kept(q, K)
  <2>1. Head(q) \notin K
    BY <1>1
  <2> HIDE DEF K
  <2> QED BY <1>1, <2>1, KeptTail
<1>4. \A x \in ToSet(t) : x \in K <=> x \in J
  BY <1>2, ClientTurnsAssumption
<1> HIDE DEF K, J, t
<1>5. Kept(t, K) = Kept(t, J)
  BY <1>2, <1>4, KeptSame DEF t
<1>6. Kept(Tail(q), Prompts \ {None}) = Kept(q, Prompts \ {run})
  BY <1>3, <1>5 DEF K, J, t
<1> QED BY <1>6 DEF Rows

\* SessionCommand::Prompt: the prompt is queued, the pager told, and a waiting
\* prompt started when none runs.
LEMMA QueueInputEffect ==
  ASSUME TypeOK, Shell, NEW id \in Ids, rpc[id] = "new", QueueInput(id)
  PROVE  /\ queue' \in Seq(Ids) /\ running' \in Ids \cup {None} /\ deltas' \in Nat
         /\ events' \in Seq(EventType)
         /\ rpc' = [rpc EXCEPT ![id] = "waiting"] /\ ending' = ending /\ version' = version
         /\ ending = None => Shell'
         /\ Sends /\ Broadcasts
         /\ running # None => running' = running
         /\ id \in Prompts => Shows(events', id)
<1> DEFINE drop == IF id \in Wakes THEN {} ELSE Wakes
           w == Sweep(queue, running, drop)
           q == Append(w, id)
           m == Changed(q, running, version)
           out == <<m>>
<1>1. /\ queue \in Seq(Ids) /\ running \in Ids \cup {None} /\ version \in [Prompts -> Nat]
      /\ events \in Seq(EventType)
      /\ rpc \in [Ids -> {"new", "waiting", "announce", "answer", "removed", "gone"}]
  BY DEF TypeOK
<1>2. StartNext(q, running, out) /\ rpc' = [rpc EXCEPT ![id] = "waiting"]
      /\ ending' = ending /\ version' = version
  BY DEF QueueInput
<1>3. /\ w \in Seq(Ids) /\ ToSet(queue) \ ToSet(w) \subseteq drop /\ ToSet(w) \subseteq ToSet(queue)
      /\ FrontIs(queue, running) => FrontIs(w, running)
  BY <1>1, SweepFacts
<1>4. Distinct(w)
  BY <1>1, KeptDistinct DEF Shell, Sweep
<1>5. id \notin ToSet(queue) /\ drop \subseteq Wakes
  BY DEF Shell
<1>6. id # None /\ None \notin Ids /\ Prompts \cap Wakes = {}
  BY ClientTurnsAssumption
<1> HIDE DEF w, drop
<1>7. /\ q \in Seq(Ids) /\ ToSet(q) = ToSet(w) \cup {id} /\ Distinct(q) /\ q # <<>>
      /\ FrontIs(w, running) => FrontIs(q, running)
  <2>1. q \in Seq(Ids) /\ ToSet(q) = ToSet(w) \cup {id} /\ Distinct(q)
    BY <1>3, <1>4, <1>5, AppendFacts
  <2>2. q # <<>> /\ (w # <<>> => Head(q) = Head(w))
    BY <1>3
  <2>3. FrontIs(w, running) => FrontIs(q, running)
    BY <2>2 DEF FrontIs
  <2> QED BY <2>1, <2>2, <2>3
<1> HIDE DEF q
<1>8. m \in EventType /\ m.kind = "changed" /\ m.running = running /\ m.rows = Rows(q, running, version)
  BY <1>1, <1>7, ChangedFields
<1> HIDE DEF m
<1>9. /\ queue' = q /\ deltas' \in Nat
      /\ running = None => /\ running' = Head(q) /\ Head(q) \in Ids /\ FrontIs(q, running')
                           /\ events' = Append(events \o out, Changed(q, Head(q), version))
      /\ running # None => running' = running /\ events' = events \o out
  <2>1. out \in Seq(EventType)
    BY <1>8
  <2> HIDE DEF out
  <2> QED BY <1>1, <1>2, <1>7, <2>1, StartNextFields
<1> DEFINE e == Append(events, m)
<1>10. events \o out = e
  BY <1>1, <1>8
<1>11. e \in Seq(EventType) /\ ~Silent(e) /\ Current(e, Rows(q, running, version)) /\ m \in ToSet(e)
  BY <1>1, <1>8, EventsAppend
<1> HIDE DEF e, out
<1>12. \A x \in ToSet(q) : rpc'[x] = "waiting"
  BY <1>1, <1>2, <1>3, <1>7, Elements DEF Shell
<1>13. running # None => rpc[running] = "waiting" /\ FrontIs(q, running)
  <2> SUFFICES ASSUME running # None PROVE rpc[running] = "waiting" /\ FrontIs(q, running)
    OBVIOUS
  <2>1. FrontIs(queue, running)
    BY DEF Shell
  <2>2. running \in ToSet(queue)
    BY <1>1, <2>1, TailItems DEF FrontIs
  <2> QED BY <1>3, <1>7, <2>1, <2>2 DEF Shell
<1>14. running # id
  BY <1>6, <1>13
<1>15. id \in Prompts => id \in RowIds(m.rows)
  <2>1. RowIds(Rows(q, running, version)) = (ToSet(q) \cap Prompts) \ {running}
    BY <1>1, <1>7, RowsFields
  <2> QED BY <1>7, <1>8, <1>14, <2>1
<1>16. CASE running = None
  <2> DEFINE h == Head(q)
             n == Changed(q, h, version)
  <2>1. h \in Ids /\ running' = h /\ FrontIs(q, h) /\ events' = Append(e, n)
    BY <1>9, <1>10, <1>16
  <2> HIDE DEF h
  <2>2. n \in EventType /\ n.kind = "changed" /\ n.running = h /\ n.rows = Rows(q, h, version)
    BY <1>1, <1>7, <2>1, ChangedFields
  <2> HIDE DEF n
  <2>3. /\ events' \in Seq(EventType) /\ ~Silent(events') /\ Current(events', Rows(q, h, version))
        /\ ToSet(events') = ToSet(e) \cup {n}
    BY <1>11, <2>1, <2>2, EventsAppend
  <2>4. rpc[h] # "gone"
    <3>1. h \in ToSet(q)
      BY <1>7, <2>1, Elements DEF FrontIs
    <3> QED BY <1>1, <1>2, <1>12, <2>1, <3>1
  <2>5. Proper(m) /\ Proper(n)
    BY <1>8, <1>16, <2>1, <2>2, <2>4 DEF Proper
  <2>6. Sends
    BY <1>8, <2>1, <2>2, <2>5 DEF Sends, e
  <2>7. Broadcasts
    BY <1>2, <1>9, <2>1, <2>3 DEF Broadcasts
  <2>8. id \in Prompts => Shows(events', id)
    BY <1>8, <1>11, <1>15, <2>3 DEF Shows
  <2>9. ending = None => Shell'
    <3> SUFFICES ASSUME ending = None PROVE Shell'
      OBVIOUS
    <3>1. \A x \in Prompts : rpc'[x] = "waiting" => x \in ToSet(q)
      BY <1>1, <1>2, <1>3, <1>5, <1>6, <1>7 DEF Shell, Ids
    <3> QED BY <1>2, <1>7, <1>9, <1>12, <2>1, <3>1 DEF Shell
  <2> QED BY <1>2, <1>7, <1>9, <1>16, <2>1, <2>3, <2>6, <2>7, <2>8, <2>9
<1>17. CASE running # None
  <2>1. running' = running /\ events' = e
    BY <1>9, <1>10, <1>17
  <2>2. Proper(m)
    BY <1>8, <1>13, <1>17, <2>1 DEF Proper
  <2>3. Sends
    BY <1>8, <2>1, <2>2 DEF Sends, e
  <2>4. Broadcasts
    BY <1>2, <1>9, <1>11, <2>1 DEF Broadcasts
  <2>5. id \in Prompts => Shows(events', id)
    BY <1>8, <1>11, <1>15, <2>1 DEF Shows
  <2>6. ending = None => Shell'
    <3> SUFFICES ASSUME ending = None PROVE Shell'
      OBVIOUS
    <3>1. \A x \in Prompts : rpc'[x] = "waiting" => x \in ToSet(q)
      BY <1>1, <1>2, <1>3, <1>5, <1>6, <1>7 DEF Shell, Ids
    <3> QED BY <1>2, <1>7, <1>9, <1>12, <1>13, <1>17, <2>1, <3>1 DEF Shell
  <2> QED BY <1>1, <1>2, <1>7, <1>9, <1>11, <1>17, <2>1, <2>3, <2>4, <2>5, <2>6
<1> QED BY <1>16, <1>17

\* The running prompt is the front of the queue and waits for its turn's end.
LEMMA RunningFacts ==
  ASSUME TypeOK, Shell, running # None
  PROVE  /\ running \in Ids /\ rpc[running] = "waiting" /\ running \in ToSet(queue)
         /\ queue # <<>> /\ Head(queue) = running /\ FrontIs(queue, running)
         /\ Tail(queue) \in Seq(Ids) /\ Distinct(Tail(queue))
         /\ ToSet(Tail(queue)) = ToSet(queue) \ {running}
         /\ Rows(Tail(queue), None, version) = Rows(queue, running, version)
<1>1. running \in Ids /\ queue \in Seq(Ids)
  BY DEF TypeOK
<1>2. FrontIs(queue, running) /\ Distinct(queue)
  BY DEF Shell
<1>3. queue # <<>> /\ Head(queue) = running
  BY <1>2 DEF FrontIs
<1>4. /\ Tail(queue) \in Seq(Ids) /\ Distinct(Tail(queue)) /\ running \in ToSet(queue)
      /\ ToSet(Tail(queue)) = ToSet(queue) \ {running}
  BY <1>1, <1>2, <1>3, TailFacts
<1>5. Rows(Tail(queue), None, version) = Rows(queue, running, version)
  BY <1>1, <1>2, RowsPop
<1> QED BY <1>1, <1>2, <1>3, <1>4, <1>5 DEF Shell

\* The pager's prompt is queued.
LEMMA AcceptPromptEffect ==
  ASSUME TypeOK, Shell, Order, AcceptPrompt
  PROVE  ShellEffect
<1> DEFINE c == Head(calls)
           id == Head(calls).id
<1>1. calls \in Seq(CallType) /\ calls # <<>> /\ c.kind = "prompt" /\ QueueInput(id)
      /\ calls' = Tail(calls) /\ ending = None
      /\ UNCHANGED <<pager, typed, removes, updates, answers, commands, lost, missed>>
  BY DEF TypeOK, AcceptPrompt, AtSelect
<1>2. c \in CallType /\ c \in ToSet(calls) /\ Tail(calls) \in Seq(CallType)
  BY <1>1, TailItems
<1>3. id \in Mine /\ c = PromptCall(id)
  BY <1>1, <1>2, CallTypes
<1>4. rpc[id] = "new" /\ id \in Ids /\ id \in Prompts
  BY <1>2, <1>3, NotHandedOver DEF Ids, Prompts
<1> HIDE DEF c, id
<1>5. /\ queue' \in Seq(Ids) /\ running' \in Ids \cup {None} /\ deltas' \in Nat
      /\ events' \in Seq(EventType)
      /\ rpc' = [rpc EXCEPT ![id] = "waiting"] /\ ending' = ending /\ version' = version
      /\ ending = None => Shell'
      /\ Sends /\ Broadcasts
      /\ running # None => running' = running
      /\ id \in Prompts => Shows(events', id)
  BY <1>1, <1>4, QueueInputEffect
<1>6. TypeOK'
  BY <1>1, <1>2, <1>4, <1>5 DEF TypeOK
<1>7. rpc \in [Ids -> {"new", "waiting", "announce", "answer", "removed", "gone"}] /\ Mine \subseteq Ids
  BY DEF TypeOK, Ids, Prompts
<1>8. \A x \in Ids : Moves(x)
  BY <1>4, <1>5, <1>7 DEF Moves
<1>9. \A x \in Mine : rpc'[x] = "new" <=> rpc[x] = "new" /\ x # id
  BY <1>4, <1>5, <1>7
<1>10. Takes
  BY <1>1, <1>4, <1>5, <1>9 DEF Takes, c, id
<1> QED BY <1>1, <1>5, <1>6, <1>8, <1>10 DEF ShellEffect

\* Another client's prompt or a wake is queued.
LEMMA OtherPromptEffect ==
  ASSUME TypeOK, Shell, NEW id \in Ids, OtherPrompt(id)
  PROVE  ShellEffect
<1>1. /\ ending = None /\ id \notin Mine /\ rpc[id] = "new" /\ QueueInput(id)
      /\ UNCHANGED <<pager, typed, calls, removes, updates, answers, commands, lost, missed>>
  BY DEF OtherPrompt, AtSelect
<1>2. /\ queue' \in Seq(Ids) /\ running' \in Ids \cup {None} /\ deltas' \in Nat
      /\ events' \in Seq(EventType)
      /\ rpc' = [rpc EXCEPT ![id] = "waiting"] /\ ending' = ending /\ version' = version
      /\ ending = None => Shell'
      /\ Sends /\ Broadcasts
      /\ running # None => running' = running
  BY <1>1, QueueInputEffect
<1>3. TypeOK'
  BY <1>1, <1>2 DEF TypeOK
<1>4. rpc \in [Ids -> {"new", "waiting", "announce", "answer", "removed", "gone"}] /\ Mine \subseteq Ids
  BY DEF TypeOK, Ids, Prompts
<1>5. \A x \in Ids : Moves(x)
  BY <1>1, <1>2, <1>4 DEF Moves
<1>6. Takes
  BY <1>1, <1>2, <1>4 DEF Takes, NewsKept
<1> QED BY <1>1, <1>2, <1>3, <1>5, <1>6 DEF ShellEffect

\* A delta tells of the running turn.
LEMMA StreamDeltaEffect ==
  ASSUME TypeOK, Shell, StreamDelta
  PROVE  ShellEffect
<1>1. /\ running # None /\ running \in Ids /\ updates \in Seq(Ids) /\ deltas \in Nat
      /\ deltas' = deltas + 1 /\ updates' = Append(updates, running)
      /\ UNCHANGED <<pager, typed, queue, running, ending, version, rpc, calls, removes, events,
                     answers, commands, lost, missed>>
  BY DEF StreamDelta, TypeOK
<1>2. updates' \in Seq(Ids) /\ deltas' \in Nat
  BY <1>1
<1>3. TypeOK'
  BY <1>1, <1>2 DEF TypeOK
<1>4. Shell'
  BY <1>1 DEF Shell
<1>5. Sends /\ Muted /\ Takes /\ \A id \in Ids : Moves(id)
  BY <1>1 DEF Sends, Muted, Takes, NewsKept, Moves
<1> QED BY <1>1, <1>3, <1>4, <1>5 DEF ShellEffect

\* The pop of the running turn's slot, by its end or by a cancel.
Pops(t) ==
    /\ queue' = Tail(queue) /\ running' = None
    /\ ending' = [id |-> running, terminal |-> t]
    /\ rpc' = [rpc EXCEPT ![running] = IF running \in Wakes THEN "gone" ELSE "announce"]

\* A popped turn is no longer in the queue and its end is under way.
LEMMA PopEffect ==
  ASSUME TypeOK, Shell, running # None, ending = None, NEW t \in BOOLEAN, Pops(t)
  PROVE  /\ queue' \in Seq(Ids) /\ running' = None
         /\ ending' \in [id : Ids, terminal : BOOLEAN]
         /\ rpc' \in [Ids -> {"new", "waiting", "announce", "answer", "removed", "gone"}]
         /\ \A id \in Ids : rpc'[id] \in {"answer", "removed"} => id \in Mine
         /\ Shell' /\ NewsKept /\ \A id \in Ids : Moves(id)
         /\ rpc'[running] # "waiting"
<1>1. /\ running \in Ids /\ rpc[running] = "waiting" /\ running \in ToSet(queue)
      /\ Tail(queue) \in Seq(Ids) /\ Distinct(Tail(queue))
      /\ ToSet(Tail(queue)) = ToSet(queue) \ {running}
  BY RunningFacts
<1>2. /\ rpc \in [Ids -> {"new", "waiting", "announce", "answer", "removed", "gone"}]
      /\ \A id \in Ids : rpc[id] \in {"answer", "removed"} => id \in Mine
      /\ Mine \subseteq Ids /\ Prompts \subseteq Ids /\ ToSet(queue) \subseteq Ids
      /\ Mine \cap Wakes = {}
  BY Elements, ClientTurnsAssumption DEF TypeOK, Ids, Prompts
<1>3. /\ queue' = Tail(queue) /\ running' = None
      /\ ending' = [id |-> running, terminal |-> t]
      /\ rpc' = [rpc EXCEPT ![running] = IF running \in Wakes THEN "gone" ELSE "announce"]
  BY DEF Pops
<1>4. /\ rpc'[running] \in {"gone", "announce"} /\ (rpc'[running] = "gone" => running \in Wakes)
      /\ \A id \in Ids : id # running => rpc'[id] = rpc[id]
  BY <1>1, <1>2, <1>3
<1>5. ending' \in [id : Ids, terminal : BOOLEAN] /\ ending'.id = running
  BY <1>1, <1>3
<1>6. /\ rpc' \in [Ids -> {"new", "waiting", "announce", "answer", "removed", "gone"}]
      /\ \A id \in Ids : rpc'[id] \in {"answer", "removed"} => id \in Mine
  BY <1>1, <1>2, <1>3
<1>7. Shell'
  <2>1. \A id \in ToSet(queue') : rpc'[id] = "waiting"
    BY <1>1, <1>2, <1>3, <1>4 DEF Shell
  <2>2. \A id \in Prompts : rpc'[id] = "waiting" => id \in ToSet(queue')
    BY <1>1, <1>2, <1>3, <1>4 DEF Shell
  <2> QED BY <1>1, <1>3, <1>4, <1>5, <2>1, <2>2 DEF Shell
<1>8. NewsKept /\ \A id \in Ids : Moves(id)
  BY <1>1, <1>2, <1>4 DEF NewsKept, Moves
<1> QED BY <1>1, <1>3, <1>4, <1>5, <1>6, <1>7, <1>8

\* handle_completion tells the pager of the queue without the turn.
LEMMA EndTurnEffect ==
  ASSUME TypeOK, Shell, EndTurn
  PROVE  ShellEffect
<1> DEFINE q == Tail(queue)
           m == Changed(q, None, version)
<1>1. /\ ending = None /\ running # None
      /\ Pops(TRUE) /\ queue' = q /\ running' = None
      /\ events' = IF running \in Wakes THEN events ELSE Append(events, m)
      /\ UNCHANGED <<pager, typed, deltas, version, calls, removes, updates, answers, commands,
                     lost, missed>>
  BY DEF EndTurn, AtSelect, Pops
<1>2. /\ q \in Seq(Ids) /\ Rows(q, None, version) = Rows(queue, running, version)
      /\ version \in [Prompts -> Nat] /\ events \in Seq(EventType)
  BY <1>1, RunningFacts DEF TypeOK
<1>3. /\ queue' \in Seq(Ids) /\ running' = None
      /\ ending' \in [id : Ids, terminal : BOOLEAN]
      /\ rpc' \in [Ids -> {"new", "waiting", "announce", "answer", "removed", "gone"}]
      /\ \A id \in Ids : rpc'[id] \in {"answer", "removed"} => id \in Mine
      /\ Shell' /\ NewsKept /\ \A id \in Ids : Moves(id)
      /\ rpc'[running] # "waiting"
  BY <1>1, PopEffect
<1> HIDE DEF q
<1>4. m \in EventType /\ m.kind = "changed" /\ m.running = None /\ m.rows = Rows(q, None, version)
  BY <1>2, ChangedFields
<1> HIDE DEF m
<1>5. Takes
  BY <1>1, <1>3 DEF Takes
<1>6. CASE running \in Wakes
  <2>1. Sends /\ Muted
    BY <1>1, <1>2, <1>6 DEF Sends, Muted
  <2>2. TypeOK'
    BY <1>1, <1>3, <1>6 DEF TypeOK
  <2> QED BY <1>1, <1>3, <1>5, <2>1, <2>2 DEF ShellEffect
<1>7. CASE running \notin Wakes
  <2>1. /\ events' = Append(events, m) /\ events' \in Seq(EventType) /\ ~Silent(events')
        /\ Current(events', Rows(q, None, version))
    BY <1>1, <1>2, <1>4, <1>7, EventsAppend
  <2>2. Proper(m)
    BY <1>4 DEF Proper
  <2>3. Sends /\ Broadcasts
    BY <1>1, <1>4, <2>1, <2>2 DEF Sends, Broadcasts
  <2>4. TypeOK'
    BY <1>1, <1>3, <2>1 DEF TypeOK
  <2> QED BY <1>1, <1>3, <1>5, <2>3, <2>4 DEF ShellEffect
<1> QED BY <1>6, <1>7

\* A cancel of the pager ends whatever runs, and sends nothing yet.
LEMMA AcceptCancelEffect ==
  ASSUME TypeOK, Shell, AcceptCancel
  PROVE  ShellEffect
<1>1. /\ ending = None /\ calls \in Seq(CallType) /\ calls # <<>> /\ Head(calls).kind = "cancel"
      /\ calls' = Tail(calls) /\ deltas \in Nat
      /\ UNCHANGED <<pager, typed, deltas, version, removes, events, updates, answers, commands,
                     lost, missed>>
  BY DEF AcceptCancel, AtSelect, TypeOK
<1>2. calls' \in Seq(CallType) /\ Head(calls).rewind \in BOOLEAN
  BY <1>1, TailItems, CallTypes
<1>3. Sends
  BY <1>1 DEF Sends
<1>4. CASE running = None
  <2>1. UNCHANGED <<queue, running, ending, rpc>>
    BY <1>4 DEF AcceptCancel
  <2>2. TypeOK'
    BY <1>1, <1>2, <2>1 DEF TypeOK
  <2>3. Shell'
    BY <2>1 DEF Shell
  <2>4. Muted /\ Takes /\ \A id \in Ids : Moves(id)
    BY <1>1, <2>1 DEF Muted, Takes, NewsKept, Moves
  <2> QED BY <1>1, <1>3, <1>4, <2>1, <2>2, <2>3, <2>4 DEF ShellEffect
<1>5. CASE running # None
  <2> DEFINE t == ~(Head(calls).rewind /\ deltas = 0)
  <2>1. t \in BOOLEAN /\ Pops(t)
    BY <1>5 DEF AcceptCancel, Pops
  <2> HIDE DEF t
  <2>2. /\ queue' \in Seq(Ids) /\ running' = None
        /\ ending' \in [id : Ids, terminal : BOOLEAN]
        /\ rpc' \in [Ids -> {"new", "waiting", "announce", "answer", "removed", "gone"}]
        /\ \A id \in Ids : rpc'[id] \in {"answer", "removed"} => id \in Mine
        /\ Shell' /\ NewsKept /\ \A id \in Ids : Moves(id)
        /\ rpc'[running] # "waiting"
    BY <1>1, <1>5, <2>1, PopEffect
  <2>3. TypeOK'
    BY <1>1, <1>2, <2>2 DEF TypeOK
  <2>4. Rows(queue', running', version') = Rows(queue, running, version)
    BY <1>1, <1>5, <2>1, RunningFacts DEF Pops
  <2>5. Muted /\ Takes
    BY <1>1, <2>2, <2>4 DEF Muted, Takes
  <2> QED BY <1>1, <1>3, <1>5, <2>2, <2>3, <2>5 DEF ShellEffect
<1> QED BY <1>4, <1>5

\* emit_turn_completed and maybe_start_running_task.
LEMMA FinishEndEffect ==
  ASSUME TypeOK, Shell, FinishEnd
  PROVE  ShellEffect
<1> DEFINE m == Terminal(ending.id)
           out == IF ending.terminal THEN <<m>> ELSE <<>>
           e == IF ending.terminal THEN Append(events, m) ELSE events
<1>1. /\ ending # None /\ StartNext(queue, running, out) /\ ending' = None
      /\ UNCHANGED <<pager, typed, version, rpc, calls, removes, updates, answers, commands, lost,
                     missed>>
  BY DEF FinishEnd
<1>2. /\ ending.id \in Ids /\ ending.terminal \in BOOLEAN /\ running = None
      /\ queue \in Seq(Ids) /\ events \in Seq(EventType) /\ version \in [Prompts -> Nat]
  BY <1>1 DEF TypeOK, Shell
<1>3. m \in EventType /\ m.kind = "turn_completed"
  BY <1>2, MessageTypes
<1> HIDE DEF m
<1>4. out \in Seq(EventType) /\ events \o out = e
  BY <1>2, <1>3
<1>5. /\ e \in Seq(EventType) /\ (Silent(e) => Silent(events))
      /\ \A rows : Current(events, rows) => Current(e, rows)
      /\ ending.terminal => m \in ToSet(e)
  <2>1. CASE ending.terminal
    BY <1>2, <1>3, <2>1, EventsAppend
  <2>2. CASE ~ending.terminal
    BY <1>2, <2>2
  <2> QED BY <2>1, <2>2
<1> HIDE DEF out
<1>6. /\ queue' = queue /\ deltas' \in Nat
      /\ queue # <<>> =>
            /\ running' = Head(queue) /\ Head(queue) \in Ids /\ FrontIs(queue, running')
            /\ events' = Append(e, Changed(queue, Head(queue), version))
      /\ queue = <<>> => running' = None /\ events' = e
  BY <1>1, <1>2, <1>4, StartNextFields
<1>7. Takes /\ \A id \in Ids : Moves(id)
  BY <1>1 DEF Takes, NewsKept, Moves
<1>8. Proper(m)
  BY <1>3 DEF Proper
<1>9. CASE queue = <<>>
  <2>1. Sends
    BY <1>3, <1>6, <1>8, <1>9 DEF Sends
  <2>2. Muted
    BY <1>1, <1>2, <1>5, <1>6, <1>9 DEF Muted
  <2>3. TypeOK'
    BY <1>1, <1>5, <1>6, <1>9 DEF TypeOK
  <2>4. Shell'
    BY <1>1, <1>6, <1>9 DEF Shell
  <2> HIDE DEF e
  <2> QED BY <1>1, <1>2, <1>5, <1>6, <1>7, <1>9, <2>1, <2>2, <2>3, <2>4 DEF ShellEffect, m
<1>10. CASE queue # <<>>
  <2> DEFINE h == Head(queue)
             n == Changed(queue, h, version)
  <2>1. h \in Ids /\ running' = h /\ FrontIs(queue, h) /\ events' = Append(e, n) /\ h \in ToSet(queue)
    BY <1>2, <1>6, <1>10, TailItems
  <2> HIDE DEF h
  <2>2. n \in EventType /\ n.kind = "changed" /\ n.running = h /\ n.rows = Rows(queue, h, version)
    BY <1>2, <2>1, ChangedFields
  <2> HIDE DEF n
  <2>3. /\ events' \in Seq(EventType) /\ ~Silent(events') /\ Current(events', Rows(queue, h, version))
        /\ ToSet(events') = ToSet(e) \cup {n}
    <3> HIDE DEF e
    <3> QED BY <1>5, <2>1, <2>2, EventsAppend
  <2>4. Proper(n)
    BY <2>1, <2>2 DEF Proper, Shell
  <2>5. Sends
    BY <1>3, <1>8, <2>1, <2>2, <2>4 DEF Sends
  <2>6. Broadcasts
    BY <1>1, <1>6, <2>1, <2>3 DEF Broadcasts
  <2>7. TypeOK'
    BY <1>1, <1>6, <2>1, <2>3 DEF TypeOK
  <2>8. Shell'
    BY <1>1, <1>6, <2>1 DEF Shell
  <2> HIDE DEF e
  <2> QED BY <1>1, <1>2, <1>5, <1>7, <2>3, <2>5, <2>6, <2>7, <2>8 DEF ShellEffect, m
<1> QED BY <1>9, <1>10

\* The queue sent again after a command: what it leaves to be shown.
LEMMA SendAgain ==
  ASSUME TypeOK, Shell, NEW q \in Seq(Ids), NEW ver \in [Prompts -> Nat],
         queue' = q, version' = ver, running' = running,
         events' = Append(events, Changed(q, running, ver))
  PROVE  events' \in Seq(EventType) /\ Sends /\ Broadcasts
<1> DEFINE m == Changed(q, running, ver)
<1>1. running \in Ids \cup {None} /\ events \in Seq(EventType)
  BY DEF TypeOK
<1>2. m \in EventType /\ m.kind = "changed" /\ m.running = running /\ m.rows = Rows(q, running, ver)
  BY <1>1, ChangedFields
<1> HIDE DEF m
<1>3. events' = Append(events, m)
  BY DEF m
<1>4. /\ events' \in Seq(EventType) /\ ~Silent(events') /\ Current(events', Rows(q, running, ver))
  BY <1>1, <1>2, <1>3, EventsAppend
<1>5. Proper(m)
  BY <1>2, RunningFacts DEF Proper
<1> QED BY <1>2, <1>3, <1>4, <1>5 DEF Sends, Broadcasts

\* The pager's removal of a row, granted or refused.
LEMMA AcceptRemoveEffect ==
  ASSUME TypeOK, Shell, NEW row \in removes, AcceptRemove(row)
  PROVE  ShellEffect
<1>1. /\ ending = None /\ removes' = removes \ {row} /\ RemoveQueued(row)
      /\ UNCHANGED <<pager, typed, calls, updates, answers, commands, lost, missed>>
      /\ UNCHANGED <<running, deltas, ending, version>>
      /\ events' = Append(events, Changed(queue', running, version))
  BY DEF AcceptRemove, AtSelect, RemoveQueued
<1>2. /\ queue \in Seq(Ids) /\ row \in RowType /\ removes' \in SUBSET RowType
      /\ version \in [Prompts -> Nat] /\ running \in Ids \cup {None}
      /\ rpc \in [Ids -> {"new", "waiting", "announce", "answer", "removed", "gone"}]
      /\ \A id \in Ids : rpc[id] \in {"answer", "removed"} => id \in Mine
  BY <1>1 DEF TypeOK
<1> DEFINE x == row.id
<1>3. x \in Prompts /\ x \in Ids /\ Mine \subseteq Ids /\ Prompts \subseteq Ids
  BY <1>2 DEF RowType, Ids, Prompts
<1>4. CASE ~Removable(row)
  <2>1. queue' = queue /\ rpc' = rpc
    BY <1>1, <1>4 DEF RemoveQueued
  <2>2. events' \in Seq(EventType) /\ Sends /\ Broadcasts
    BY <1>1, <1>2, <2>1, SendAgain
  <2>3. TypeOK'
    BY <1>1, <1>2, <2>1, <2>2 DEF TypeOK
  <2>4. Shell'
    BY <1>1, <2>1 DEF Shell
  <2>5. Takes /\ \A id \in Ids : Moves(id)
    BY <1>1, <2>1 DEF Takes, NewsKept, Moves
  <2> QED BY <1>1, <2>2, <2>3, <2>4, <2>5 DEF ShellEffect
<1>5. CASE Removable(row)
  <2> DEFINE keep == Ids \ {x}
             q == Kept(queue, keep)
  <2>1. /\ x \in ToSet(queue) /\ x # running /\ queue' = q
        /\ rpc' = [rpc EXCEPT ![x] = IF x \in Mine THEN "removed" ELSE "gone"]
    BY <1>1, <1>5 DEF RemoveQueued, Removable
  <2>2. q \in Seq(Ids) /\ ToSet(q) = ToSet(queue) \cap keep /\ Distinct(q)
    BY <1>2, KeptFacts, KeptDistinct DEF Shell
  <2>3. running # None => FrontIs(q, running)
    <3> SUFFICES ASSUME running # None PROVE FrontIs(q, running)
      OBVIOUS
    <3>1. running \in keep /\ FrontIs(queue, running)
      BY <1>2, <2>1 DEF Shell
    <3> HIDE DEF keep
    <3> QED BY <1>2, <3>1, KeptFront
  <2>4. rpc[x] = "waiting" /\ ToSet(queue) \subseteq Ids
    BY <1>2, <2>1, Elements DEF Shell
  <2> HIDE DEF q
  <2>5. events' \in Seq(EventType) /\ Sends /\ Broadcasts
    BY <1>1, <1>2, <2>1, <2>2, SendAgain
  <2>6. /\ rpc' \in [Ids -> {"new", "waiting", "announce", "answer", "removed", "gone"}]
        /\ \A id \in Ids : rpc'[id] \in {"answer", "removed"} => id \in Mine
        /\ \A id \in Ids : id # x => rpc'[id] = rpc[id]
        /\ rpc'[x] = IF x \in Mine THEN "removed" ELSE "gone"
    BY <1>2, <1>3, <2>1
  <2>7. TypeOK'
    BY <1>1, <1>2, <2>1, <2>2, <2>5, <2>6 DEF TypeOK
  <2>8. Shell'
    <3>1. \A id \in ToSet(q) : rpc'[id] = "waiting"
      BY <2>2, <2>4, <2>6 DEF Shell
    <3>2. \A id \in Prompts : rpc'[id] = "waiting" => id \in ToSet(q)
      BY <1>3, <2>2, <2>6 DEF Shell
    <3> QED BY <1>1, <2>1, <2>2, <2>3, <3>1, <3>2 DEF Shell
  <2>9. Takes
    BY <1>1, <1>3, <2>4, <2>6 DEF Takes, NewsKept
  <2>10. \A id \in Ids : Moves(id)
    BY <2>1, <2>4, <2>6 DEF Moves
  <2> QED BY <1>1, <2>5, <2>7, <2>8, <2>9, <2>10 DEF ShellEffect
<1> QED BY <1>4, <1>5

\* An edit by any client.
LEMMA EditQueuedEffect ==
  ASSUME TypeOK, Shell, NEW id \in Prompts, EditQueued(id)
  PROVE  ShellEffect
<1>1. /\ commands' = commands + 1 /\ version' = [version EXCEPT ![id] = @ + 1]
      /\ events' = Append(events, Changed(queue, running, version'))
      /\ UNCHANGED <<pager, typed, queue, running, deltas, ending, rpc, calls, removes, updates,
                     answers, lost, missed>>
  BY DEF EditQueued
<1>2. queue \in Seq(Ids) /\ version' \in [Prompts -> Nat] /\ commands' \in Nat
  BY <1>1 DEF TypeOK
<1>3. events' \in Seq(EventType) /\ Sends /\ Broadcasts
  BY <1>1, <1>2, SendAgain
<1>4. TypeOK'
  BY <1>1, <1>2, <1>3 DEF TypeOK
<1>5. Shell'
  BY <1>1 DEF Shell
<1>6. Takes /\ \A x \in Ids : Moves(x)
  BY <1>1 DEF Takes, NewsKept, Moves
<1> QED BY <1>1, <1>3, <1>4, <1>5, <1>6 DEF ShellEffect

\* A reorder by any client.
LEMMA ReorderQueueEffect ==
  ASSUME TypeOK, Shell, NEW order \in SetToSeqs(Prompts), ReorderQueue(order)
  PROVE  ShellEffect
<1> DEFINE q == Reordered(queue, running, Prompts, order)
<1>1. /\ commands' = commands + 1 /\ queue' = q
      /\ events' = Append(events, Changed(q, running, version))
      /\ UNCHANGED <<pager, typed, running, deltas, ending, version, rpc, calls, removes, updates,
                     answers, lost, missed>>
  BY DEF ReorderQueue
<1>2. order \in Seq(Ids) /\ Distinct(order)
  BY OrderFields
<1>3. queue \in Seq(Ids) /\ version \in [Prompts -> Nat] /\ commands' \in Nat
  BY <1>1 DEF TypeOK
<1>4. q \in Seq(Ids) /\ (FrontIs(queue, running) => FrontIs(q, running))
  BY <1>2, <1>3, ReorderedFacts
<1>5. ToSet(q) = ToSet(queue) /\ Distinct(q)
  BY <1>2, <1>3, ReorderedItems DEF Shell
<1> HIDE DEF q
<1>6. events' \in Seq(EventType) /\ Sends /\ Broadcasts
  BY <1>1, <1>3, <1>4, SendAgain
<1>7. TypeOK'
  BY <1>1, <1>3, <1>4, <1>6 DEF TypeOK
<1>8. Shell'
  BY <1>1, <1>4, <1>5 DEF Shell
<1>9. Takes /\ \A x \in Ids : Moves(x)
  BY <1>1 DEF Takes, NewsKept, Moves
<1> QED BY <1>1, <1>6, <1>7, <1>8, <1>9 DEF ShellEffect

\* A message that is no broadcast says nothing of the rows.
LEMMA SendOther ==
  ASSUME TypeOK, NEW m \in EventType, m.kind # "changed", Proper(m), events' = Append(events, m),
         UNCHANGED <<queue, running, version, removes>>
  PROVE  events' \in Seq(EventType) /\ Sends /\ Muted /\ m \in ToSet(events')
<1>1. events \in Seq(EventType)
  BY DEF TypeOK
<1>2. /\ Append(events, m) \in Seq(EventType) /\ ToSet(Append(events, m)) = ToSet(events) \cup {m}
      /\ Silent(Append(events, m)) <=> Silent(events) /\ m.kind # "changed"
      /\ \A rows : m.kind # "changed" /\ Current(events, rows) => Current(Append(events, m), rows)
  BY <1>1, EventsAppend
<1>3. Sends
  BY DEF Sends
<1>4. Muted
  BY <1>2 DEF Muted
<1> QED BY <1>2, <1>3, <1>4

\* prompt_complete goes to every client.
LEMMA AnnounceEffect ==
  ASSUME TypeOK, Shell, NEW id \in Ids, Announce(id)
  PROVE  ShellEffect
<1> DEFINE m == Complete(id)
<1>1. /\ rpc[id] = "announce" /\ events' = Append(events, m)
      /\ rpc' = [rpc EXCEPT ![id] = IF id \in Mine THEN "answer" ELSE "gone"]
      /\ UNCHANGED <<pager, typed, queue, running, deltas, ending, version, calls, removes, updates,
                     answers, commands, lost, missed>>
  BY DEF Announce
<1>2. m \in EventType /\ m.kind = "prompt_complete"
  BY MessageTypes
<1> HIDE DEF m
<1>3. Proper(m)
  BY <1>2 DEF Proper
<1>4. events' \in Seq(EventType) /\ Sends /\ Muted /\ m \in ToSet(events')
  BY <1>1, <1>2, <1>3, SendOther
<1>5. /\ rpc \in [Ids -> {"new", "waiting", "announce", "answer", "removed", "gone"}]
      /\ \A x \in Ids : rpc[x] \in {"answer", "removed"} => x \in Mine
      /\ Mine \subseteq Ids /\ Prompts \subseteq Ids /\ ToSet(queue) \subseteq Ids
  BY Elements DEF TypeOK, Ids, Prompts
<1>6. /\ rpc' \in [Ids -> {"new", "waiting", "announce", "answer", "removed", "gone"}]
      /\ \A x \in Ids : rpc'[x] \in {"answer", "removed"} => x \in Mine
      /\ \A x \in Ids : x # id => rpc'[x] = rpc[x]
      /\ rpc'[id] = IF id \in Mine THEN "answer" ELSE "gone"
  BY <1>1, <1>5
<1>7. TypeOK'
  BY <1>1, <1>4, <1>6 DEF TypeOK
<1>8. Shell'
  <2>1. \A x \in ToSet(queue) : rpc'[x] = "waiting"
    BY <1>1, <1>5, <1>6 DEF Shell
  <2>2. \A x \in Prompts : rpc'[x] = "waiting" => x \in ToSet(queue)
    BY <1>5, <1>6 DEF Shell
  <2>3. ending # None => ending.id \in Ids /\ rpc'[ending.id] \notin {"new", "waiting"}
    BY <1>6 DEF TypeOK, Shell
  <2> QED BY <1>1, <2>1, <2>2, <2>3 DEF Shell
<1>9. Takes
  BY <1>1, <1>5, <1>6 DEF Takes, NewsKept
<1>10. \A x \in Ids : Moves(x)
  BY <1>1, <1>4, <1>6 DEF Moves, m
<1> QED BY <1>1, <1>4, <1>7, <1>8, <1>9, <1>10 DEF ShellEffect

\* A call that is closed leaves the queue alone.
LEMMA CloseEffect ==
  ASSUME TypeOK, Shell, NEW id \in Ids, rpc[id] \in {"answer", "removed"},
         rpc' = [rpc EXCEPT ![id] = "gone"], UNCHANGED <<queue, running, ending>>
  PROVE  /\ rpc' \in [Ids -> {"new", "waiting", "announce", "answer", "removed", "gone"}]
         /\ \A x \in Ids : rpc'[x] \in {"answer", "removed"} => x \in Mine
         /\ \A x \in Ids : x # id => rpc'[x] = rpc[x]
         /\ rpc'[id] = "gone" /\ id \in Mine /\ Shell' /\ NewsKept
<1>1. /\ rpc \in [Ids -> {"new", "waiting", "announce", "answer", "removed", "gone"}]
      /\ \A x \in Ids : rpc[x] \in {"answer", "removed"} => x \in Mine
      /\ Mine \subseteq Ids /\ Prompts \subseteq Ids /\ ToSet(queue) \subseteq Ids
  BY Elements DEF TypeOK, Ids, Prompts
<1>2. /\ rpc' \in [Ids -> {"new", "waiting", "announce", "answer", "removed", "gone"}]
      /\ \A x \in Ids : rpc'[x] \in {"answer", "removed"} => x \in Mine
      /\ \A x \in Ids : x # id => rpc'[x] = rpc[x]
      /\ rpc'[id] = "gone"
  BY <1>1
<1>3. Shell'
  <2>1. \A x \in ToSet(queue) : rpc'[x] = "waiting"
    BY <1>1, <1>2 DEF Shell
  <2>2. \A x \in Prompts : rpc'[x] = "waiting" => x \in ToSet(queue)
    BY <1>1, <1>2 DEF Shell
  <2>3. ending # None => ending.id \in Ids /\ rpc'[ending.id] \notin {"new", "waiting"}
    BY <1>2 DEF TypeOK, Shell
  <2> QED BY <2>1, <2>2, <2>3 DEF Shell
<1>4. NewsKept
  BY <1>1, <1>2 DEF NewsKept
<1> QED BY <1>1, <1>2, <1>3, <1>4

\* The response goes out to the pager.
LEMMA RespondEffect ==
  ASSUME TypeOK, Shell, NEW id \in Ids, Respond(id)
  PROVE  ShellEffect
<1> DEFINE m == Response(id)
<1>1. /\ rpc[id] \in {"answer", "removed"} /\ events' = Append(events, m)
      /\ rpc' = [rpc EXCEPT ![id] = "gone"]
      /\ UNCHANGED <<pager, typed, queue, running, deltas, ending, version, calls, removes, updates,
                     answers, commands, lost, missed>>
  BY DEF Respond
<1>2. /\ rpc' \in [Ids -> {"new", "waiting", "announce", "answer", "removed", "gone"}]
      /\ \A x \in Ids : rpc'[x] \in {"answer", "removed"} => x \in Mine
      /\ \A x \in Ids : x # id => rpc'[x] = rpc[x]
      /\ rpc'[id] = "gone" /\ id \in Mine /\ Shell' /\ NewsKept
  BY <1>1, CloseEffect
<1>3. m \in EventType /\ m.kind = "response" /\ m.id = id
  BY <1>2, MessageTypes
<1> HIDE DEF m
<1>4. Proper(m)
  BY <1>2, <1>3 DEF Proper
<1>5. events' \in Seq(EventType) /\ Sends /\ Muted /\ m \in ToSet(events')
  BY <1>1, <1>3, <1>4, SendOther
<1>6. TypeOK'
  BY <1>1, <1>2, <1>5 DEF TypeOK
<1>7. Takes /\ \A x \in Ids : Moves(x)
  BY <1>1, <1>2, <1>5 DEF Takes, Moves, m
<1> QED BY <1>1, <1>2, <1>5, <1>6, <1>7 DEF ShellEffect

\* The response is lost.
LEMMA LoseResponseEffect ==
  ASSUME TypeOK, Shell, NEW id \in Ids, LoseResponse(id)
  PROVE  ShellEffect
<1>1. /\ rpc[id] \in {"answer", "removed"} /\ rpc' = [rpc EXCEPT ![id] = "gone"]
      /\ lost' = lost \cup {id} /\ missed' = IF rpc[id] = "removed" THEN missed \cup {id} ELSE missed
      /\ UNCHANGED <<pager, typed, queue, running, deltas, ending, version, commands>>
      /\ UNCHANGED <<calls, removes, events, updates, answers>>
  BY DEF LoseResponse, wireVars
<1>2. /\ rpc' \in [Ids -> {"new", "waiting", "announce", "answer", "removed", "gone"}]
      /\ \A x \in Ids : rpc'[x] \in {"answer", "removed"} => x \in Mine
      /\ \A x \in Ids : x # id => rpc'[x] = rpc[x]
      /\ rpc'[id] = "gone" /\ id \in Mine /\ Shell' /\ NewsKept
  BY <1>1, CloseEffect
<1>3. TypeOK'
  BY <1>1, <1>2 DEF TypeOK, Prompts
<1>4. Sends /\ Muted /\ Takes
  BY <1>1, <1>2 DEF Sends, Muted, Takes
<1>5. \A x \in Ids : Moves(x)
  BY <1>1, <1>2 DEF Moves
<1> QED BY <1>1, <1>2, <1>3, <1>4, <1>5 DEF ShellEffect

\* Every step of the shell is of this kind.
LEMMA ShellSteps ==
  ASSUME TypeOK, Shell, Order, ShellStep
  PROVE  ShellEffect
  BY AcceptPromptEffect, AcceptCancelEffect, EndTurnEffect, FinishEndEffect, StreamDeltaEffect,
     AcceptRemoveEffect, OtherPromptEffect, AnnounceEffect, RespondEffect, LoseResponseEffect,
     EditQueuedEffect, ReorderQueueEffect
  DEF ShellStep

-----------------------------------------------------------------------------
(* A step of the shell preserves the invariant.                            *)

\* The prompts still go over in the order they were typed.
LEMMA OrderShell ==
  ASSUME TypeOK, Order, ShellEffect
  PROVE  Order'
<1> DEFINE K == {PromptCall(id) : id \in Mine}
           s == Sent(calls)
           l == pager.local
<1>1. /\ calls \in Seq(CallType) /\ typed \in Seq(Mine) /\ l \in Seq(Mine)
      /\ typed' = typed /\ pager' = pager /\ Takes
  BY PagerFields DEF TypeOK, ShellEffect
<1>2. PICK n \in 0..Len(typed) : HandedOver(n, typed, rpc) /\ InTypedOrder(n, typed, s, l)
  BY DEF Order
<1>3. s \in Seq(CallType)
  BY <1>1, KeptFacts DEF Sent
<1>4. Distinct(typed)
  BY DEF Order
<1> SUFFICES \E k \in 0..Len(typed) :
               HandedOver(k, typed, rpc') /\ InTypedOrder(k, typed, Sent(calls'), l)
  BY <1>1, <1>4 DEF Order
<1>5. s = Kept(calls, K) /\ Sent(calls') = Kept(calls', K)
  BY DEF Sent
<1>6. \A c \in K : c.kind = "prompt"
  BY CallTypes
<1> HIDE DEF s, l, K
<1>7. CASE NewsKept /\ Sent(calls') = s
  <2>1. HandedOver(n, typed, rpc')
    BY <1>2, <1>7 DEF HandedOver, NewsKept
  <2> QED BY <1>2, <1>7, <2>1
<1>8. CASE calls' = calls /\ NewsKept
  BY <1>7, <1>8 DEF s
<1>9. CASE calls # <<>> /\ Head(calls).kind = "cancel" /\ calls' = Tail(calls) /\ NewsKept
  <2>1. Head(calls) \notin K
    BY <1>6, <1>9
  <2>2. Kept(Tail(calls), K) = Kept(calls, K)
    BY <1>1, <1>9, <2>1, KeptTail
  <2> QED BY <1>5, <1>7, <1>9, <2>2
<1>10. CASE /\ calls # <<>> /\ Head(calls).kind = "prompt" /\ calls' = Tail(calls)
            /\ \A id \in Mine : rpc'[id] = "new" <=> rpc[id] = "new" /\ id # Head(calls).id
  <2> DEFINE id == Head(calls).id
  <2>1. Head(calls) \in CallType
    BY <1>1, <1>10, TailItems
  <2>2. id \in Mine /\ Head(calls) = PromptCall(id)
    BY <1>10, <2>1, CallTypes
  <2>3. Head(calls) \in K
    BY <2>2 DEF K
  <2>4. s # <<>> /\ Head(s) = Head(calls) /\ Sent(calls') = Tail(s)
    BY <1>1, <1>5, <1>10, <2>3, KeptTail
  <2>5. \A x \in Mine : rpc'[x] = "new" <=> rpc[x] = "new" /\ x # id
    BY <1>10
  <2> HIDE DEF id
  <2> DEFINE t == Tail(s)
  <2>6. /\ t \in Seq(CallType) /\ Len(t) = Len(s) - 1 /\ Len(s) \in Nat /\ Len(s) >= 1
        /\ Head(s) = s[1] /\ \A i \in 1..Len(t) : t[i] = s[i + 1]
    BY <1>3, <2>4
  <2> HIDE DEF t
  <2>7. /\ n \in Nat /\ Len(l) \in Nat /\ Len(typed) \in Nat /\ n + Len(s) + Len(l) = Len(typed)
        /\ \A k \in 1..Len(typed) : typed[k] \in Mine
        /\ \A i \in 1..Len(s) : s[i] = PromptCall(typed[n + i])
        /\ \A i \in 1..Len(l) : l[i] = typed[n + Len(s) + i]
    BY <1>1, <1>2 DEF InTypedOrder
  <2>8. typed[n + 1] = id /\ n + 1 \in 1..Len(typed)
    <3>1. n + 1 \in 1..Len(typed) /\ 1 \in 1..Len(s)
      <4>1. /\ n \in Nat /\ Len(l) \in Nat /\ Len(s) \in Nat /\ Len(s) >= 1 /\ Len(typed) \in Nat
            /\ n + Len(s) + Len(l) = Len(typed)
        BY <2>6, <2>7
      <4> QED BY <4>1
    <3>2. s[1] = PromptCall(typed[n + 1])
      BY <2>7, <3>1
    <3>3. PromptCall(typed[n + 1]) = PromptCall(id) /\ typed[n + 1] \in Mine
      BY <2>2, <2>4, <2>6, <2>7, <3>1, <3>2
    <3> QED BY <2>2, <3>1, <3>3, CallTypes
  <2>9. HandedOver(n + 1, typed, rpc')
    <3> SUFFICES ASSUME NEW x \in Mine
                 PROVE  rpc'[x] # "new" <=> \E i \in 1..(n + 1) : x = typed[i]
      BY DEF HandedOver
    <3>1. rpc[x] # "new" <=> \E i \in 1..n : x = typed[i]
      BY <1>2 DEF HandedOver
    <3>2. (\E i \in 1..(n + 1) : x = typed[i]) <=> (\E i \in 1..n : x = typed[i]) \/ x = typed[n + 1]
      BY <2>7
    <3> QED BY <2>5, <2>8, <3>1, <3>2
  <2>10. InTypedOrder(n + 1, typed, t, l)
    <3>1. (n + 1) + Len(t) + Len(l) = Len(typed)
      <4>1. /\ n \in Nat /\ Len(l) \in Nat /\ Len(s) \in Nat /\ Len(t) = Len(s) - 1
            /\ n + Len(s) + Len(l) = Len(typed)
        BY <2>6, <2>7
      <4> QED BY <4>1
    <3>2. ASSUME NEW i \in 1..Len(t) PROVE t[i] = PromptCall(typed[(n + 1) + i])
      <4>1. t[i] = s[i + 1] /\ i + 1 \in 1..Len(s) /\ n + (i + 1) = (n + 1) + i
        BY <2>6, <2>7
      <4> QED BY <2>7, <4>1
    <3>3. ASSUME NEW i \in 1..Len(l) PROVE l[i] = typed[(n + 1) + Len(t) + i]
      <4>1. n + Len(s) + i = (n + 1) + Len(t) + i
        BY <2>6, <2>7
      <4> QED BY <2>7, <4>1
    <3> QED BY <3>1, <3>2, <3>3 DEF InTypedOrder
  <2>11. n + 1 \in 0..Len(typed)
    BY <2>7, <2>8
  <2> QED BY <2>4, <2>9, <2>10, <2>11 DEF t
<1> QED BY <1>1, <1>8, <1>9, <1>10 DEF Takes

\* What the pager will be told after a step of the shell.
LEMMA SendsFacts ==
  ASSUME TypeOK, Answered, Sends
  PROVE  /\ ToSet(events) \subseteq ToSet(events')
         /\ \A id \in Prompts : Runs(events', id) =>
               Runs(events, id) \/ (running' = id /\ rpc[id] # "gone")
         /\ \A id \in Mine : Response(id) \in ToSet(events') =>
               Response(id) \in ToSet(events) \/ rpc'[id] = "gone"
         /\ InOrder(events) => InOrder(events')
<1>1. events \in Seq(EventType) /\ None \notin Prompts
  BY ClientTurnsAssumption DEF TypeOK, Ids
<1>2. ASSUME NEW r \in ToSet(events), r.kind = "response" PROVE r.id \in Mine /\ rpc[r.id] = "gone"
  <2>1. r \in EventType
    BY <1>1, Elements
  <2>2. r \in ResponseType
    BY <1>2, <2>1, EventKinds
  <2>3. r.id \in Mine /\ r = Response(r.id)
    BY <2>2 DEF ResponseType, Response
  <2> QED BY <2>3 DEF Answered, Answering
<1>3. \A id \in Mine : Response(id).kind = "response" /\ Response(id).id = id
  BY DEF Response
<1>4. ASSUME NEW m \in EventType, Proper(m), m.kind = "changed"
      PROVE  \A r \in ToSet(events) : r.kind = "response" => r.id # m.running
  <2>1. None \notin Mine
    BY <1>1 DEF Prompts
  <2> QED BY <1>2, <1>4, <2>1 DEF Proper
<1>5. CASE events' = events
  BY <1>5
<1>6. ASSUME NEW m \in EventType, Proper(m), events' = Append(events, m)
      PROVE  /\ ToSet(events') = ToSet(events) \cup {m} /\ (InOrder(events) => InOrder(events'))
  BY <1>1, <1>4, <1>6, EventsAppend
<1>7. ASSUME NEW m \in EventType, NEW n \in EventType,
             Proper(m), m.kind # "response", Proper(n), n.kind = "changed",
             events' = Append(Append(events, m), n)
      PROVE  /\ ToSet(events') = ToSet(events) \cup {m, n} /\ (InOrder(events) => InOrder(events'))
  <2> DEFINE e == Append(events, m)
  <2>1. e \in Seq(EventType) /\ ToSet(e) = ToSet(events) \cup {m} /\ (InOrder(events) => InOrder(e))
    BY <1>1, <1>4, <1>7, EventsAppend
  <2>2. events' = Append(e, n)
    BY <1>7
  <2> HIDE DEF e
  <2>3. \A r \in ToSet(e) : r.kind = "response" => r.id # n.running
    BY <1>4, <1>7, <2>1
  <2>4. ToSet(Append(e, n)) = ToSet(e) \cup {n} /\ (InOrder(e) => InOrder(Append(e, n)))
    BY <2>1, <2>3, EventsAppend
  <2> QED BY <2>1, <2>2, <2>4
<1>8. ASSUME NEW m, Proper(m), NEW id \in Prompts, m.kind = "changed", m.running = id
      PROVE  running' = id /\ rpc[id] # "gone"
  BY <1>1, <1>8 DEF Proper
<1>9. ASSUME NEW m, Proper(m), NEW id \in Mine, m = Response(id) PROVE rpc'[id] = "gone"
  BY <1>3, <1>9 DEF Proper
<1>10. ASSUME NEW m \in EventType, Proper(m), events' = Append(events, m)
       PROVE  /\ \A id \in Prompts : Runs(events', id) =>
                    Runs(events, id) \/ (running' = id /\ rpc[id] # "gone")
              /\ \A id \in Mine : Response(id) \in ToSet(events') =>
                    Response(id) \in ToSet(events) \/ rpc'[id] = "gone"
  BY <1>6, <1>8, <1>9, <1>10 DEF Runs
<1>11. ASSUME NEW m \in EventType, NEW n \in EventType,
              Proper(m), m.kind # "response", Proper(n), n.kind = "changed",
              events' = Append(Append(events, m), n)
       PROVE  /\ \A id \in Prompts : Runs(events', id) =>
                    Runs(events, id) \/ (running' = id /\ rpc[id] # "gone")
              /\ \A id \in Mine : Response(id) \in ToSet(events') =>
                    Response(id) \in ToSet(events) \/ rpc'[id] = "gone"
  BY <1>7, <1>8, <1>9, <1>11 DEF Runs
<1> QED BY <1>5, <1>6, <1>7, <1>10, <1>11 DEF Sends

\* The rows still converge.
LEMMA MirrorShell ==
  ASSUME TypeOK, Mirror, Answered, ShellEffect
  PROVE  Mirror'
<1>1. /\ ToSet(events) \subseteq ToSet(events') /\ pager' = pager /\ Takes /\ calls \in Seq(CallType)
      /\ (Broadcasts \/ Muted)
  BY SendsFacts DEF ShellEffect, TypeOK
<1>2. /\ Current(events', Rows(queue', running', version'))
      /\ Silent(events') => pager.shared = Rows(queue', running', version') \o Pinned(pager.echoes)
      /\ Silent(events') /\ removes' = {} => pager.mirror = pager.shared
  <2>1. CASE Broadcasts
    BY <2>1 DEF Broadcasts
  <2>2. CASE Muted
    BY <2>2 DEF Muted, Mirror
  <2> QED BY <1>1, <2>1, <2>2
<1>3. \A id \in Mine : Shows(events, id) => Shows(events', id)
  BY <1>1 DEF Shows
<1>4. ASSUME NEW id \in Mine, PromptCall(id) \in ToSet(calls)
      PROVE  PromptCall(id) \in ToSet(calls') \/ Shows(events', id)
  <2>1. calls # <<>> => \/ PromptCall(id) = Head(calls)
                        \/ PromptCall(id) \in ToSet(Tail(calls))
    BY <1>1, <1>4, TailItems
  <2>2. PromptCall(id).kind = "prompt" /\ PromptCall(id).id = id
    BY CallTypes
  <2> QED BY <1>1, <1>4, <2>1, <2>2 DEF Takes
<1>5. ToSet(pager.echoes) \subseteq Mine
  BY PagerFields, Elements DEF TypeOK
<1>6. \A id \in ToSet(pager.echoes) : PromptCall(id) \in ToSet(calls') \/ Shows(events', id)
  BY <1>3, <1>4, <1>5 DEF Mirror
<1> QED BY <1>1, <1>2, <1>6 DEF Mirror

\* The screen stays right.
LEMMA ScreenShell ==
  ASSUME TypeOK, Shell, Screen, ShellEffect
  PROVE  Screen'
<1>1. /\ pager' = pager /\ answers' = answers /\ lost \subseteq lost' /\ missed \subseteq missed'
      /\ Takes /\ Sends /\ \A id \in Ids : Moves(id)
      /\ running # None => running' = running \/ rpc'[running] # "waiting"
  BY DEF ShellEffect
<1>2. /\ Shown /\ Told(running, rpc) /\ Dispatched /\ EndComes /\ Answered /\ InOrder(events)
  BY DEF Screen
<1>3. /\ ToSet(events) \subseteq ToSet(events')
      /\ \A id \in Prompts : Runs(events', id) =>
            Runs(events, id) \/ (running' = id /\ rpc[id] # "gone")
      /\ \A id \in Mine : Response(id) \in ToSet(events') =>
            Response(id) \in ToSet(events) \/ rpc'[id] = "gone"
      /\ InOrder(events) => InOrder(events')
  BY <1>1, <1>2, SendsFacts
<1>4. /\ Mine \subseteq Prompts /\ Theirs \subseteq Prompts /\ Prompts \subseteq Ids
      /\ None \notin Prompts /\ \A id \in Prompts : id \in Mine \/ id \in Theirs
      /\ Theirs \cap Mine = {} /\ Prompts \cap Wakes = {}
  BY ClientTurnsAssumption DEF Ids, Prompts
<1>5. answers \subseteq Mine /\ calls \in Seq(CallType) /\ updates \in Seq(Ids) /\ running \in Ids \cup {None}
  BY DEF TypeOK
<1>6. ASSUME NEW id \in Prompts, Started(id, running, rpc) PROVE Started(id, running', rpc')
  <2>1. Moves(id)
    BY <1>1, <1>4
  <2>2. CASE rpc[id] \in {"announce", "answer", "gone"}
    BY <2>1, <2>2 DEF Moves, Started
  <2>3. CASE rpc[id] = "waiting" /\ running = id
    <3>1. rpc'[id] = "waiting" => running' = id
      BY <1>1, <1>4, <2>3
    <3> QED BY <1>4, <2>1, <2>3, <3>1 DEF Moves, Started
  <2> QED BY <1>6, <2>2, <2>3 DEF Started
<1>7. ASSUME running' \in Prompts PROVE Started(running', running', rpc')
  <2>1. queue' \in Seq(Ids) /\ FrontIs(queue', running') /\ \A id \in ToSet(queue') : rpc'[id] = "waiting"
    BY <1>4, <1>7 DEF ShellEffect, TypeOK, Shell
  <2>2. running' \in ToSet(queue')
    BY <2>1, TailItems DEF FrontIs
  <2> QED BY <2>1, <2>2 DEF Started
<1>8. Told(running, rpc)'
  <2>1. pager.stash # None => pager.stash.id \in Prompts
    BY PagerFields DEF TypeOK
  <2>2. pager.stash # None => Started(pager.stash.id, running', rpc')
    BY <1>2, <1>6, <2>1 DEF Told
  <2>3. pager.cur \in Theirs => Started(pager.cur, running', rpc')
    BY <1>2, <1>4, <1>6 DEF Told
  <2>4. ASSUME NEW id \in Prompts, Runs(events', id) PROVE Started(id, running', rpc')
    BY <1>2, <1>3, <1>6, <1>7, <2>4 DEF Told
  <2>5. ASSUME NEW id \in Prompts, id \in ToSet(updates') PROVE Started(id, running', rpc')
    <3>1. CASE updates' = updates
      BY <1>2, <1>6, <2>5, <3>1 DEF Told
    <3>2. CASE running # None /\ running' = running /\ rpc' = rpc /\ updates' = Append(updates, running)
      <4>1. id \in ToSet(updates) \/ id = running
        BY <1>5, <2>5, <3>2, AppendFacts
      <4> QED BY <1>2, <1>6, <1>7, <2>5, <3>2, <4>1 DEF Told
    <3> QED BY <3>1, <3>2 DEF ShellEffect
  <2> QED BY <1>1, <2>2, <2>3, <2>4, <2>5 DEF Told
<1>9. Dispatched'
  <2> SUFFICES ASSUME pager.cur \in Mine, rpc'[pager.cur] = "new"
               PROVE  PromptCall(pager.cur) \in ToSet(calls')
    BY <1>1 DEF Dispatched
  <2> DEFINE id == pager.cur
  <2>1. rpc[id] = "new" /\ id \in Mine
    BY <1>1 DEF Takes, NewsKept
  <2>2. PromptCall(id) \in ToSet(calls)
    BY <1>2, <2>1 DEF Dispatched
  <2>3. calls # <<>> => \/ PromptCall(id) = Head(calls)
                        \/ PromptCall(id) \in ToSet(Tail(calls))
    BY <1>5, <2>2, TailItems
  <2>4. PromptCall(id).kind = "prompt" /\ PromptCall(id).id = id
    BY <2>1, CallTypes
  <2> QED BY <1>1, <2>1, <2>2, <2>3, <2>4 DEF Takes
<1>10. ASSUME NEW id \in Mine, Answering(id) PROVE rpc[id] = "gone" /\ rpc'[id] = "gone" /\ Answering(id)'
  <2>1. rpc[id] = "gone"
    BY <1>2, <1>10 DEF Answered
  <2>2. Moves(id)
    BY <1>1, <1>4
  <2>3. Answering(id)'
    BY <1>1, <1>3, <1>10 DEF Answering
  <2> QED BY <2>1, <2>2, <2>3 DEF Moves
<1>11. EndComes'
  <2>0. PICK id : id = pager.cur
    OBVIOUS
  <2> SUFFICES ASSUME id \in Prompts, Over(id)', pager.armed # id, id \notin missed', rpc'[id] # "removed",
                      ~Answering(id)'
               PROVE  FALSE
    BY <1>1, <2>0 DEF EndComes
  <2>1. /\ id \notin missed /\ ~Answering(id)
    BY <1>1, <1>3 DEF Answering
  <2>2. /\ rpc'[id] \notin {"new", "waiting", "announce"}
        /\ ending' # None => ending' # [id |-> id, terminal |-> TRUE]
        /\ Terminal(id) \notin ToSet(events') /\ Complete(id) \notin ToSet(events')
    BY DEF Over
  <2>3. Moves(id)
    BY <1>1, <1>4
  <2>4. ASSUME rpc[id] \notin {"new", "waiting", "announce"}, rpc[id] # "removed" PROVE FALSE
    <3>1. ~Over(id)
      BY <1>2, <2>0, <2>1, <2>4 DEF EndComes
    <3>2. ending # None /\ ending = [id |-> id, terminal |-> TRUE]
      BY <1>3, <2>2, <2>4, <3>1 DEF Over
    <3>3. ending.terminal = TRUE /\ ending.id = id
      BY <3>2
    <3>4. ending' = ending \/ Terminal(ending.id) \in ToSet(events')
      BY <3>2, <3>3 DEF ShellEffect
    <3> QED BY <2>2, <3>2, <3>3, <3>4
  <2>5. ~(rpc[id] = "waiting" /\ rpc'[id] = "gone" /\ id \notin Mine /\ (id = running => id \in Wakes))
    <3> SUFFICES ASSUME rpc[id] = "waiting", id \notin Mine, id = running => id \in Wakes PROVE FALSE
      OBVIOUS
    <3>1. Started(id, running, rpc)
      BY <1>2, <1>4, <2>0 DEF Told
    <3> QED BY <1>4, <3>1 DEF Started
  <2>6. Response(id) \notin ToSet(events')
    BY DEF Answering
  <2> QED BY <2>2, <2>3, <2>4, <2>5, <2>6 DEF Moves
<1>12. Answered'
  <2>1. ASSUME NEW id \in Mine, Answering(id)' PROVE rpc'[id] = "gone"
    <3>1. id \in answers \/ Response(id) \in ToSet(events')
      BY <1>1, <2>1 DEF Answering
    <3>2. Answering(id) \/ rpc'[id] = "gone"
      BY <1>3, <3>1 DEF Answering
    <3> QED BY <1>10, <3>2
  <2>2. ASSUME NEW id \in answers PROVE ~Runs(events', id)
    <3>1. id \in Mine /\ id \in Prompts /\ Answering(id)
      BY <1>4, <1>5 DEF Answering
    <3>2. rpc[id] = "gone"
      BY <1>10, <3>1
    <3> QED BY <1>2, <1>3, <3>1, <3>2 DEF Answered
  <2>3. ASSUME NEW id \in Mine, rpc'[id] = "gone", id \notin lost', ~Answering(id)'
        PROVE  /\ pager.cur # id /\ ~Runs(events', id)
               /\ pager.stash # None => pager.stash.id # id
    <3>1. id \notin lost /\ ~Answering(id) /\ Response(id) \notin ToSet(events')
      BY <1>1, <1>10, <2>3 DEF Answering
    <3>2. Moves(id) /\ id \in Prompts
      BY <1>1, <1>4
    <3>3. rpc[id] = "gone"
      BY <2>3, <3>1, <3>2 DEF Moves
    <3> QED BY <1>2, <1>3, <3>1, <3>2, <3>3 DEF Answered
  <2> QED BY <1>1, <2>1, <2>2, <2>3 DEF Answered
<1>13. Shown' /\ InOrder(events')
  BY <1>1, <1>2, <1>3 DEF Shown
<1>14. InOrder(events)'
  BY <1>13 DEF InOrder
<1> QED BY <1>8, <1>9, <1>11, <1>12, <1>13, <1>14 DEF Screen

-----------------------------------------------------------------------------
(* A step of the pager preserves the invariant.                            *)

ShellSame ==
    /\ queue' = queue /\ running' = running /\ deltas' = deltas /\ ending' = ending
    /\ version' = version /\ rpc' = rpc

\* What is still to come of the end of a turn that stays on screen.
StaysTold(id) ==
    /\ pager.armed = id => pager'.armed = id
    /\ Answering(id) => Answering(id)'
    /\ \/ \A m \in {Terminal(id), Complete(id)} : m \in ToSet(events) => m \in ToSet(events')
       \/ pager'.armed = id \/ id \in missed'

\* Where the turn on screen and the stashed one come from, and what is left of
\* their announcements.
PagerEffect ==
    /\ ShellSame /\ lost' = lost /\ missed \subseteq missed'
    /\ ToSet(events') \subseteq ToSet(events) /\ ToSet(updates') \subseteq ToSet(updates)
    /\ ToSet(calls) \subseteq ToSet(calls') /\ InOrder(events')
    /\ pager'.state = "idle" => pager'.cur \notin Prompts
    /\ pager'.stash # None =>
          \/ pager.stash # None /\ pager'.stash.id = pager.stash.id
          \/ pager'.stash.id \in Prompts /\ Runs(events, pager'.stash.id)
    /\ \/ pager'.cur = pager.cur \/ pager'.cur \notin Prompts
       \/ pager.stash # None /\ pager'.cur = pager.stash.id
       \/ pager'.cur \in Prompts /\ Runs(events, pager'.cur)
       \/ pager'.cur \notin Mine /\ pager'.cur \in ToSet(updates)
       \/ pager'.cur \in Mine /\ rpc[pager'.cur] = "new" /\ PromptCall(pager'.cur) \in ToSet(calls')
    /\ pager'.cur \in Prompts /\ pager'.cur # pager.cur =>
          rpc[pager'.cur] = "new" \/ TakenUpLate \subseteq missed'
    /\ \A id \in Prompts : pager.cur = id /\ pager'.cur = id => StaysTold(id)
    /\ \A id \in Mine : Answering(id)' => Answering(id)
    /\ \A id \in Mine : Answering(id) /\ ~Answering(id)' =>
          id \in answers /\ pager'.cur # id /\ (pager'.stash # None => pager'.stash.id # id)
    /\ \A id \in answers' : ~Runs(events', id)

\* The screen stays right.
LEMMA ScreenPager ==
  ASSUME TypeOK, Screen, PagerEffect
  PROVE  Screen'
<1>1. /\ Shown /\ Told(running, rpc) /\ Dispatched /\ EndComes /\ Answered /\ InOrder(events)
  BY DEF Screen
<1>2. /\ running' = running /\ ending' = ending /\ rpc' = rpc /\ lost' = lost /\ missed \subseteq missed'
      /\ ToSet(events') \subseteq ToSet(events) /\ ToSet(updates') \subseteq ToSet(updates)
      /\ ToSet(calls) \subseteq ToSet(calls')
  BY DEF PagerEffect, ShellSame
<1>3. /\ Mine \subseteq Prompts /\ Theirs \subseteq Prompts
      /\ \A id \in Prompts : id \in Mine \/ id \in Theirs
      /\ Theirs \cap Mine = {}
  BY ClientTurnsAssumption DEF Prompts
<1>4. pager.stash # None => pager.stash.id \in Prompts
  BY PagerFields DEF TypeOK
<1>5. \A id : Runs(events', id) => Runs(events, id)
  BY <1>2 DEF Runs
<1>6. Told(running, rpc)'
  <2>1. pager'.stash # None => Started(pager'.stash.id, running, rpc)
    BY <1>1, <1>4 DEF PagerEffect, Told
  <2>2. ASSUME pager'.cur \in Theirs PROVE Started(pager'.cur, running, rpc)
    <3>1. pager'.cur \in Prompts /\ pager'.cur \notin Mine
      BY <1>3, <2>2
    <3> QED BY <1>1, <2>2, <3>1 DEF PagerEffect, Told
  <2>3. \A id \in Prompts : Runs(events', id) \/ id \in ToSet(updates') => Started(id, running, rpc)
    BY <1>1, <1>2, <1>5 DEF Told
  <2> QED BY <1>2, <2>1, <2>2, <2>3 DEF Told
<1>7. Dispatched'
  <2> SUFFICES ASSUME pager'.cur \in Mine, rpc[pager'.cur] = "new"
               PROVE  PromptCall(pager'.cur) \in ToSet(calls')
    BY <1>2 DEF Dispatched
  <2>1. pager'.cur \in Prompts /\ ~Started(pager'.cur, running, rpc)
    BY <1>3 DEF Started
  <2>2. \/ pager'.cur = pager.cur
        \/ PromptCall(pager'.cur) \in ToSet(calls')
    BY <1>1, <2>1 DEF PagerEffect, Told
  <2> QED BY <1>1, <1>2, <2>2 DEF Dispatched
<1>8. EndComes'
  <2>0. PICK id : id = pager'.cur
    OBVIOUS
  <2> SUFFICES ASSUME id \in Prompts, Over(id)', pager'.armed # id, id \notin missed', rpc[id] # "removed",
                      ~Answering(id)'
               PROVE  FALSE
    BY <1>2, <2>0 DEF EndComes
  <2>1. /\ rpc[id] \notin {"new", "waiting", "announce"}
        /\ ending # None => ending # [id |-> id, terminal |-> TRUE]
        /\ Terminal(id) \notin ToSet(events') /\ Complete(id) \notin ToSet(events')
    BY <1>2 DEF Over
  <2>2. CASE id # pager.cur
    <3>1. TakenUpLate \subseteq missed'
      BY <2>0, <2>1, <2>2 DEF PagerEffect
    <3>2. Announced(id)
      BY <2>1 DEF Announced
    <3> QED BY <2>0, <2>2, <3>1, <3>2 DEF TakenUpLate
  <2>3. CASE id = pager.cur
    <3>1. StaysTold(id)
      BY <2>0, <2>3 DEF PagerEffect
    <3>2. pager.armed # id /\ id \notin missed /\ ~Answering(id)
      BY <1>2, <3>1 DEF StaysTold
    <3>3. ~Over(id)
      BY <1>1, <2>3, <3>2 DEF EndComes
    <3>4. Terminal(id) \in ToSet(events) \/ Complete(id) \in ToSet(events)
      BY <2>1, <3>3 DEF Over
    <3> QED BY <2>1, <3>1, <3>4 DEF StaysTold
  <2> QED BY <2>2, <2>3
<1>9. Answered'
  <2>1. \A id \in Mine : Answering(id)' => rpc'[id] = "gone"
    BY <1>1, <1>2 DEF PagerEffect, Answered
  <2>2. \A id \in answers' : ~Runs(events', id)
    BY DEF PagerEffect
  <2>3. ASSUME NEW id \in Mine, rpc[id] = "gone", id \notin lost, ~Answering(id)'
        PROVE  /\ pager'.cur # id /\ ~Runs(events', id)
               /\ pager'.stash # None => pager'.stash.id # id
    <3>1. CASE Answering(id)
      <4>1. id \in answers /\ pager'.cur # id /\ (pager'.stash # None => pager'.stash.id # id)
        BY <2>3, <3>1 DEF PagerEffect
      <4> QED BY <1>1, <1>5, <4>1 DEF Answered
    <3>2. CASE ~Answering(id)
      <4>1. /\ pager.cur # id /\ ~Runs(events, id)
            /\ pager.stash # None => pager.stash.id # id
        BY <1>1, <2>3, <3>2 DEF Answered
      <4>2. id \in Prompts
        BY <1>3
      <4> QED BY <1>5, <2>3, <4>1, <4>2 DEF PagerEffect
    <3> QED BY <3>1, <3>2
  <2>4. \A id \in Mine : rpc'[id] = "gone" /\ id \notin lost' /\ ~Answering(id)' =>
          /\ pager'.cur # id /\ ~Runs(events', id)
          /\ pager'.stash # None => pager'.stash.id # id
    BY <1>2, <2>3
  <2> QED BY <2>1, <2>2, <2>4 DEF Answered
<1>10. InOrder(events)' /\ Shown'
  BY DEF PagerEffect, InOrder, Shown
<1> QED BY <1>6, <1>7, <1>8, <1>9, <1>10 DEF Screen

\* The shell's part of the invariant is not the pager's to change.
LEMMA ShellKept ==
  ASSUME Shell, ShellSame
  PROVE  Shell'
  BY DEF Shell, ShellSame

\* A step that touches no row and consumes no broadcast.
RowsKept ==
    /\ SameRows(pager, pager') /\ removes' = removes /\ ToSet(calls) \subseteq ToSet(calls')
    /\ Silent(events') => Silent(events)
    /\ \A rows : Current(events, rows) => Current(events', rows)
    /\ \A id : Shows(events, id) => Shows(events', id)

\* The rows still converge.
LEMMA MirrorKept ==
  ASSUME Mirror, ShellSame, RowsKept
  PROVE  Mirror'
  BY DEF Mirror, ShellSame, RowsKept, SameRows

\* What is sent after the typed prompts of which n are with the shell.
LEMMA SentAppend ==
  ASSUME NEW c \in Seq(CallType)
  PROVE  /\ Sent(c) \in Seq(CallType)
         /\ \A id \in Mine : Sent(Append(c, PromptCall(id))) = Append(Sent(c), PromptCall(id))
         /\ \A b \in BOOLEAN : Sent(Append(c, CancelCall(b))) = Sent(c)
<1> DEFINE K == {PromptCall(id) : id \in Mine}
<1>1. \A k \in K : k.kind = "prompt"
  BY CallTypes
<1>2. \A id \in Mine : PromptCall(id) \in K /\ PromptCall(id) \in CallType
  BY CallTypes
<1>3. \A b \in BOOLEAN : CancelCall(b) \notin K /\ CancelCall(b) \in CallType
  BY <1>1, CallTypes
<1>4. \A d : Sent(d) = Kept(d, K)
  BY DEF Sent
<1> HIDE DEF K
<1>5. Kept(c, K) \in Seq(CallType)
  BY KeptFacts
<1>6. ASSUME NEW x \in CallType
      PROVE  Kept(Append(c, x), K) = IF x \in K THEN Append(Kept(c, K), x) ELSE Kept(c, K)
  BY KeptAppend
<1>7. ASSUME NEW id \in Mine PROVE Sent(Append(c, PromptCall(id))) = Append(Sent(c), PromptCall(id))
  <2> DEFINE x == PromptCall(id)
  <2>1. x \in K /\ x \in CallType
    BY <1>2
  <2> HIDE DEF x
  <2>2. Sent(Append(c, x)) = Append(Sent(c), x)
    BY <1>4, <1>6, <2>1
  <2> QED BY <2>2 DEF x
<1>8. ASSUME NEW b \in BOOLEAN PROVE Sent(Append(c, CancelCall(b))) = Sent(c)
  <2> DEFINE x == CancelCall(b)
  <2>1. x \notin K /\ x \in CallType
    BY <1>3
  <2> HIDE DEF x
  <2>2. Sent(Append(c, x)) = Sent(c)
    BY <1>4, <1>6, <2>1
  <2> QED BY <2>2 DEF x
<1> QED BY <1>4, <1>5, <1>7, <1>8

\* One more sent, one less waiting.
LEMMA OneSent ==
  ASSUME NEW n \in Nat, NEW s \in Nat, NEW l \in Nat, NEW t, n + s + l = t,
         NEW a, NEW b, a = s + 1, b = l - 1
  PROVE  n + a + b = t
  OBVIOUS

\* One more typed, one more waiting.
LEMMA OneTyped ==
  ASSUME NEW n \in Nat, NEW s \in Nat, NEW l \in Nat, NEW t, n + s + l = t,
         NEW b, NEW u, b = l + 1, u = t + 1
  PROVE  n + s + b = u
  OBVIOUS

\* A prompt drained, or sent with nothing waiting locally, is the next one typed.
LEMMA OrderMoves ==
  ASSUME NEW t \in Seq(Mine), NEW n \in 0..Len(t), NEW s \in Seq(CallType), NEW l \in Seq(Mine),
         InTypedOrder(n, t, s, l)
  PROVE  /\ l # <<>> => InTypedOrder(n, t, Append(s, PromptCall(Head(l))), Tail(l))
         /\ \A id \in Mine : InTypedOrder(n, Append(t, id), s, Append(l, id))
         /\ \A id \in Mine : l = <<>> => InTypedOrder(n, Append(t, id), Append(s, PromptCall(id)), l)
<1>1. /\ n \in Nat /\ Len(s) \in Nat /\ Len(l) \in Nat /\ Len(t) \in Nat
      /\ n + Len(s) + Len(l) = Len(t)
  BY DEF InTypedOrder
<1>2. /\ \A i \in 1..Len(s) : s[i] = PromptCall(t[n + i])
      /\ \A i \in 1..Len(l) : l[i] = t[n + Len(s) + i]
  BY DEF InTypedOrder
<1>3. ASSUME l # <<>> PROVE InTypedOrder(n, t, Append(s, PromptCall(Head(l))), Tail(l))
  <2> DEFINE c == PromptCall(Head(l))
             a == Append(s, c)
             b == Tail(l)
  <2>1. /\ Len(b) = Len(l) - 1 /\ Len(l) >= 1 /\ Head(l) = l[1] /\ Head(l) \in Mine
        /\ \A i \in 1..Len(b) : b[i] = l[i + 1]
    BY <1>3
  <2>2. c \in CallType
    BY <2>1, CallTypes
  <2>3. c = PromptCall(t[n + (Len(s) + 1)])
    <3>1. 1 \in 1..Len(l) /\ n + Len(s) + 1 = n + (Len(s) + 1)
      BY <1>1, <2>1
    <3> QED BY <1>2, <2>1, <3>1
  <2> HIDE DEF c, b
  <2>4. /\ Len(a) = Len(s) + 1 /\ a[Len(s) + 1] = c /\ \A i \in 1..Len(s) : a[i] = s[i]
    BY <2>2
  <2> HIDE DEF a
  <2>5. n + Len(a) + Len(b) = Len(t)
    <3>1. Len(b) = Len(l) - 1 /\ Len(a) = Len(s) + 1
      BY <2>1, <2>4
    <3> QED BY SMTT(30), <1>1, <3>1, OneSent
  <2>6. ASSUME NEW i \in 1..Len(a) PROVE a[i] = PromptCall(t[n + i])
    <3>1. CASE i = Len(s) + 1
      BY <2>3, <2>4, <3>1
    <3>2. CASE i \in 1..Len(s)
      BY <1>2, <2>4, <3>2
    <3>3. i = Len(s) + 1 \/ i \in 1..Len(s)
      BY <1>1, <2>4
    <3> QED BY <3>1, <3>2, <3>3
  <2>7. ASSUME NEW i \in 1..Len(b) PROVE b[i] = t[n + Len(a) + i]
    <3>1. b[i] = l[i + 1] /\ i + 1 \in 1..Len(l) /\ n + Len(a) + i = n + Len(s) + (i + 1)
      BY <1>1, <2>1, <2>4
    <3>2. l[i + 1] = t[n + Len(s) + (i + 1)]
      BY <1>2, <3>1
    <3> QED BY <3>1, <3>2
  <2>8. InTypedOrder(n, t, a, b)
    BY <2>5, <2>6, <2>7 DEF InTypedOrder
  <2> QED BY <2>8 DEF a, b, c
<1>4. ASSUME NEW id \in Mine PROVE InTypedOrder(n, Append(t, id), s, Append(l, id))
  <2> DEFINE u == Append(t, id)
             k == Append(l, id)
  <2>1. /\ Len(u) = Len(t) + 1 /\ u[Len(t) + 1] = id /\ \A i \in 1..Len(t) : u[i] = t[i]
        /\ Len(k) = Len(l) + 1 /\ k[Len(l) + 1] = id /\ \A i \in 1..Len(l) : k[i] = l[i]
    OBVIOUS
  <2> HIDE DEF u, k
  <2>2. n + Len(s) + Len(k) = Len(u)
    <3>1. Len(k) = Len(l) + 1 /\ Len(u) = Len(t) + 1
      BY <2>1
    <3>2. n + Len(s) + (Len(l) + 1) = Len(t) + 1
      BY SMTT(30), <1>1, OneTyped
    <3> QED BY <3>1, <3>2, Zenon
  <2>3. ASSUME NEW i \in 1..Len(s) PROVE s[i] = PromptCall(u[n + i])
    <3>1. n + i \in 1..Len(t)
      BY <1>1
    <3> QED BY <1>2, <2>1, <3>1
  <2>4. ASSUME NEW i \in 1..Len(k) PROVE k[i] = u[n + Len(s) + i]
    <3>1. CASE i \in 1..Len(l)
      <4>1. n + Len(s) + i \in 1..Len(t)
        BY <1>1, <3>1
      <4> QED BY <1>2, <2>1, <3>1, <4>1
    <3>2. CASE i = Len(l) + 1
      <4>1. n + Len(s) + i = Len(t) + 1
        BY <1>1, <3>2
      <4> QED BY <2>1, <3>2, <4>1
    <3>3. i \in 1..Len(l) \/ i = Len(l) + 1
      BY <1>1, <2>1
    <3> QED BY <3>1, <3>2, <3>3
  <2>5. InTypedOrder(n, u, s, k)
    BY <2>2, <2>3, <2>4 DEF InTypedOrder
  <2> QED BY <2>5 DEF u, k
<1>5. ASSUME NEW id \in Mine, l = <<>> PROVE InTypedOrder(n, Append(t, id), Append(s, PromptCall(id)), l)
  <2> DEFINE u == Append(t, id)
             c == PromptCall(id)
             a == Append(s, c)
  <2>1. c \in CallType
    BY CallTypes
  <2>2. /\ Len(u) = Len(t) + 1 /\ u[Len(t) + 1] = id /\ \A i \in 1..Len(t) : u[i] = t[i]
    OBVIOUS
  <2> HIDE DEF u, c
  <2>3. /\ Len(a) = Len(s) + 1 /\ a[Len(s) + 1] = c /\ \A i \in 1..Len(s) : a[i] = s[i]
    BY <2>1
  <2>4. Len(l) = 0 /\ n + Len(s) = Len(t)
    BY <1>1, <1>5
  <2> HIDE DEF a
  <2>5. n + Len(a) + Len(l) = Len(u)
    BY <1>1, <2>2, <2>3, <2>4
  <2>6. ASSUME NEW i \in 1..Len(a) PROVE a[i] = PromptCall(u[n + i])
    <3>1. CASE i = Len(s) + 1
      <4>1. n + i = Len(t) + 1
        BY <1>1, <2>4, <3>1
      <4> QED BY <2>2, <2>3, <3>1, <4>1 DEF c
    <3>2. CASE i \in 1..Len(s)
      <4>1. n + i \in 1..Len(t)
        BY <1>1, <3>2
      <4> QED BY <1>2, <2>2, <2>3, <3>2, <4>1
    <3>3. i = Len(s) + 1 \/ i \in 1..Len(s)
      BY <1>1, <2>3
    <3> QED BY <3>1, <3>2, <3>3
  <2>7. InTypedOrder(n, u, a, l)
    BY <2>4, <2>5, <2>6 DEF InTypedOrder
  <2> QED BY <2>7 DEF u, a, c
<1> QED BY <1>3, <1>4, <1>5

\* The pager settles: a local prompt is sent and shown, or nothing more happens.
LEMMA SettleFields ==
  ASSUME NEW p \in PagerType, calls \in Seq(CallType), Settle(p)
  PROVE  /\ pager' \in PagerType /\ calls' \in Seq(CallType) /\ ToSet(calls) \subseteq ToSet(calls')
         /\ SameRows(p, pager') /\ pager'.stash = p.stash /\ pager'.armed = p.armed
         /\ \/ /\ p.state = "idle" /\ p.local # <<>> /\ Head(p.local) \in Mine
               /\ pager'.cur = Head(p.local) /\ pager'.state = "running"
               /\ pager'.local = Tail(p.local)
               /\ calls' = Append(calls, PromptCall(Head(p.local)))
               /\ PromptCall(Head(p.local)) \in ToSet(calls')
            \/ pager' = p /\ calls' = calls
<1> DEFINE r == Drain(p)
<1>1. /\ r \in PagerType /\ SameRows(p, r) /\ r.stash = p.stash /\ r.armed = p.armed
      /\ \/ /\ p.state = "idle" /\ p.local # <<>> /\ Head(p.local) \in Mine
            /\ r.cur = Head(p.local) /\ r.state = "running" /\ r.local = Tail(p.local)
            /\ SendDrained(p) = <<PromptCall(Head(p.local))>>
         \/ /\ r = p /\ SendDrained(p) = <<>>
  BY DrainFields
<1>2. pager' = r /\ calls' = calls \o SendDrained(p)
  BY DEF Settle
<1> HIDE DEF r
<1>3. CASE r = p /\ SendDrained(p) = <<>>
  <2>1. calls \o <<>> = calls
    OBVIOUS
  <2>2. calls' = calls
    BY <1>2, <1>3, <2>1
  <2> QED BY <1>1, <1>2, <1>3, <2>2
<1>4. CASE /\ p.state = "idle" /\ p.local # <<>> /\ Head(p.local) \in Mine
           /\ r.cur = Head(p.local) /\ r.state = "running" /\ r.local = Tail(p.local)
           /\ SendDrained(p) = <<PromptCall(Head(p.local))>>
  <2> DEFINE c == PromptCall(Head(p.local))
  <2>1. c \in CallType
    BY <1>4, CallTypes
  <2>2. SendDrained(p) = <<c>>
    BY <1>4
  <2> HIDE DEF c
  <2>3. calls' = Append(calls, c)
    BY <1>2, <2>1, <2>2
  <2>4. Append(calls, c) \in Seq(CallType) /\ ToSet(Append(calls, c)) = ToSet(calls) \cup {c}
    BY <2>1, AppendFacts
  <2> QED BY <1>1, <1>2, <1>4, <2>3, <2>4 DEF c
<1> QED BY <1>1, <1>3, <1>4

\* Settling keeps the typed order.
LEMMA OrderSettle ==
  ASSUME NEW p \in PagerType, calls \in Seq(CallType), Settle(p),
         NEW t \in Seq(Mine), NEW n \in 0..Len(t), InTypedOrder(n, t, Sent(calls), p.local)
  PROVE  InTypedOrder(n, t, Sent(calls'), pager'.local)
<1>1. \/ /\ p.local # <<>> /\ Head(p.local) \in Mine /\ pager'.local = Tail(p.local)
         /\ calls' = Append(calls, PromptCall(Head(p.local)))
      \/ pager' = p /\ calls' = calls
  BY SettleFields
<1>2. CASE pager' = p /\ calls' = calls
  BY <1>2
<1>3. CASE /\ p.local # <<>> /\ Head(p.local) \in Mine /\ pager'.local = Tail(p.local)
           /\ calls' = Append(calls, PromptCall(Head(p.local)))
  <2> DEFINE s == Sent(calls)
             l == p.local
             c == PromptCall(Head(p.local))
  <2>1. s \in Seq(CallType) /\ Sent(calls') = Append(s, c)
    BY <1>3, SentAppend
  <2>2. l \in Seq(Mine) /\ l # <<>> /\ InTypedOrder(n, t, s, l)
    BY <1>3, PagerFields
  <2>3. InTypedOrder(n, t, Append(s, PromptCall(Head(l))), Tail(l))
    <3> HIDE DEF s, l
    <3> QED BY <2>1, <2>2, OrderMoves
  <2> QED BY <1>3, <2>1, <2>3
<1> QED BY <1>1, <1>2, <1>3

\* A step that types nothing keeps the order.
LEMMA OrderKept ==
  ASSUME TypeOK, Order, rpc' = rpc, typed' = typed,
         \/ pager'.local = pager.local /\ Sent(calls') = Sent(calls)
         \/ \E p \in PagerType : p.local = pager.local /\ Settle(p)
  PROVE  Order'
<1>1. /\ calls \in Seq(CallType) /\ typed \in Seq(Mine) /\ Distinct(typed)
  BY DEF TypeOK, Order
<1>2. PICK n \in 0..Len(typed) :
         HandedOver(n, typed, rpc) /\ InTypedOrder(n, typed, Sent(calls), pager.local)
  BY DEF Order
<1>3. InTypedOrder(n, typed, Sent(calls'), pager'.local)
  <2>1. CASE pager'.local = pager.local /\ Sent(calls') = Sent(calls)
    BY <1>2, <2>1
  <2>2. CASE \E p \in PagerType : p.local = pager.local /\ Settle(p)
    <3>1. PICK p \in PagerType : p.local = pager.local /\ Settle(p)
      BY <2>2
    <3>2. InTypedOrder(n, typed, Sent(calls), p.local)
      BY <1>2, <3>1
    <3> QED BY <1>1, <3>1, <3>2, OrderSettle
  <2> QED BY <2>1, <2>2
<1> QED BY <1>1, <1>2, <1>3 DEF Order

\* Typing one more prompt does not change what was handed over.
LEMMA OrderGrows ==
  ASSUME NEW t \in Seq(Mine), NEW n \in 0..Len(t), NEW r, HandedOver(n, t, r), Distinct(t),
         NEW id \in Mine, id \notin ToSet(t)
  PROVE  /\ HandedOver(n, Append(t, id), r) /\ Distinct(Append(t, id))
         /\ Append(t, id) \in Seq(Mine) /\ n \in 0..Len(Append(t, id)) /\ r[id] = "new"
<1> DEFINE u == Append(t, id)
<1>1. u \in Seq(Mine) /\ Distinct(u)
  BY AppendFacts
<1>2. Len(u) = Len(t) + 1 /\ Len(t) \in Nat /\ \A i \in 1..Len(t) : u[i] = t[i]
  OBVIOUS
<1> HIDE DEF u
<1>3. n \in 0..Len(u) /\ \A i \in 1..n : i \in 1..Len(t) /\ u[i] = t[i]
  BY <1>2
<1>4. HandedOver(n, u, r)
  BY <1>3 DEF HandedOver
<1>5. r[id] = "new"
  <2>1. \A i \in 1..Len(t) : t[i] # id
    BY Elements
  <2> QED BY <1>3, <2>1 DEF HandedOver
<1> QED BY <1>1, <1>3, <1>4, <1>5 DEF u

\* The turn on screen is untouched or gone, and nothing was received.
LEMMA SameScreen ==
  ASSUME TypeOK, Screen, ShellSame, lost' = lost, missed' = missed, events' = events,
         updates' = updates, answers' = answers, ToSet(calls) \subseteq ToSet(calls'),
         pager'.stash = pager.stash, pager'.armed = pager.armed,
         pager'.cur = pager.cur \/ pager'.cur \notin Prompts,
         pager'.state = "idle" => pager'.cur \notin Prompts
  PROVE  Screen'
<1>1. InOrder(events') /\ \A id \in answers' : ~Runs(events', id)
  BY DEF Screen, Answered
<1>2. \A id \in Prompts : StaysTold(id)
  BY DEF StaysTold, Answering
<1>3. \A id \in Mine : Answering(id)' <=> Answering(id)
  BY DEF Answering
<1>4. PagerEffect
  BY <1>1, <1>2, <1>3 DEF PagerEffect
<1> QED BY <1>4, ScreenPager

\* The types of a step of the pager.
LEMMA TypesPager ==
  ASSUME TypeOK, ShellSame, lost' = lost, missed' \in SUBSET Prompts, pager' \in PagerType,
         typed' \in Seq(Mine), calls' \in Seq(CallType), removes' \in SUBSET RowType,
         events' \in Seq(EventType), updates' \in Seq(Ids), answers' \in SUBSET Mine, commands' \in Nat
  PROVE  TypeOK'
  BY DEF TypeOK, ShellSame

\* An echo goes behind the rows.
LEMMA EchoAppended ==
  ASSUME NEW rows \in Seq(RowType), NEW s \in Seq(Mine), NEW id \in Mine
  PROVE  Append(rows \o Pinned(s), Row(id, 0)) = rows \o Pinned(Append(s, id))
<1> DEFINE p == Pinned(s)
           a == Append(s, id)
           x == Row(id, 0)
           q == Pinned(a)
<1>1. p \in Seq(RowType) /\ Len(p) = Len(s) /\ \A i \in 1..Len(s) : p[i] = Row(s[i], 0)
  BY PinnedFields
<1>2. a \in Seq(Mine) /\ Len(a) = Len(s) + 1 /\ a[Len(s) + 1] = id /\ \A i \in 1..Len(s) : a[i] = s[i]
  OBVIOUS
<1>3. x \in RowType
  BY DEF Row, RowType, Prompts
<1> HIDE DEF a
<1>4. q \in Seq(RowType) /\ Len(q) = Len(a) /\ \A i \in 1..Len(a) : q[i] = Row(a[i], 0)
  BY <1>2, PinnedFields
<1>5. x = Row(id, 0)
  OBVIOUS
<1> HIDE DEF p, q, x
<1>6. q = Append(p, x)
  <2>1. Len(s) \in Nat
    OBVIOUS
  <2>2. Len(q) = Len(p) + 1 /\ q[Len(p) + 1] = x
    BY <1>1, <1>2, <1>4, <1>5, <2>1
  <2>3. \A i \in 1..Len(p) : q[i] = p[i]
    BY <1>1, <1>2, <1>4, <2>1
  <2> QED BY <1>1, <1>3, <1>4, <2>2, <2>3
<1>7. Append(rows \o p, x) = rows \o Append(p, x)
  BY SMTT(30), <1>1, <1>3
<1> QED BY <1>6, <1>7 DEF p, q, x, a

\* A prompt typed while the session is busy.
LEMMA SendNowStep ==
  ASSUME Inv, NEW id \in Mine, SendNow(id)
  PROVE  Inv'
<1> DEFINE rows == Append(pager.shared, Row(id, 0))
           ech == Append(pager.echoes, id)
<1>1. /\ TypeOK /\ Shell /\ Order /\ Mirror /\ Screen
  BY DEF Inv
<1>2. /\ id \notin ToSet(typed) /\ pager.local = <<>>
      /\ typed' = Append(typed, id) /\ calls' = Append(calls, PromptCall(id))
      /\ pager' = [pager EXCEPT !.shared = rows, !.mirror = rows, !.echoes = ech]
      /\ UNCHANGED <<removes, events, updates, answers, commands, lost, missed>> /\ ShellSame
  BY DEF SendNow, SendEligible, shellVars, ShellSame
<1>3. /\ pager \in PagerType /\ typed \in Seq(Mine) /\ calls \in Seq(CallType)
      /\ queue \in Seq(Ids) /\ version \in [Prompts -> Nat]
  BY <1>1 DEF TypeOK
<1>4. pager.shared \in Seq(RowType) /\ pager.echoes \in Seq(Mine) /\ pager.local \in Seq(Mine)
  BY <1>3, PagerFields
<1>5. Row(id, 0) \in RowType
  BY DEF Row, RowType, Prompts
<1>6. rows \in Seq(RowType) /\ ech \in Seq(Mine) /\ ToSet(ech) = ToSet(pager.echoes) \cup {id}
  BY <1>4, <1>5, AppendFacts
<1>7. /\ calls' \in Seq(CallType) /\ ToSet(calls') = ToSet(calls) \cup {PromptCall(id)}
  <2>1. PromptCall(id) \in CallType
    BY CallTypes
  <2> QED BY <1>2, <1>3, <2>1, AppendFacts
<1>8. rows = Append(pager.shared, Row(id, 0)) /\ ech = Append(pager.echoes, id)
  OBVIOUS
<1> HIDE DEF rows, ech
<1>9. /\ pager' \in PagerType /\ pager'.cur = pager.cur /\ pager'.state = pager.state
      /\ pager'.stash = pager.stash /\ pager'.armed = pager.armed /\ pager'.local = pager.local
      /\ pager'.shared = rows /\ pager'.mirror = rows /\ pager'.echoes = ech
  BY <1>2, <1>3, <1>6 DEF PagerType
<1>10. PICK n \in 0..Len(typed) :
          HandedOver(n, typed, rpc) /\ InTypedOrder(n, typed, Sent(calls), pager.local)
  BY <1>1 DEF Order
<1>11. /\ HandedOver(n, Append(typed, id), rpc) /\ Distinct(Append(typed, id))
       /\ Append(typed, id) \in Seq(Mine) /\ n \in 0..Len(Append(typed, id))
  BY <1>1, <1>2, <1>3, <1>10, OrderGrows DEF Order
<1>12. TypeOK'
  BY <1>1, <1>2, <1>7, <1>9, <1>11, TypesPager DEF TypeOK
<1>13. Shell'
  BY <1>1, <1>2, ShellKept
<1>14. Order'
  <2> DEFINE s == Sent(calls)
             l == pager.local
  <2>1. s \in Seq(CallType) /\ Sent(calls') = Append(s, PromptCall(id))
    BY <1>2, <1>3, SentAppend
  <2>2. l \in Seq(Mine) /\ l = <<>> /\ InTypedOrder(n, typed, s, l)
    BY <1>2, <1>4, <1>10
  <2> HIDE DEF s, l
  <2>3. InTypedOrder(n, Append(typed, id), Append(s, PromptCall(id)), l)
    BY <1>3, <2>1, <2>2, OrderMoves
  <2>4. InTypedOrder(n, typed', Sent(calls'), pager'.local) /\ HandedOver(n, typed', rpc')
    BY <1>2, <1>9, <1>11, <2>1, <2>3 DEF l, ShellSame
  <2> QED BY <1>2, <1>11, <2>4 DEF Order
<1>15. Mirror'
  <2> DEFINE R == Rows(queue, running, version)
  <2>1. R \in Seq(RowType)
    BY <1>3, RowsFields
  <2>2. R = Rows(queue', running', version')
    BY <1>2 DEF ShellSame
  <2>3. Current(events, R) /\ (Silent(events) => pager.shared = R \o Pinned(pager.echoes))
    BY <1>1 DEF Mirror
  <2> HIDE DEF R
  <2>4. Append(R \o Pinned(pager.echoes), Row(id, 0)) = R \o Pinned(Append(pager.echoes, id))
    BY <1>4, <2>1, EchoAppended
  <2>5. Silent(events) => rows = R \o Pinned(ech)
    BY <1>8, <2>3, <2>4
  <2>6. \A x \in ToSet(ech) : PromptCall(x) \in ToSet(calls') \/ Shows(events, x)
    BY <1>1, <1>6, <1>7 DEF Mirror
  <2> QED BY <1>2, <1>9, <2>2, <2>3, <2>5, <2>6 DEF Mirror
<1>16. Screen'
  <2>1. ToSet(calls) \subseteq ToSet(calls')
    BY <1>7
  <2>2. pager'.state = "idle" => pager'.cur \notin Prompts
    BY <1>1, <1>9 DEF Screen, Shown
  <2> QED BY <1>1, <1>2, <1>9, <2>1, <2>2, SameScreen
<1> QED BY <1>12, <1>13, <1>14, <1>15, <1>16 DEF Inv

\* A step that receives no event: the turn on screen stays, ends, gives way to the
\* stashed one, or a local prompt is sent and shown.
LEMMA ScreenSettles ==
  ASSUME TypeOK, Screen, ShellSame, lost' = lost, missed \subseteq missed', events' = events,
         updates' = updates, answers' \subseteq answers,
         NEW p \in PagerType, Settle(p) \/ (pager' = p /\ calls' = calls),
         p.state = "idle" => p.cur \notin Prompts,
         p.state = "idle" /\ p.local # <<>> =>
             rpc[Head(p.local)] = "new" /\ Head(p.local) # pager.cur,
         p.stash # None => p.stash = pager.stash,
         p.cur = pager.cur \/ p.cur \notin Prompts \/ (pager.stash # None /\ p.cur = pager.stash.id),
         p.cur = pager.cur /\ pager.cur \in Prompts /\ pager.armed = pager.cur => p.armed = pager.armed,
         p.cur = pager.cur \/ TakenUpLate \subseteq missed',
         \A a \in answers : a \in answers' \/ (p.cur # a /\ (p.stash # None => p.stash.id # a))
  PROVE  Screen'
<1>1. calls \in Seq(CallType) /\ pager \in PagerType /\ answers \subseteq Mine
  BY DEF TypeOK
<1>2. /\ ToSet(calls) \subseteq ToSet(calls') /\ pager'.stash = p.stash /\ pager'.armed = p.armed
      /\ \/ /\ p.state = "idle" /\ p.local # <<>> /\ Head(p.local) \in Mine
            /\ pager'.cur = Head(p.local) /\ pager'.state = "running"
            /\ PromptCall(Head(p.local)) \in ToSet(calls')
         \/ pager' = p
  <2>1. CASE Settle(p)
    BY <1>1, <2>1, SettleFields
  <2>2. CASE pager' = p /\ calls' = calls
    BY <2>2
  <2> QED BY <2>1, <2>2
<1>3. PICK drained \in BOOLEAN :
         /\ drained => /\ pager'.cur \in Mine /\ rpc[pager'.cur] = "new" /\ pager'.cur # pager.cur
                       /\ pager'.state = "running" /\ PromptCall(pager'.cur) \in ToSet(calls')
         /\ ~drained => pager' = p
  BY <1>2
<1>4. Answered /\ InOrder(events)
  BY DEF Screen
<1>5. \A id \in Mine : Answering(id) => rpc[id] = "gone"
  BY <1>4 DEF Answered
<1>6. \A id \in Mine : Answering(id)' => Answering(id)
  BY DEF Answering
<1>7. ASSUME NEW id \in Mine, Answering(id), ~Answering(id)'
      PROVE  id \in answers /\ pager'.cur # id /\ (pager'.stash # None => pager'.stash.id # id)
  <2>1. id \in answers /\ id \notin answers'
    BY <1>7 DEF Answering
  <2>2. rpc[id] # "new"
    BY <1>5, <1>7
  <2> QED BY <1>2, <1>3, <2>1, <2>2
<1>8. ASSUME NEW id \in Prompts, pager.cur = id, pager'.cur = id PROVE StaysTold(id)
  <2>1. ~drained /\ p.cur = id
    BY <1>3, <1>8
  <2>2. pager.armed = id => pager'.armed = id
    BY <1>2, <1>8, <2>1
  <2>3. Answering(id) => Answering(id)'
    BY <1>8, <2>1 DEF Answering
  <2> QED BY <2>2, <2>3 DEF StaysTold
<1>9. pager'.stash # None => pager.stash # None /\ pager'.stash.id = pager.stash.id
  BY <1>2
<1>10. \/ pager'.cur = pager.cur \/ pager'.cur \notin Prompts
       \/ pager.stash # None /\ pager'.cur = pager.stash.id
       \/ pager'.cur \in Mine /\ rpc[pager'.cur] = "new" /\ PromptCall(pager'.cur) \in ToSet(calls')
  BY <1>3
<1>11. pager'.cur \in Prompts /\ pager'.cur # pager.cur =>
          rpc[pager'.cur] = "new" \/ TakenUpLate \subseteq missed'
  BY <1>3
<1>12. pager'.state = "idle" => pager'.cur \notin Prompts
  BY <1>3
<1>13. InOrder(events') /\ \A id \in answers' : ~Runs(events', id)
  BY <1>4 DEF Answered
<1>14. PagerEffect
  BY <1>2, <1>6, <1>7, <1>8, <1>9, <1>10, <1>11, <1>12, <1>13 DEF PagerEffect
<1> QED BY <1>14, ScreenPager

\* The oldest prompt that waits in the pager is new to the shell and not on screen.
LEMMA OldestLocal ==
  ASSUME TypeOK, Order, Screen, pager.local # <<>>
  PROVE  /\ Head(pager.local) \in Mine /\ rpc[Head(pager.local)] = "new"
         /\ Head(pager.local) # pager.cur
<1>1. pager.local \in Seq(Mine)
  BY PagerFields DEF TypeOK
<1>2. 1 \in 1..Len(pager.local) /\ Head(pager.local) = pager.local[1] /\ Head(pager.local) \in Mine
  BY <1>1
<1>3. rpc[Head(pager.local)] = "new" /\ PromptCall(Head(pager.local)) \notin ToSet(calls)
  BY <1>2, NotHandedOver
<1> QED BY <1>2, <1>3 DEF Screen, Dispatched

\* A prompt typed while the session is idle, or with images.
LEMMA SendLocalStep ==
  ASSUME Inv, NEW id \in Mine, SendLocal(id)
  PROVE  Inv'
<1> DEFINE l == Append(pager.local, id)
           p == [pager EXCEPT !.local = l]
<1>1. /\ TypeOK /\ Shell /\ Order /\ Mirror /\ Screen
  BY DEF Inv
<1>2. /\ id \notin ToSet(typed) /\ typed' = Append(typed, id) /\ Settle(p)
      /\ UNCHANGED <<removes, events, updates, answers, commands, lost, missed>> /\ ShellSame
  BY DEF SendLocal, shellVars, ShellSame
<1>3. /\ pager \in PagerType /\ typed \in Seq(Mine) /\ calls \in Seq(CallType)
  BY <1>1 DEF TypeOK
<1>4. pager.local \in Seq(Mine)
  BY <1>3, PagerFields
<1>5. l \in Seq(Mine) /\ l # <<>> /\ (Head(l) = id \/ (pager.local # <<>> /\ Head(l) = Head(pager.local)))
  <2>1. Len(l) = Len(pager.local) + 1 /\ Len(pager.local) \in Nat /\ l \in Seq(Mine)
        /\ l[Len(pager.local) + 1] = id /\ \A i \in 1..Len(pager.local) : l[i] = pager.local[i]
    BY <1>4
  <2> HIDE DEF l
  <2>2. CASE pager.local = <<>>
    <3>1. Len(l) = 1 /\ l[1] = id
      BY <2>1, <2>2
    <3> QED BY SMTT(30), <2>1, <3>1
  <2>3. CASE pager.local # <<>>
    <3>1. 1 \in 1..Len(pager.local) /\ Head(pager.local) = pager.local[1]
      BY <1>4, <2>3
    <3> QED BY <2>1, <2>3, <3>1
  <2> QED BY <2>2, <2>3
<1>6. l = Append(pager.local, id)
  OBVIOUS
<1> HIDE DEF l
<1>7. /\ p \in PagerType /\ SameRows(pager, p) /\ p.local = l /\ p.stash = pager.stash
      /\ p.armed = pager.armed /\ p.cur = pager.cur /\ p.state = pager.state
  BY <1>3, <1>5 DEF PagerType, SameRows
<1> HIDE DEF p
<1>8. PICK n \in 0..Len(typed) :
          HandedOver(n, typed, rpc) /\ InTypedOrder(n, typed, Sent(calls), pager.local)
  BY <1>1 DEF Order
<1>9. /\ HandedOver(n, Append(typed, id), rpc) /\ Distinct(Append(typed, id))
      /\ Append(typed, id) \in Seq(Mine) /\ n \in 0..Len(Append(typed, id)) /\ rpc[id] = "new"
  BY <1>1, <1>2, <1>3, <1>8, OrderGrows DEF Order
<1>10. /\ pager' \in PagerType /\ calls' \in Seq(CallType) /\ ToSet(calls) \subseteq ToSet(calls')
       /\ SameRows(p, pager')
  BY <1>2, <1>3, <1>7, SettleFields
<1>11. TypeOK'
  BY <1>1, <1>2, <1>9, <1>10, TypesPager DEF TypeOK
<1>12. Shell'
  BY <1>1, <1>2, ShellKept
<1>13. Order'
  <2> DEFINE s == Sent(calls)
             k == pager.local
  <2>1. s \in Seq(CallType) /\ k \in Seq(Mine) /\ InTypedOrder(n, typed, s, k)
    BY <1>3, <1>4, <1>8, SentAppend
  <2> HIDE DEF s, k
  <2>2. InTypedOrder(n, Append(typed, id), s, Append(k, id))
    BY <1>3, <2>1, OrderMoves
  <2>3. InTypedOrder(n, typed', Sent(calls), p.local)
    BY <1>2, <1>6, <1>7, <2>2 DEF s, k
  <2>4. InTypedOrder(n, typed', Sent(calls'), pager'.local)
    <3> DEFINE t == typed'
    <3>1. t \in Seq(Mine) /\ n \in 0..Len(t) /\ InTypedOrder(n, t, Sent(calls), p.local)
      BY <1>2, <1>9, <2>3
    <3> HIDE DEF t
    <3>2. InTypedOrder(n, t, Sent(calls'), pager'.local)
      BY <1>2, <1>3, <1>7, <3>1, OrderSettle
    <3> QED BY <3>2 DEF t
  <2>5. HandedOver(n, typed', rpc')
    BY <1>2, <1>9 DEF ShellSame
  <2> QED BY <1>2, <1>9, <2>4, <2>5 DEF Order
<1>14. Mirror'
  <2>1. SameRows(pager, pager')
    BY <1>7, <1>10 DEF SameRows
  <2>2. RowsKept
    BY <1>2, <1>10, <2>1 DEF RowsKept
  <2> QED BY <1>1, <1>2, <2>2, MirrorKept
<1>15. Screen'
  <2>1. p.state = "idle" => p.cur \notin Prompts
    BY <1>1, <1>7 DEF Screen, Shown
  <2>2. rpc[Head(p.local)] = "new" /\ Head(p.local) \in Mine
    BY <1>1, <1>5, <1>7, <1>9, OldestLocal
  <2>3. p.state = "idle" => Head(p.local) # pager.cur
    BY <1>7, <2>1, <2>2 DEF Prompts
  <2>4. /\ p.stash # None => p.stash = pager.stash
        /\ p.cur = pager.cur /\ p.armed = pager.armed
        /\ lost' = lost /\ missed \subseteq missed' /\ events' = events /\ updates' = updates
        /\ answers' \subseteq answers /\ \A a \in answers : a \in answers'
    BY <1>2, <1>7
  <2> QED BY <1>1, <1>2, <1>7, <2>1, <2>2, <2>3, <2>4, ScreenSettles
<1> QED BY <1>11, <1>12, <1>13, <1>14, <1>15 DEF Inv

\* The user cancels the turn on screen.
LEMMA CancelTurnStep ==
  ASSUME Inv, NEW enabled \in BOOLEAN, CancelTurn(enabled)
  PROVE  Inv'
<1>1. /\ TypeOK /\ Shell /\ Order /\ Mirror /\ Screen
  BY DEF Inv
<1>2. PICK rewind \in BOOLEAN :
         /\ pager' = IF rewind THEN FinishTurn(pager) ELSE [pager EXCEPT !.state = "cancelling"]
         /\ calls' = Append(calls, CancelCall(rewind))
  <2> DEFINE rw == enabled /\ pager.inFlight /\ pager.mirror = <<>> /\ pager.local = <<>>
  <2>1. pager' = IF rw THEN FinishTurn(pager) ELSE [pager EXCEPT !.state = "cancelling"]
    BY DEF CancelTurn
  <2>2. calls' = Append(calls, CancelCall(rw))
    BY DEF CancelTurn
  <2>3. rw \in BOOLEAN
    BY <1>1, PagerFields DEF TypeOK
  <2> HIDE DEF rw
  <2> QED BY <2>1, <2>2, <2>3
<1>3. /\ commands' = commands + 1 /\ ShellSame
      /\ UNCHANGED <<typed, removes, events, updates, answers, lost, missed>>
  BY DEF CancelTurn, shellVars, ShellSame
<1>4. pager \in PagerType /\ calls \in Seq(CallType) /\ commands \in Nat
  BY <1>1 DEF TypeOK
<1>5. /\ pager' \in PagerType /\ SameRows(pager, pager') /\ pager'.local = pager.local
      /\ pager'.stash = pager.stash /\ pager'.armed = pager.armed
      /\ \/ pager'.cur = None
         \/ pager'.cur = pager.cur /\ pager'.state = "cancelling"
  <2>1. CASE rewind
    BY <1>2, <1>4, <2>1, FinishTurnFields
  <2>2. CASE ~rewind
    BY <1>2, <1>4, <2>2 DEF PagerType, SameRows
  <2> QED BY <2>1, <2>2
<1>6. /\ calls' \in Seq(CallType) /\ ToSet(calls) \subseteq ToSet(calls') /\ Sent(calls') = Sent(calls)
  <2>1. CancelCall(rewind) \in CallType
    BY CallTypes
  <2> QED BY <1>2, <1>4, <2>1, AppendFacts, SentAppend
<1>7. commands' \in Nat
  BY <1>3, <1>4
<1>8. TypeOK'
  BY <1>1, <1>3, <1>5, <1>6, <1>7, TypesPager DEF TypeOK
<1>9. Shell'
  BY <1>1, <1>3, ShellKept
<1>10. Order'
  BY <1>1, <1>3, <1>5, <1>6, OrderKept DEF ShellSame
<1>11. Mirror'
  <2>1. RowsKept
    BY <1>3, <1>5, <1>6 DEF RowsKept
  <2> QED BY <1>1, <1>3, <2>1, MirrorKept
<1>12. Screen'
  <2>1. None \notin Prompts
    BY ClientTurnsAssumption DEF Ids
  <2>2. /\ pager'.cur = pager.cur \/ pager'.cur \notin Prompts
        /\ pager'.state = "idle" => pager'.cur \notin Prompts
    BY <1>5, <2>1
  <2> QED BY <1>1, <1>3, <1>5, <1>6, <2>2, SameScreen
<1> QED BY <1>8, <1>9, <1>10, <1>11, <1>12 DEF Inv

\* The user deletes a server row.
LEMMA RemoveRowStep ==
  ASSUME Inv, NEW row \in ToSet(pager.mirror), RemoveRow(row)
  PROVE  Inv'
<1> DEFINE rows == Without(pager.mirror, {row.id})
<1>1. /\ TypeOK /\ Shell /\ Order /\ Mirror /\ Screen
  BY DEF Inv
<1>2. /\ pager' = [pager EXCEPT !.mirror = rows]
      /\ removes' = removes \cup {row} /\ commands' = commands + 1 /\ ShellSame
      /\ UNCHANGED <<typed, calls, events, updates, answers, lost, missed>>
  BY DEF RemoveRow, shellVars, ShellSame
<1>3. pager \in PagerType /\ commands \in Nat /\ removes \subseteq RowType
  BY <1>1 DEF TypeOK
<1>4. pager.mirror \in Seq(RowType)
  BY <1>3, PagerFields
<1>5. row \in RowType /\ rows \in Seq(RowType)
  BY <1>4, Elements, WithoutFields
<1> HIDE DEF rows
<1>6. /\ pager' \in PagerType /\ pager'.cur = pager.cur /\ pager'.state = pager.state
      /\ pager'.stash = pager.stash /\ pager'.armed = pager.armed /\ pager'.local = pager.local
      /\ pager'.shared = pager.shared /\ pager'.echoes = pager.echoes
  BY <1>2, <1>3, <1>5 DEF PagerType
<1>7. commands' \in Nat /\ removes' \in SUBSET RowType
  BY <1>2, <1>3, <1>5
<1>8. TypeOK'
  BY <1>1, <1>2, <1>6, <1>7, TypesPager DEF TypeOK
<1>9. Shell'
  BY <1>1, <1>2, ShellKept
<1>10. Order'
  BY <1>1, <1>2, <1>6, OrderKept DEF ShellSame
<1>11. Mirror'
  <2>1. removes' # {}
    BY <1>2
  <2> QED BY <1>1, <1>2, <1>6, <2>1 DEF Mirror, ShellSame
<1>12. Screen'
  <2>1. pager'.state = "idle" => pager'.cur \notin Prompts
    BY <1>1, <1>6 DEF Screen, Shown
  <2> QED BY <1>1, <1>2, <1>6, <2>1, SameScreen
<1> QED BY <1>8, <1>9, <1>10, <1>11, <1>12 DEF Inv

\* An event other than a broadcast leaves the rows alone.
LEMMA RowsAfterEvent ==
  ASSUME TypeOK, events # <<>>, events' = Tail(events), Head(events).kind # "changed",
         SameRows(pager, pager'), removes' = removes, calls' = calls
  PROVE  RowsKept
<1>1. events \in Seq(EventType)
  BY DEF TypeOK
<1>2. /\ Silent(events') => Silent(events)
      /\ \A rows : Current(events, rows) => Current(events', rows)
      /\ \A x \in ToSet(events) : x = Head(events) \/ x \in ToSet(events')
  BY <1>1, EventsTail
<1>3. \A id : Shows(events, id) => Shows(events', id)
  BY <1>2 DEF Shows
<1> QED BY <1>2, <1>3 DEF RowsKept

\* The response to a prompt call comes in.
LEMMA ResolveTaskStep ==
  ASSUME Inv, ResolveTask
  PROVE  Inv'
<1>1. /\ TypeOK /\ Shell /\ Order /\ Mirror /\ Screen
  BY DEF Inv
<1>2. /\ events # <<>> /\ Head(events).kind = "response" /\ events' = Tail(events)
      /\ answers' = answers \cup {Head(events).id} /\ ShellSame
      /\ UNCHANGED <<pager, typed, calls, removes, updates, commands, lost, missed>>
  BY DEF ResolveTask, shellVars, ShellSame
<1>3. events \in Seq(EventType) /\ answers \subseteq Mine
  BY <1>1 DEF TypeOK
<1>4. Answered /\ InOrder(events) /\ Shown
  BY <1>1 DEF Screen
<1>5. PICK a : a = Head(events).id
  OBVIOUS
<1>6. /\ events' \in Seq(EventType) /\ Head(events) \in EventType /\ Head(events) \in ToSet(events)
      /\ ToSet(events') \subseteq ToSet(events) /\ InOrder(events') /\ ~Runs(events', a)
      /\ \A x \in ToSet(events) : x = Head(events) \/ x \in ToSet(events')
  BY <1>2, <1>3, <1>4, <1>5, EventsTail
<1>7. a \in Mine /\ Head(events) = Response(a)
  <2>1. Head(events) \in ResponseType
    BY <1>2, <1>6, EventKinds
  <2> QED BY <1>5, <2>1 DEF ResponseType, Response
<1>8. answers' \in SUBSET Mine /\ answers' = answers \cup {a}
  BY <1>2, <1>3, <1>5, <1>7
<1>9. TypeOK'
  BY <1>1, <1>2, <1>6, <1>8, TypesPager DEF TypeOK
<1>10. Shell'
  BY <1>1, <1>2, ShellKept
<1>11. Order'
  BY <1>1, <1>2, OrderKept DEF ShellSame
<1>12. Mirror'
  <2>1. SameRows(pager, pager')
    BY <1>2 DEF SameRows
  <2>2. RowsKept
    BY <1>1, <1>2, <2>1, RowsAfterEvent
  <2> QED BY <1>1, <1>2, <2>2, MirrorKept
<1>13. Screen'
  <2>1. \A id : Response(id).id = id
    BY DEF Response
  <2>2. \A id : Answering(id)' <=> Answering(id)
    <3>1. ASSUME NEW id, Answering(id) PROVE Answering(id)'
      BY <1>6, <1>7, <1>8, <2>1, <3>1 DEF Answering
    <3>2. ASSUME NEW id, Answering(id)' PROVE Answering(id)
      BY <1>6, <1>7, <1>8, <3>2 DEF Answering
    <3> QED BY <3>1, <3>2
  <2>3. \A id \in answers' : ~Runs(events', id)
    BY <1>4, <1>6, <1>8 DEF Answered, Runs
  <2>4. ASSUME NEW id \in Prompts PROVE StaysTold(id)
    <3>1. id \in Ids
      BY DEF Ids
    <3>2. \A m \in {Terminal(id), Complete(id)} : m # Head(events)
      BY <1>2, <3>1, MessageTypes
    <3> QED BY <1>2, <1>6, <2>2, <3>2 DEF StaysTold
  <2>5. pager'.state = "idle" => pager'.cur \notin Prompts
    BY <1>2, <1>4 DEF Shown
  <2>6. PagerEffect
    BY <1>2, <1>6, <2>2, <2>3, <2>4, <2>5 DEF PagerEffect
  <2> QED BY <1>1, <2>6, ScreenPager
<1> QED BY <1>9, <1>10, <1>11, <1>12, <1>13 DEF Inv

\* A delta comes in.
LEMMA ReceiveUpdateStep ==
  ASSUME Inv, ReceiveUpdate
  PROVE  Inv'
<1> DEFINE id == Head(updates)
           r == HandleUpdate(pager, id)
<1>1. /\ TypeOK /\ Shell /\ Order /\ Mirror /\ Screen
  BY DEF Inv
<1>2. /\ updates # <<>> /\ updates' = Tail(updates) /\ pager' = r /\ ShellSame
      /\ missed' = missed \cup TakenUpLate
      /\ UNCHANGED <<typed, calls, removes, events, answers, commands, lost>>
  BY DEF ReceiveUpdate, shellVars, ShellSame
<1>3. pager \in PagerType /\ updates \in Seq(Ids) /\ missed \subseteq Prompts
  BY <1>1 DEF TypeOK
<1>4. Answered /\ InOrder(events) /\ Shown
  BY <1>1 DEF Screen
<1>5. updates' \in Seq(Ids) /\ id \in Ids /\ id \in ToSet(updates) /\ ToSet(updates') \subseteq ToSet(updates)
  BY <1>2, <1>3, TailItems
<1> HIDE DEF id
<1>6. /\ r \in PagerType /\ SameRows(pager, r) /\ r.local = pager.local
      /\ r.stash = pager.stash /\ r.armed = pager.armed
      /\ \/ r.cur = pager.cur /\ r.state \in {pager.state, "running"}
         \/ r.cur = id /\ id \notin Mine /\ (id \in Prompts => r.state = "running")
  BY <1>3, <1>5, UpdateFields
<1> HIDE DEF r
<1>7. missed' \in SUBSET Prompts /\ missed \subseteq missed' /\ TakenUpLate \subseteq missed'
  <2>1. TakenUpLate \subseteq Prompts
    BY DEF TakenUpLate
  <2> QED BY <1>2, <1>3, <2>1
<1>8. TypeOK'
  BY <1>1, <1>2, <1>5, <1>6, <1>7, TypesPager DEF TypeOK
<1>9. Shell'
  BY <1>1, <1>2, ShellKept
<1>10. Order'
  BY <1>1, <1>2, <1>6, OrderKept DEF ShellSame
<1>11. Mirror'
  <2>1. RowsKept
    BY <1>2, <1>6 DEF RowsKept
  <2> QED BY <1>1, <1>2, <2>1, MirrorKept
<1>12. Screen'
  <2>1. InOrder(events') /\ \A x \in answers' : ~Runs(events', x)
    BY <1>2, <1>4 DEF Answered
  <2>2. \A x \in Prompts : StaysTold(x)
    BY <1>2, <1>6 DEF StaysTold, Answering
  <2>3. \A x \in Mine : Answering(x)' <=> Answering(x)
    BY <1>2 DEF Answering
  <2>4. pager'.state = "idle" => pager'.cur \notin Prompts
    BY <1>2, <1>4, <1>6 DEF Shown
  <2>5. pager'.cur = pager.cur \/ (pager'.cur \notin Mine /\ pager'.cur \in ToSet(updates))
    BY <1>2, <1>5, <1>6
  <2>6. PagerEffect
    BY <1>2, <1>5, <1>6, <1>7, <2>1, <2>2, <2>3, <2>4, <2>5 DEF PagerEffect
  <2> QED BY <1>1, <2>6, ScreenPager
<1> QED BY <1>8, <1>9, <1>10, <1>11, <1>12 DEF Inv

\* The rows of a broadcast and the echoes behind them.
LEMMA PinnedIds ==
  ASSUME NEW rows \in Seq(RowType), NEW s \in Seq(Mine)
  PROVE  \A x \in RowIds(rows \o Pinned(s)) : x \in RowIds(rows) \/ x \in ToSet(s)
<1> DEFINE p == Pinned(s)
           a == rows \o p
<1>1. p \in Seq(RowType) /\ Len(p) = Len(s) /\ \A i \in 1..Len(s) : p[i] = Row(s[i], 0)
  BY PinnedFields
<1> HIDE DEF p
<1>2. /\ a \in Seq(RowType) /\ Len(a) = Len(rows) + Len(p) /\ Len(rows) \in Nat /\ Len(p) \in Nat
      /\ \A i \in 1..Len(rows) : a[i] = rows[i]
      /\ \A i \in 1..Len(a) : i > Len(rows) => i - Len(rows) \in 1..Len(p) /\ a[i] = p[i - Len(rows)]
  BY <1>1
<1> HIDE DEF a
<1>3. SUFFICES ASSUME NEW r \in ToSet(a) PROVE r.id \in RowIds(rows) \/ r.id \in ToSet(s)
  BY DEF RowIds, a, p
<1>4. PICK i \in 1..Len(a) : r = a[i]
  BY <1>2, Elements
<1>5. CASE i \in 1..Len(rows)
  <2>1. r \in ToSet(rows)
    BY <1>2, <1>4, <1>5, Elements
  <2> QED BY <2>1 DEF RowIds
<1>6. CASE i > Len(rows)
  <2>1. PICK k \in 1..Len(s) : r = Row(s[k], 0)
    BY <1>1, <1>2, <1>4, <1>6
  <2>2. s[k] \in ToSet(s)
    BY Elements
  <2> QED BY <2>1, <2>2 DEF Row
<1> QED BY <1>2, <1>5, <1>6

\* With no broadcast on its way, the pager holds no row of an answered prompt.
LEMMA AnsweredRow ==
  ASSUME TypeOK, Shell, Order, Mirror, Screen, Silent(events), NEW id \in answers
  PROVE  id \in Mine /\ id \notin RowIds(pager.shared) /\ id \notin ToSet(pager.echoes)
<1> DEFINE R == Rows(queue, running, version)
<1>1. id \in Mine /\ id \in Ids /\ rpc[id] = "gone"
  <2>1. id \in Mine /\ Answering(id)
    BY DEF TypeOK, Answering
  <2> QED BY <2>1 DEF Screen, Answered, Ids, Prompts
<1>2. queue \in Seq(Ids) /\ version \in [Prompts -> Nat] /\ pager.echoes \in Seq(Mine)
  BY PagerFields DEF TypeOK
<1>3. R \in Seq(RowType) /\ id \notin RowIds(R)
  <2>1. id \notin ToSet(queue)
    BY <1>1 DEF Shell
  <2> QED BY <1>2, <2>1, RowsFields
<1>4. id \notin ToSet(pager.echoes)
  <2>1. ~Shows(events, id)
    BY DEF Shows, Silent
  <2>2. PromptCall(id) \notin ToSet(calls)
    BY <1>1, NotHandedOver
  <2> QED BY <2>1, <2>2 DEF Mirror
<1>5. pager.shared = R \o Pinned(pager.echoes)
  BY DEF Mirror
<1> HIDE DEF R
<1>6. id \notin RowIds(pager.shared)
  BY <1>2, <1>3, <1>4, <1>5, PinnedIds
<1> QED BY <1>1, <1>4, <1>6

\* The response to a prompt call is handled.
LEMMA ReceiveAnswerStep ==
  ASSUME Inv, NEW id \in Mine, ReceiveAnswer(id)
  PROVE  Inv'
<1> DEFINE x == IF pager.armed = id THEN None ELSE pager.armed
           d == [pager EXCEPT !.armed = x]
<1>1. /\ TypeOK /\ Shell /\ Order /\ Mirror /\ Screen
  BY DEF Inv
<1>2. /\ id \in answers /\ answers' = answers \ {id} /\ missed' = missed \cup TakenUpLate /\ ShellSame
      /\ UNCHANGED <<typed, removes, events, updates, commands, lost>>
  BY DEF ReceiveAnswer, shellVars, ShellSame
<1>3. /\ pager.cur = id => Settle(HandOver(d, id))
      /\ pager.cur # id => pager' = ForeignResponse(d, id) /\ calls' = calls
  BY DEF ReceiveAnswer
<1>4. pager \in PagerType /\ calls \in Seq(CallType) /\ missed \subseteq Prompts /\ answers \subseteq Mine
  BY <1>1 DEF TypeOK
<1>5. x \in Prompts \cup {None} /\ (pager.armed # id => x = pager.armed)
  BY <1>4, PagerFields
<1> HIDE DEF x
<1>6. /\ d \in PagerType /\ SameRows(pager, d) /\ d.local = pager.local /\ d.armed = x
      /\ d.cur = pager.cur /\ d.state = pager.state /\ d.stash = pager.stash
  BY <1>4, <1>5, ArmFields
<1> HIDE DEF d
<1>7. /\ missed' \in SUBSET Prompts /\ missed \subseteq missed' /\ TakenUpLate \subseteq missed'
      /\ answers' \in SUBSET Mine /\ answers' \subseteq answers
  <2>1. TakenUpLate \subseteq Prompts
    BY DEF TakenUpLate
  <2> QED BY <1>2, <1>4, <2>1
<1>8. None \notin Prompts /\ id \in Prompts
  BY ClientTurnsAssumption DEF Ids, Prompts
<1>9. Shell'
  BY <1>1, <1>2, ShellKept
<1>10. CASE pager.cur = id
  <2> DEFINE p == HandOver(d, id)
  <2>1. /\ p \in PagerType /\ SameRows(d, p) /\ p.local = d.local /\ p.stash = None
        /\ \/ p.cur = None /\ p.state = "idle"
           \/ /\ d.stash # None /\ d.stash.id # id /\ p.cur = d.stash.id /\ p.state = "running"
    BY <1>6, HandOverFields
  <2>2. Settle(p)
    BY <1>3, <1>10
  <2> HIDE DEF p
  <2>3. /\ pager' \in PagerType /\ calls' \in Seq(CallType) /\ ToSet(calls) \subseteq ToSet(calls')
        /\ SameRows(p, pager')
    BY <1>4, <2>1, <2>2, SettleFields
  <2>4. TypeOK'
    BY <1>1, <1>2, <1>7, <2>3, TypesPager DEF TypeOK
  <2>5. Order'
    BY <1>1, <1>2, <1>6, <2>1, <2>2, OrderKept DEF ShellSame
  <2>6. Mirror'
    <3>1. SameRows(pager, pager')
      BY <1>6, <2>1, <2>3 DEF SameRows
    <3>2. RowsKept
      BY <1>2, <2>3, <3>1 DEF RowsKept
    <3> QED BY <1>1, <1>2, <3>2, MirrorKept
  <2>7. Screen'
    <3>1. p.cur # pager.cur /\ (p.state = "idle" => p.cur \notin Prompts)
          /\ (p.cur \notin Prompts \/ (pager.stash # None /\ p.cur = pager.stash.id))
      BY <1>6, <1>8, <1>10, <2>1
    <3>2. p.state = "idle" /\ p.local # <<>> =>
             rpc[Head(p.local)] = "new" /\ Head(p.local) # pager.cur
      BY <1>1, <1>6, <2>1, OldestLocal
    <3>3. \A a \in answers : a \in answers' \/ (p.cur # a /\ (p.stash # None => p.stash.id # a))
      BY <1>2, <1>10, <2>1, <3>1
    <3> QED BY <1>1, <1>2, <1>7, <2>1, <2>2, <3>1, <3>2, <3>3, ScreenSettles
  <2> QED BY <1>9, <2>4, <2>5, <2>6, <2>7 DEF Inv
<1>11. CASE pager.cur # id
  <2> DEFINE p == ForeignResponse(d, id)
  <2>1. /\ p \in PagerType /\ p.local = d.local /\ p.armed = d.armed
        /\ p.cur = d.cur /\ p.state = d.state
        /\ p.stash # None => p.stash = d.stash /\ d.stash.id # id
        /\ p.echoes = Kept(d.echoes, Mine \ {id})
        /\ p.shared = Without(d.shared, {id}) /\ p.mirror = Without(d.mirror, {id})
    BY <1>6, ForeignFields
  <2>2. pager' = p /\ calls' = calls
    BY <1>3, <1>11
  <2> HIDE DEF p
  <2>3. TypeOK'
    BY <1>1, <1>2, <1>4, <1>7, <2>1, <2>2, TypesPager DEF TypeOK
  <2>4. Order'
    BY <1>1, <1>2, <1>6, <2>1, <2>2, OrderKept DEF ShellSame
  <2>5. Mirror'
    <3>1. pager.echoes \in Seq(Mine) /\ pager.shared \in Seq(RowType)
      BY <1>4, PagerFields
    <3>2. /\ p.echoes = Kept(pager.echoes, Mine \ {id})
          /\ p.shared = Without(pager.shared, {id}) /\ p.mirror = Without(pager.mirror, {id})
      BY <1>6, <2>1 DEF SameRows
    <3>3. ToSet(p.echoes) \subseteq ToSet(pager.echoes)
      BY <3>1, <3>2, KeptFacts
    <3>4. ASSUME Silent(events) PROVE p.echoes = pager.echoes /\ p.shared = pager.shared
      <4>1. id \notin RowIds(pager.shared) /\ id \notin ToSet(pager.echoes)
        BY <1>1, <1>2, <3>4, AnsweredRow
      <4>2. ToSet(pager.echoes) \subseteq Mine \ {id}
        BY <3>1, <4>1, Elements
      <4>3. p.echoes = pager.echoes
        BY <3>1, <3>2, <4>2, KeptAll
      <4>4. RowIds(pager.shared) \cap {id} = {}
        BY <4>1
      <4> QED BY <3>1, <3>2, <4>3, <4>4, WithoutFields
    <3>5. pager.mirror = pager.shared => p.mirror = p.shared
      BY <3>2
    <3> QED BY <1>1, <1>2, <2>2, <3>3, <3>4, <3>5 DEF Mirror, ShellSame
  <2>6. Screen'
    <3>1. p.cur = pager.cur /\ (p.state = "idle" => p.cur \notin Prompts)
      BY <1>1, <1>6, <2>1 DEF Screen, Shown
    <3>2. p.local # <<>> => rpc[Head(p.local)] = "new" /\ Head(p.local) # pager.cur
      BY <1>1, <1>6, <2>1, OldestLocal
    <3>3. \A a \in answers : a \in answers' \/ (p.cur # a /\ (p.stash # None => p.stash.id # a))
      BY <1>2, <1>6, <1>11, <2>1, <3>1
    <3>4. pager.armed = pager.cur => p.armed = pager.armed
      BY <1>5, <1>6, <1>11, <2>1
    <3>5. p.stash # None => p.stash = pager.stash
      BY <1>6, <2>1
    <3> QED BY <1>1, <1>2, <1>7, <2>1, <2>2, <3>1, <3>2, <3>3, <3>4, <3>5, ScreenSettles
  <2> QED BY <1>9, <2>3, <2>4, <2>5, <2>6 DEF Inv
<1> QED BY <1>10, <1>11

\* The reconcile fires for the turn it was armed for.
LEMMA ReconcileStep ==
  ASSUME Inv, Reconcile
  PROVE  Inv'
<1> DEFINE d == [pager EXCEPT !.armed = None]
<1>1. /\ TypeOK /\ Shell /\ Order /\ Mirror /\ Screen
  BY DEF Inv
<1>0. PICK id : id = pager.armed
  OBVIOUS
<1>2. /\ id # None /\ missed' = missed \cup TakenUpLate /\ ShellSame
      /\ UNCHANGED <<typed, removes, events, updates, answers, commands, lost>>
  BY <1>0 DEF Reconcile, shellVars, ShellSame
<1>3. /\ pager.cur = id /\ pager.state # "idle" => Settle(HandOver(d, id))
      /\ ~(pager.cur = id /\ pager.state # "idle") => pager' = d /\ calls' = calls
  BY <1>0 DEF Reconcile
<1>4. pager \in PagerType /\ calls \in Seq(CallType) /\ missed \subseteq Prompts
  BY <1>1 DEF TypeOK
<1>5. None \in Prompts \cup {None}
  OBVIOUS
<1>6. /\ d \in PagerType /\ SameRows(pager, d) /\ d.local = pager.local /\ d.armed = None
      /\ d.cur = pager.cur /\ d.state = pager.state /\ d.stash = pager.stash
  BY <1>4, <1>5, ArmFields
<1> HIDE DEF d
<1>7. missed' \in SUBSET Prompts /\ missed \subseteq missed' /\ TakenUpLate \subseteq missed'
  <2>1. TakenUpLate \subseteq Prompts
    BY DEF TakenUpLate
  <2> QED BY <1>2, <1>4, <2>1
<1>8. None \notin Prompts /\ id \in Prompts
  BY <1>0, <1>2, <1>4, PagerFields, ClientTurnsAssumption DEF Ids
<1>9. PICK p \in PagerType :
         /\ Settle(p) \/ (pager' = p /\ calls' = calls)
         /\ p.local = pager.local /\ SameRows(pager, p)
         /\ \/ /\ p.stash = None /\ pager.cur = id
               /\ \/ p.cur = None /\ p.state = "idle"
                  \/ /\ pager.stash # None /\ pager.stash.id # id /\ p.cur = pager.stash.id
                     /\ p.state = "running"
            \/ /\ ~(pager.cur = id /\ pager.state # "idle") /\ p.stash = pager.stash
               /\ p.cur = pager.cur /\ p.state = pager.state
  <2>1. CASE pager.cur = id /\ pager.state # "idle"
    <3> DEFINE p == HandOver(d, id)
    <3>1. /\ p \in PagerType /\ SameRows(d, p) /\ p.local = d.local /\ p.stash = None
          /\ \/ p.cur = None /\ p.state = "idle"
             \/ /\ d.stash # None /\ d.stash.id # id /\ p.cur = d.stash.id /\ p.state = "running"
      BY <1>6, HandOverFields
    <3>2. Settle(p)
      BY <1>3, <2>1
    <3> HIDE DEF p
    <3>3. SameRows(pager, p)
      BY <1>6, <3>1 DEF SameRows
    <3> QED BY <1>6, <2>1, <3>1, <3>2, <3>3
  <2>2. CASE ~(pager.cur = id /\ pager.state # "idle")
    BY <1>3, <1>6, <2>2
  <2> QED BY <2>1, <2>2
<1>10. /\ pager' \in PagerType /\ calls' \in Seq(CallType) /\ ToSet(calls) \subseteq ToSet(calls')
       /\ SameRows(p, pager')
  <2>1. CASE Settle(p)
    BY <1>4, <2>1, SettleFields
  <2>2. CASE pager' = p /\ calls' = calls
    BY <1>4, <2>2 DEF SameRows
  <2> QED BY <1>9, <2>1, <2>2
<1>11. TypeOK'
  BY <1>1, <1>2, <1>7, <1>10, TypesPager DEF TypeOK
<1>12. Shell'
  BY <1>1, <1>2, ShellKept
<1>13. Order'
  BY <1>1, <1>2, <1>9, OrderKept DEF ShellSame
<1>14. Mirror'
  <2>1. SameRows(pager, pager')
    BY <1>9, <1>10 DEF SameRows
  <2>2. RowsKept
    BY <1>2, <1>10, <2>1 DEF RowsKept
  <2> QED BY <1>1, <1>2, <2>2, MirrorKept
<1>15. Screen'
  <2>1. Shown
    BY <1>1 DEF Screen
  <2>2. /\ p.state = "idle" => p.cur \notin Prompts
        /\ p.cur = pager.cur \/ p.cur \notin Prompts \/ (pager.stash # None /\ p.cur = pager.stash.id)
        /\ p.stash # None => p.stash = pager.stash
    BY <1>8, <1>9, <2>1 DEF Shown
  <2>3. p.state = "idle" /\ p.local # <<>> =>
           rpc[Head(p.local)] = "new" /\ Head(p.local) # pager.cur
    BY <1>1, <1>9, OldestLocal
  <2>4. p.cur = pager.cur /\ pager.cur \in Prompts /\ pager.armed = pager.cur => p.armed = pager.armed
    BY <1>0, <1>8, <1>9, <2>1 DEF Shown
  <2>5. \A a \in answers : a \in answers'
    BY <1>2
  <2> QED BY <1>1, <1>2, <1>7, <1>9, <2>2, <2>3, <2>4, <2>5, ScreenSettles
<1> QED BY <1>11, <1>12, <1>13, <1>14, <1>15 DEF Inv

\* What every event of the shell but a response leaves as it was.
LEMMA EventReceived ==
  ASSUME Inv, ReceiveEvent
  PROVE  /\ TypeOK /\ Shell /\ Order /\ Mirror /\ Screen /\ ShellSame
         /\ events \in Seq(EventType) /\ events # <<>> /\ events' = Tail(events)
         /\ Head(events) \in EventType /\ Head(events).kind # "response" /\ Head(events) \in ToSet(events)
         /\ events' \in Seq(EventType) /\ ToSet(events') \subseteq ToSet(events) /\ InOrder(events')
         /\ \A x \in ToSet(events) : x = Head(events) \/ x \in ToSet(events')
         /\ UNCHANGED <<typed, calls, removes, updates, answers, commands, lost>>
         /\ missed' \in SUBSET Prompts /\ missed \subseteq missed' /\ TakenUpLate \subseteq missed'
         /\ Ignored(Head(events)) \subseteq missed'
         /\ \A id \in Ids : Answering(id)' <=> Answering(id)
         /\ \A id \in answers' : ~Runs(events', id)
<1>1. TypeOK /\ Shell /\ Order /\ Mirror /\ Screen
  BY DEF Inv
<1>2. /\ events # <<>> /\ Head(events).kind # "response" /\ events' = Tail(events) /\ ShellSame
      /\ missed' = missed \cup TakenUpLate \cup Ignored(Head(events))
      /\ UNCHANGED <<typed, calls, removes, updates, answers, commands, lost>>
  BY DEF ReceiveEvent, shellVars, ShellSame
<1>3. events \in Seq(EventType) /\ missed \subseteq Prompts
  BY <1>1 DEF TypeOK
<1>4. InOrder(events) /\ \A id \in answers : ~Runs(events, id)
  BY <1>1 DEF Screen, Answered
<1>5. /\ events' \in Seq(EventType) /\ Head(events) \in EventType /\ Head(events) \in ToSet(events)
      /\ ToSet(events') \subseteq ToSet(events) /\ InOrder(events')
      /\ \A x \in ToSet(events) : x = Head(events) \/ x \in ToSet(events')
  BY <1>2, <1>3, <1>4, EventsTail
<1>6. TakenUpLate \subseteq Prompts /\ Ignored(Head(events)) \subseteq Prompts
  BY DEF TakenUpLate, Ignored
<1>7. ASSUME NEW id \in Ids PROVE Answering(id)' <=> Answering(id)
  <2>1. Response(id) # Head(events)
    BY <1>2, MessageTypes
  <2> QED BY <1>2, <1>5, <2>1 DEF Answering
<1>8. \A id \in answers' : ~Runs(events', id)
  BY <1>2, <1>4, <1>5 DEF Runs
<1> QED BY <1>1, <1>2, <1>3, <1>5, <1>6, <1>7, <1>8

\* A broadcast comes in.
LEMMA ReceiveChangedStep ==
  ASSUME Inv, ReceiveEvent, Head(events).kind = "changed"
  PROVE  Inv'
<1>0. PICK m : m = Head(events)
  OBVIOUS
<1> DEFINE r == HandleQueueChanged(pager, m)
<1>1. /\ TypeOK /\ Shell /\ Order /\ Mirror /\ Screen /\ ShellSame
      /\ events \in Seq(EventType) /\ events # <<>> /\ events' = Tail(events)
      /\ m \in EventType /\ m.kind = "changed" /\ m \in ToSet(events)
      /\ events' \in Seq(EventType) /\ ToSet(events') \subseteq ToSet(events) /\ InOrder(events')
      /\ \A x \in ToSet(events) : x = m \/ x \in ToSet(events')
      /\ UNCHANGED <<typed, calls, removes, updates, answers, commands, lost>>
      /\ missed' \in SUBSET Prompts /\ missed \subseteq missed' /\ TakenUpLate \subseteq missed'
      /\ \A id \in Ids : Answering(id)' <=> Answering(id)
      /\ \A id \in answers' : ~Runs(events', id)
  BY <1>0, EventReceived
<1>2. pager \in PagerType /\ m \in ChangedType
  BY <1>1, EventKinds DEF TypeOK
<1>3. pager' = r
  BY <1>0, <1>1 DEF ReceiveEvent
<1>4. /\ r \in PagerType /\ r.local = pager.local /\ r.armed = pager.armed
      /\ r.shared = m.rows \o Pinned(r.echoes) /\ r.mirror = r.shared
      /\ ToSet(r.echoes) \subseteq ToSet(pager.echoes) \ RowIds(m.rows)
      /\ \/ r.cur = pager.cur /\ r.state = pager.state
         \/ m.running \in Prompts /\ r.cur = m.running /\ r.state = "running"
      /\ r.stash # None => \/ pager.stash # None /\ r.stash.id = pager.stash.id
                           \/ m.running \in Prompts /\ r.stash.id = m.running
  BY <1>2, QueueChangedFields
<1> HIDE DEF r
<1>5. TypeOK'
  BY <1>1, <1>3, <1>4, TypesPager DEF TypeOK
<1>6. Shell'
  BY <1>1, ShellKept
<1>7. Order'
  BY <1>1, <1>3, <1>4, OrderKept DEF ShellSame
<1>8. Mirror'
  <2> DEFINE R == Rows(queue, running, version)
  <2>1. R = Rows(queue', running', version')
    BY <1>1 DEF ShellSame
  <2>2. Current(events, R)
    BY <1>1 DEF Mirror
  <2> HIDE DEF R
  <2>3. Current(events', R) /\ (Silent(events') => m.rows = R)
    BY <1>0, <1>1, <2>2, EventsTail
  <2>4. ASSUME NEW id \in ToSet(r.echoes) PROVE PromptCall(id) \in ToSet(calls) \/ Shows(events', id)
    <3>1. id \in ToSet(pager.echoes) /\ id \notin RowIds(m.rows)
      BY <1>4
    <3>2. PromptCall(id) \in ToSet(calls) \/ Shows(events, id)
      BY <1>1, <3>1 DEF Mirror
    <3> QED BY <1>1, <3>1, <3>2 DEF Shows
  <2> QED BY <1>1, <1>3, <1>4, <2>1, <2>3, <2>4 DEF Mirror
<1>9. Screen'
  <2>1. Shown
    BY <1>1 DEF Screen
  <2>2. pager'.state = "idle" => pager'.cur \notin Prompts
    BY <1>3, <1>4, <2>1 DEF Shown
  <2>3. m.running \in Prompts => Runs(events, m.running)
    BY <1>1 DEF Runs
  <2>4. ASSUME NEW id \in Prompts PROVE StaysTold(id)
    <3>1. id \in Ids
      BY DEF Ids
    <3>2. \A y \in {Terminal(id), Complete(id)} : y # m
      BY <1>1, <3>1, MessageTypes
    <3> QED BY <1>1, <1>3, <1>4, <3>1, <3>2 DEF StaysTold
  <2>5. \A id \in Mine : Answering(id)' <=> Answering(id)
    BY <1>1 DEF Ids, Prompts
  <2>6. /\ pager'.stash # None =>
             \/ pager.stash # None /\ pager'.stash.id = pager.stash.id
             \/ pager'.stash.id \in Prompts /\ Runs(events, pager'.stash.id)
        /\ \/ pager'.cur = pager.cur
           \/ pager'.cur \in Prompts /\ Runs(events, pager'.cur)
    BY <1>3, <1>4, <2>3
  <2>7. PagerEffect
    BY <1>1, <2>2, <2>4, <2>5, <2>6 DEF PagerEffect
  <2> QED BY <1>1, <2>7, ScreenPager
<1> QED BY <1>5, <1>6, <1>7, <1>8, <1>9 DEF Inv

\* The end of a turn is announced.
LEMMA ReceiveEndStep ==
  ASSUME Inv, ReceiveEvent, Head(events).kind # "changed"
  PROVE  Inv'
<1>0. PICK m : m = Head(events)
  OBVIOUS
<1>1. /\ TypeOK /\ Shell /\ Order /\ Mirror /\ Screen /\ ShellSame
      /\ events \in Seq(EventType) /\ events # <<>> /\ events' = Tail(events)
      /\ m \in EventType /\ m.kind \notin {"changed", "response"} /\ m \in ToSet(events)
      /\ events' \in Seq(EventType) /\ ToSet(events') \subseteq ToSet(events) /\ InOrder(events')
      /\ \A x \in ToSet(events) : x = m \/ x \in ToSet(events')
      /\ UNCHANGED <<typed, calls, removes, updates, answers, commands, lost>>
      /\ missed' \in SUBSET Prompts /\ missed \subseteq missed' /\ TakenUpLate \subseteq missed'
      /\ Ignored(m) \subseteq missed'
      /\ \A id \in Ids : Answering(id)' <=> Answering(id)
      /\ \A id \in answers' : ~Runs(events', id)
  BY <1>0, EventReceived
<1>2. pager \in PagerType /\ m \in EndType /\ m.id \in Ids
  BY <1>1, EventKinds DEF TypeOK, EndType
<1>3. /\ m.id \in Prompts \/ m.id \in Wakes
      /\ m.id \in Wakes => m.id \notin Prompts /\ pager' = pager
      /\ m.id \in Prompts => pager' = Finalize(pager, m.id)
  <2>1. (m.id \in Prompts \/ m.id \in Wakes) /\ (m.id \in Wakes => m.id \notin Prompts)
    BY <1>2, ClientTurnsAssumption DEF Ids
  <2>2. pager' = CASE m.kind = "changed" -> HandleQueueChanged(pager, m)
                   [] m.kind # "changed" /\ m.id \in Wakes -> pager
                   [] m.kind # "changed" /\ m.id \in Prompts -> Finalize(pager, m.id)
    BY <1>0 DEF ReceiveEvent
  <2> QED BY <1>1, <2>1, <2>2
<1>4. /\ pager' \in PagerType /\ SameRows(pager, pager') /\ pager'.local = pager.local
      /\ \/ /\ pager.cur = m.id /\ pager'.armed = m.id
            /\ pager'.cur = pager.cur /\ pager'.state = pager.state /\ pager'.stash = pager.stash
         \/ /\ pager'.cur = None /\ pager'.state = "idle" /\ pager'.stash = None
         \/ /\ pager' = pager
            /\ m.id \in Prompts =>
                  /\ ~pager.viewer => ~(pager.state # "idle" /\ pager.cur = m.id /\ pager.armed \in {None, m.id})
                  /\ pager.viewer => pager.state = "idle"
  <2>1. CASE m.id \in Wakes
    BY <1>2, <1>3, <2>1 DEF SameRows
  <2>2. CASE m.id \in Prompts
    <3> DEFINE r == Finalize(pager, m.id)
    <3>1. /\ r \in PagerType /\ SameRows(pager, r) /\ r.local = pager.local
          /\ \/ /\ pager.cur = m.id /\ r.armed = m.id
                /\ r.cur = pager.cur /\ r.state = pager.state /\ r.stash = pager.stash
             \/ /\ r.cur = None /\ r.state = "idle" /\ r.stash = None
             \/ /\ r = pager
                /\ ~pager.viewer => ~(pager.state # "idle" /\ pager.cur = m.id /\ pager.armed \in {None, m.id})
                /\ pager.viewer => pager.state = "idle"
      BY <1>2, <2>2, FinalizeFields
    <3> HIDE DEF r
    <3>2. pager' = r
      BY <1>3, <2>2 DEF r
    <3> QED BY <3>1, <3>2
  <2> QED BY <1>3, <2>1, <2>2
<1>5. TypeOK'
  BY <1>1, <1>4, TypesPager DEF TypeOK
<1>6. Shell'
  BY <1>1, ShellKept
<1>7. Order'
  BY <1>1, <1>4, OrderKept DEF ShellSame
<1>8. Mirror'
  <2>1. RowsKept
    BY <1>0, <1>1, <1>4, RowsAfterEvent
  <2> QED BY <1>1, <2>1, MirrorKept
<1>9. Screen'
  <2>1. Shown /\ None \notin Prompts
    BY <1>1, ClientTurnsAssumption DEF Screen, Ids
  <2>2. pager'.state = "idle" => pager'.cur \notin Prompts
    BY <1>4, <2>1 DEF Shown
  <2>3. ASSUME NEW id \in Prompts, pager.cur = id, pager'.cur = id PROVE StaysTold(id)
    <3>1. id \in Ids /\ Terminal(id).id = id /\ Complete(id).id = id
      BY MessageTypes DEF Ids
    <3>2. pager.armed = id => pager'.armed = id
      BY <1>4, <2>1, <2>3
    <3>3. CASE m \notin {Terminal(id), Complete(id)}
      BY <1>1, <3>1, <3>2, <3>3 DEF StaysTold
    <3>4. CASE m \in {Terminal(id), Complete(id)}
      <4>1. m.id = id
        BY <3>1, <3>4
      <4>2. pager'.armed = id \/ id \in missed'
        <5>1. CASE pager' = pager
          <6>1. pager.state # "idle"
            BY <2>1, <2>3 DEF Shown
          <6>2. pager'.armed = id \/ (~pager.viewer /\ pager.armed \notin {None, id})
            BY <1>4, <2>1, <2>3, <4>1, <6>1
          <6>3. ~pager.viewer /\ pager.armed \notin {None, id} => id \in Ignored(m)
            BY <1>1, <2>3, <4>1 DEF Ignored
          <6> QED BY <1>1, <6>2, <6>3
        <5>2. CASE pager' # pager
          BY <1>4, <2>1, <2>3, <4>1, <5>2
        <5> QED BY <5>1, <5>2
      <4> QED BY <1>1, <3>1, <3>2, <4>2 DEF StaysTold
    <3> QED BY <3>3, <3>4
  <2>4. \A id \in Mine : Answering(id)' <=> Answering(id)
    BY <1>1 DEF Ids, Prompts
  <2>5. /\ pager'.stash # None => pager.stash # None /\ pager'.stash.id = pager.stash.id
        /\ pager'.cur = pager.cur \/ pager'.cur \notin Prompts
    BY <1>4, <2>1
  <2>6. PagerEffect
    BY <1>1, <2>2, <2>3, <2>4, <2>5 DEF PagerEffect
  <2> QED BY <1>1, <2>6, ScreenPager
<1> QED BY <1>5, <1>6, <1>7, <1>8, <1>9 DEF Inv

-----------------------------------------------------------------------------
(* The invariant holds.                                                    *)

\* An empty queue shows no row, and no echo is pinned behind it.
LEMMA NoRows ==
  ASSUME NEW run, NEW ver \in [Prompts -> Nat]
  PROVE  Rows(<<>>, run, ver) = <<>> /\ Pinned(<<>>) = <<>>
<1> DEFINE R == Rows(<<>>, run, ver)
           P == Pinned(<<>>)
<1>1. <<>> \in Seq(Ids) /\ <<>> \in Seq(Mine) /\ Len(<<>>) = 0
  OBVIOUS
<1>2. R \in Seq(RowType) /\ RowIds(R) = {}
  BY <1>1, RowsFields, NoItems
<1>3. P \in Seq(RowType) /\ Len(P) = 0
  BY <1>1, PinnedFields
<1> HIDE DEF R, P
<1>4. ToSet(R) = {}
  BY <1>2 DEF RowIds
<1>5. \A k \in 1..Len(R) : FALSE
  BY <1>2, <1>4, Elements
<1>6. R = <<>>
  BY <1>2, <1>5
<1>7. P = <<>>
  BY <1>3
<1> QED BY <1>6, <1>7 DEF R, P

\* Initially.
LEMMA InvInit ==
  ASSUME Init
  PROVE  Inv
<1>1. PICK viewer \in BOOLEAN : pager = PagerInit(viewer)
  BY DEF Init
<1>2. /\ typed = <<>> /\ queue = <<>> /\ running = None /\ deltas = 0 /\ ending = None
      /\ version = [id \in Prompts |-> 0] /\ rpc = [id \in Ids |-> "new"]
      /\ calls = <<>> /\ removes = {} /\ events = <<>> /\ updates = <<>> /\ answers = {}
      /\ commands = 0 /\ lost = {} /\ missed = {}
  BY DEF Init
<1>3. /\ pager.cur = None /\ pager.state = "idle" /\ pager.stash = None /\ pager.armed = None
      /\ pager.shared = <<>> /\ pager.mirror = <<>> /\ pager.echoes = <<>> /\ pager.local = <<>>
      /\ pager \in PagerType
  BY <1>1 DEF PagerInit, PagerType
<1>4. None \notin Prompts /\ Mine \subseteq Ids /\ Prompts \subseteq Ids /\ Theirs \subseteq Prompts
      /\ Mine \subseteq Prompts
  BY ClientTurnsAssumption DEF Ids, Prompts
<1>5. \A id \in Ids : rpc[id] = "new"
  BY <1>2
<1>6. ToSet(<<>>) = {} /\ Len(<<>>) = 0 /\ \A k \in 1..0 : FALSE
  BY NoItems
<1>7. TypeOK
  <2>1. version \in [Prompts -> Nat] /\ rpc \in [Ids -> {"new", "waiting", "announce", "answer", "removed", "gone"}]
    BY <1>2
  <2>2. /\ typed \in Seq(Mine) /\ queue \in Seq(Ids) /\ calls \in Seq(CallType) /\ events \in Seq(EventType)
        /\ updates \in Seq(Ids)
    BY <1>2
  <2> QED BY <1>2, <1>3, <1>5, <2>1, <2>2 DEF TypeOK
<1>8. Shell
  BY <1>2, <1>4, <1>5, <1>6 DEF Shell, Distinct
<1>9. Order
  <2> DEFINE K == {PromptCall(id) : id \in Mine}
  <2>1. Sent(calls) = Kept(<<>>, K)
    BY <1>2 DEF Sent
  <2> HIDE DEF K
  <2>2. <<>> \in Seq(CallType) /\ ToSet(<<>>) \subseteq K
    BY <1>6
  <2>3. Sent(calls) = <<>>
    BY <2>1, <2>2, KeptAll
  <2>4. Distinct(typed)
    BY <1>2 DEF Distinct
  <2>5. 0 \in 0..Len(typed) /\ HandedOver(0, typed, rpc)
    BY <1>2, <1>4, <1>5 DEF HandedOver
  <2>6. InTypedOrder(0, typed, Sent(calls), pager.local)
    BY <1>2, <1>3, <2>3 DEF InTypedOrder
  <2> QED BY <2>4, <2>5, <2>6 DEF Order
<1>10. Mirror
  <2>1. Rows(queue, running, version) = <<>> /\ Pinned(pager.echoes) = <<>>
    BY <1>2, <1>3, <1>7, NoRows DEF TypeOK
  <2>2. <<>> \o <<>> = <<>>
    OBVIOUS
  <2>3. Current(events, <<>>)
    BY <1>2, <1>6 DEF Current
  <2> QED BY <1>2, <1>3, <1>6, <2>1, <2>2, <2>3 DEF Mirror
<1>11. Screen
  <2>1. InOrder(events)
    BY <1>2, <1>6 DEF InOrder
  <2>2. Told(running, rpc)
    BY <1>2, <1>3, <1>4, <1>6 DEF Told, Runs
  <2>3. Answered
    BY <1>2, <1>3, <1>4, <1>5, <1>6 DEF Answered, Answering
  <2>4. Shown /\ Dispatched /\ EndComes
    BY <1>3, <1>4 DEF Shown, Dispatched, EndComes
  <2> QED BY <2>1, <2>2, <2>3, <2>4 DEF Screen
<1> QED BY <1>7, <1>8, <1>9, <1>10, <1>11 DEF Inv

\* A step of the shell.
LEMMA InvShell ==
  ASSUME Inv, ShellStep
  PROVE  Inv'
<1>1. TypeOK /\ Shell /\ Order /\ Mirror /\ Screen /\ Answered
  BY DEF Inv, Screen
<1>2. ShellEffect
  BY <1>1, ShellSteps
<1>3. TypeOK' /\ Shell'
  BY <1>2 DEF ShellEffect
<1>4. Order' /\ Mirror' /\ Screen'
  BY <1>1, <1>2, OrderShell, MirrorShell, ScreenShell
<1> QED BY <1>3, <1>4 DEF Inv

\* A step of the pager.
LEMMA InvPager ==
  ASSUME Inv, PagerStep
  PROVE  Inv'
<1>1. CASE ReceiveEvent
  BY <1>1, ReceiveChangedStep, ReceiveEndStep
<1> QED BY <1>1, SendNowStep, SendLocalStep, ReceiveAnswerStep, CancelTurnStep, RemoveRowStep,
           ResolveTaskStep, ReceiveUpdateStep, ReconcileStep DEF PagerStep

\* Any step, or none.
LEMMA InvNext ==
  ASSUME Inv, [Next]_vars
  PROVE  Inv'
<1>1. CASE Next
  BY <1>1, InvShell, InvPager DEF Next
<1>2. CASE UNCHANGED vars
  <2>1. ShellSame /\ UNCHANGED <<pager, typed, calls, removes, events, updates, answers, commands, lost, missed>>
    BY <1>2 DEF vars, shellVars, wireVars, ShellSame
  <2>2. TypeOK /\ Shell /\ Order /\ Mirror /\ Screen
    BY DEF Inv
  <2>3. TypeOK' /\ Shell'
    BY <2>1, <2>2, TypesPager, ShellKept DEF TypeOK
  <2>4. Order'
    BY <2>1, <2>2, OrderKept DEF ShellSame
  <2>5. Mirror'
    BY <2>1, <2>2, MirrorKept DEF RowsKept, SameRows
  <2>6. Screen'
    <3>1. pager'.state = "idle" => pager'.cur \notin Prompts
      BY <2>1, <2>2 DEF Screen, Shown
    <3> QED BY <2>1, <2>2, <3>1, SameScreen
  <2> QED BY <2>3, <2>4, <2>5, <2>6 DEF Inv
<1> QED BY <1>1, <1>2

\* In every state.
LEMMA Invariant == Spec => []Inv
<1>1. Init => Inv
  BY InvInit
<1>2. Inv /\ [Next]_vars => Inv'
  BY InvNext
<1> QED BY <1>1, <1>2, PTL DEF Spec

-----------------------------------------------------------------------------
(* What it implies.                                                        *)

\* The index form of the typed order, as the run states it.
LEMMA OrderIsKept ==
  ASSUME TypeOK, Order
  PROVE  TypedOrderKept
<1> DEFINE s == Sent(calls)
           l == pager.local
           CallsOf(ids) == [i \in 1..Len(ids) |-> PromptCall(ids[i])]
<1>1. /\ typed \in Seq(Mine) /\ calls \in Seq(CallType) /\ l \in Seq(Mine)
  BY PagerFields DEF TypeOK
<1>2. s \in Seq(CallType)
  BY <1>1, SentAppend
<1>3. PICK n \in 0..Len(typed) : HandedOver(n, typed, rpc) /\ InTypedOrder(n, typed, s, l)
  BY DEF Order
<1> HIDE DEF s, l
<1>4. /\ n \in Nat /\ Len(typed) \in Nat /\ Len(s) \in Nat /\ Len(l) \in Nat /\ n <= Len(typed)
      /\ n + Len(s) + Len(l) = Len(typed) /\ \A i \in 1..Len(typed) : typed[i] \in Mine
  BY <1>1, <1>2, <1>3 DEF InTypedOrder
<1> DEFINE a == SubSeq(typed, 1, n)
           b == SubSeq(typed, n + 1, Len(typed))
<1>5. a \in Seq(Mine) /\ Len(a) = n /\ \A i \in 1..n : a[i] = typed[i]
  <2>1. \A i \in 1..n : typed[i] \in Mine
    BY <1>4
  <2>2. /\ a \in Seq(Mine) /\ Len(a) = IF 1 <= n THEN n - 1 + 1 ELSE 0
        /\ \A i \in 1..(n - 1 + 1) : a[i] = typed[1 + i - 1]
    BY <1>4, <2>1, SubSeqProperties
  <2> HIDE DEF a
  <2>3. Len(a) = n
    BY <1>4, <2>2
  <2>4. ASSUME NEW i \in 1..n PROVE a[i] = typed[i]
    <3>1. i \in 1..(n - 1 + 1) /\ 1 + i - 1 = i
      BY <1>4
    <3> QED BY <2>2, <3>1
  <2> QED BY <2>2, <2>3, <2>4
<1>6. b \in Seq(Mine) /\ Len(b) = Len(s) + Len(l) /\ \A i \in 1..Len(b) : b[i] = typed[n + i]
  <2>1. \A i \in (n + 1)..Len(typed) : typed[i] \in Mine
    BY <1>4
  <2> DEFINE N == Len(typed)
  <2>2. /\ b \in Seq(Mine) /\ Len(b) = IF n + 1 <= N THEN N - (n + 1) + 1 ELSE 0
        /\ \A i \in 1..(N - (n + 1) + 1) : b[i] = typed[n + 1 + i - 1]
    BY <1>4, <2>1, SubSeqProperties
  <2> HIDE DEF b, N
  <2>3. N \in Nat /\ n <= N /\ n + Len(s) + Len(l) = N
    BY <1>4 DEF N
  <2>4. Len(b) = Len(s) + Len(l)
    BY <1>4, <2>2, <2>3
  <2>5. ASSUME NEW i \in 1..Len(b) PROVE b[i] = typed[n + i]
    <3>1. i \in 1..(N - (n + 1) + 1) /\ n + 1 + i - 1 = n + i
      BY <1>4, <2>2, <2>3, <2>4
    <3> QED BY <2>2, <3>1
  <2> QED BY <2>2, <2>4, <2>5
<1> HIDE DEF a, b
<1>7. {id \in Mine : rpc[id] # "new"} = ToSet(a)
  <2>1. ASSUME NEW id \in Mine, rpc[id] # "new" PROVE id \in ToSet(a)
    <3>1. PICK i \in 1..n : id = typed[i]
      BY <1>3, <2>1 DEF HandedOver
    <3> QED BY <1>5, <3>1, Elements
  <2>2. ASSUME NEW id \in ToSet(a) PROVE id \in Mine /\ rpc[id] # "new"
    <3>1. PICK i \in 1..n : id = typed[i]
      BY <1>5, Elements
    <3>2. id \in Mine
      BY <1>4, <3>1
    <3> QED BY <1>3, <3>1, <3>2 DEF HandedOver
  <2> QED BY <2>1, <2>2
<1>8. s \o CallsOf(l) = CallsOf(b)
  <2> DEFINE c == CallsOf(l)
             d == CallsOf(b)
  <2>1. c \in Seq(CallType) /\ Len(c) = Len(l) /\ \A i \in 1..Len(l) : c[i] = PromptCall(l[i])
    <3>1. \A i \in 1..Len(l) : PromptCall(l[i]) \in CallType
      BY <1>1, CallTypes DEF l
    <3> QED BY <1>4, <3>1
  <2>2. d \in Seq(CallType) /\ Len(d) = Len(b) /\ \A i \in 1..Len(b) : d[i] = PromptCall(b[i])
    <3>1. \A i \in 1..Len(b) : PromptCall(b[i]) \in CallType
      BY <1>6, CallTypes
    <3>2. Len(b) \in Nat
      BY <1>4, <1>6
    <3> QED BY <3>1, <3>2
  <2> HIDE DEF c, d
  <2>3. /\ s \o c \in Seq(CallType) /\ Len(s \o c) = Len(s) + Len(c)
        /\ \A i \in 1..Len(s) : (s \o c)[i] = s[i]
        /\ \A i \in 1..Len(c) : (s \o c)[Len(s) + i] = c[i]
    BY <1>2, <2>1
  <2> DEFINE e == s \o c
  <2> HIDE DEF e
  <2>4. ASSUME NEW i \in 1..Len(d) PROVE e[i] = d[i]
    <3>0. d[i] = PromptCall(typed[n + i])
      BY <1>6, <2>2
    <3>1. CASE i \in 1..Len(s)
      <4>1. e[i] = s[i] /\ s[i] = PromptCall(typed[n + i])
        BY <1>3, <2>3, <3>1 DEF e, InTypedOrder
      <4> QED BY <3>0, <4>1
    <3>2. CASE i \notin 1..Len(s)
      <4>1. i - Len(s) \in 1..Len(l) /\ Len(s) + (i - Len(s)) = i /\ n + Len(s) + (i - Len(s)) = n + i
        BY <1>4, <1>6, <2>2, <3>2
      <4>2. PICK j \in 1..Len(l) : Len(s) + j = i /\ n + Len(s) + j = n + i
        BY <4>1
      <4>3. e[i] = PromptCall(l[j])
        BY <2>1, <2>3, <4>2 DEF e
      <4>4. l[j] = typed[n + i]
        BY <1>3, <4>2 DEF InTypedOrder
      <4> QED BY <3>0, <4>3, <4>4
    <3> QED BY <3>1, <3>2
  <2>5. e \in Seq(CallType) /\ Len(e) = Len(d)
    BY <1>6, <2>1, <2>2, <2>3 DEF e
  <2>6. e = d
    BY <2>2, <2>4, <2>5
  <2> QED BY <2>6 DEF c, d, e
<1>9. s = Kept(calls, {PromptCall(id) : id \in Mine})
  BY DEF s, Sent
<1>10. /\ {id \in Mine : rpc[id] # "new"} = ToSet(SubSeq(typed, 1, n))
       /\ Kept(calls, {PromptCall(id) : id \in Mine}) \o CallsOf(pager.local)
              = CallsOf(SubSeq(typed, n + 1, Len(typed)))
  BY <1>7, <1>8, <1>9 DEF a, b, l
<1> HIDE DEF CallsOf
<1> QED BY <1>10 DEF TypedOrderKept, CallsOf

\* With the wire quiet the rows have converged.
LEMMA MirrorIsSettled ==
  ASSUME TypeOK, Mirror
  PROVE  MirrorConverges
<1> SUFFICES ASSUME Quiet
             PROVE  pager.mirror = Rows(queue, running, version) /\ pager.echoes = <<>>
  BY DEF MirrorConverges
<1> DEFINE R == Rows(queue, running, version)
<1>1. calls = <<>> /\ removes = {} /\ events = <<>>
  BY DEF Quiet
<1>2. ToSet(calls) = {} /\ ToSet(events) = {}
  BY <1>1, NoItems
<1>3. Silent(events)
  BY <1>2 DEF Silent
<1>4. pager.echoes \in Seq(Mine) /\ R \in Seq(RowType) /\ version \in [Prompts -> Nat]
  BY PagerFields, RowsFields DEF TypeOK
<1>5. pager.echoes = <<>>
  <2>1. \A id \in ToSet(pager.echoes) : FALSE
    BY <1>2 DEF Mirror, Shows
  <2>2. \A k \in 1..Len(pager.echoes) : FALSE
    BY <1>4, <2>1, Elements
  <2> QED BY <1>4, <2>2
<1>6. pager.mirror = R \o Pinned(pager.echoes)
  BY <1>1, <1>3 DEF Mirror
<1>7. Pinned(pager.echoes) = <<>>
  BY <1>4, <1>5, NoRows
<1> HIDE DEF R
<1>8. R \o <<>> = R
  BY <1>4
<1> QED BY <1>5, <1>6, <1>7, <1>8 DEF R

\* With the wire quiet a finished turn of the pager's own has left the screen.
LEMMA ScreenIsSettled ==
  ASSUME TypeOK, Shell, Order, Screen
  PROVE  FinishedTurnLeavesScreen
<1> SUFFICES ASSUME Quiet, pager.cur \in Mine, pager.cur \notin ToSet(queue)
             PROVE  pager.cur \in missed \cap lost
  BY DEF FinishedTurnLeavesScreen
<1>0. PICK id : id = pager.cur
  OBVIOUS
<1>1. /\ calls = <<>> /\ events = <<>> /\ answers = {} /\ ending = None /\ pager.armed = None
      /\ id \in Ids /\ id \in Prompts /\ rpc[id] \notin {"announce", "answer", "removed"}
  BY <1>0 DEF Quiet, Ids, Prompts
<1>2. ToSet(calls) = {} /\ ToSet(events) = {}
  BY <1>1, NoItems
<1>3. id \in Mine
  BY <1>0
<1>4. rpc[id] # "waiting"
  BY <1>0, <1>1 DEF Shell
<1>5. rpc[id] # "new"
  BY <1>0, <1>2, <1>3 DEF Screen, Dispatched
<1>6. rpc[id] = "gone"
  BY <1>1, <1>4, <1>5 DEF TypeOK
<1>7. Over(id) /\ ~Answering(id)
  BY <1>1, <1>2, <1>6 DEF Over, Answering
<1>8. id \in missed
  <2>1. pager.armed # id
    BY <1>1, ClientTurnsAssumption
  <2> QED BY <1>0, <1>1, <1>6, <1>7, <2>1 DEF Screen, EndComes
<1>9. id \in lost
  BY <1>0, <1>3, <1>6, <1>7 DEF Screen, Answered
<1> QED BY <1>0, <1>8, <1>9

\* Everything the pager and the shell hold and everything on the wire keeps its
\* type, whatever the rails deliver in which order.
THEOREM TypeCorrect == Spec => []TypeOK
<1>1. Inv => TypeOK
  BY DEF Inv
<1> QED BY <1>1, Invariant, PTL

\* The shell is handed the user's prompts in the order they were typed, whether
\* they go straight to its queue or wait in the pager first
\* (immediate_server_send_eligible, maybe_drain_queue).
THEOREM PromptsInTypedOrder == Spec => []TypedOrderKept
<1>1. Inv => TypedOrderKept
  BY OrderIsKept DEF Inv
<1> QED BY <1>1, Invariant, PTL

\* With the wire quiet, the rows on screen are the shell's queue with the shell's
\* versions and no optimistic row is left (AppView::apply_queue_changed).
THEOREM MirrorIsQueue == Spec => []MirrorConverges
<1>1. Inv => MirrorConverges
  BY MirrorIsSettled DEF Inv
<1> QED BY <1>1, Invariant, PTL

\* With the wire quiet, an own turn on screen is one the shell still has, or one
\* whose response was lost and whose announced end the pager missed too
\* (reconcile_overdue_turn_ends, finalize_turn_from_terminal).
THEOREM FinishedTurnsLeave == Spec => []FinishedTurnLeavesScreen
<1>1. Inv => FinishedTurnLeavesScreen
  BY ScreenIsSettled DEF Inv
<1> QED BY <1>1, Invariant, PTL

=============================================================================
