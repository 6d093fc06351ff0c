------------------------- MODULE SessionNotifyProofs -------------------------
(***************************************************************************)
(* What SessionNotify promises, proved for every set of tasks, monitors,   *)
(* events and prompts, every cap and every number of cancels.              *)
(*                                                                         *)
(* The proof follows an id through the five places that can hold it: the   *)
(* channel to the bridge, the mailbox, the notifications, the buffer and   *)
(* the queue.  Each place is a sequence without repetition and no two of   *)
(* them share an id (Separate), so a step is described by the sets of ids  *)
(* it moves, and the history of each task (Books) is a matter of which     *)
(* tasks left and why.                                                     *)
(***************************************************************************)
EXTENDS SessionNotify, PromptQueueProofs

\* The ids of messages, and of queue items.
IdsOf(S) == {x.id : x \in S}
Live(S) == {x \in S : x.kind # "drop"}
ItemIds(S) == UNION {x.ids : x \in S}

Sent == IdsOf(ToSet(toBridge))
Mail == IdsOf(Live(ToSet(mailbox)))
Noted == IdsOf(ToSet(notes))
Buffered == ToSet(buffer)
Queue == ItemIds(ToSet(pending))
Flight == Sent \cup Mail \cup Noted \cup Buffered \cup Queue

Commands == Notes \cup [kind : {"wake", "drop"}, id : Tasks]
Items == [kind : {"user", "wake", "batch"}, ids : SUBSET (Ids \cup Users)]

\* Queue items that share an id are the same item.
Shares(q) == \A x, y \in ToSet(q) : x.ids \cap y.ids # {} => x = y

\* No place holds anything twice.
NoRepeats ==
    /\ Distinct(toBridge) /\ Distinct(mailbox) /\ Distinct(notes)
    /\ Distinct(buffer) /\ Distinct(pending) /\ Shares(pending)

Disjoint(a, b, c, d, e) ==
    /\ a \cap b = {} /\ a \cap c = {} /\ a \cap d = {} /\ a \cap e = {}
    /\ b \cap c = {} /\ b \cap d = {} /\ b \cap e = {}
    /\ c \cap d = {} /\ c \cap e = {} /\ d \cap e = {}

\* A queued drop command is of a completion the bridge has handled.
Drops == \A x \in ToSet(mailbox) : x.kind = "drop" => task[x.id] = "done" /\ x.id \notin Sent

\* No two places hold the same id.
Separate == NoRepeats /\ Drops /\ Disjoint(Sent, Mail, Noted, Buffered, Queue)

\* A queue item of each kind: a prompt sent, a task's wake, a batch, which
\* speaks of no task where tasks have wakes.
GoodItem(x) ==
    /\ x.kind = "user" => \E u \in typed : x.ids = {u}
    /\ x.kind = "wake" => \E k \in Tasks : x.ids = {k}
    /\ x.kind = "batch" => x.ids # {} /\ x.ids \subseteq Ids /\ (autoWake => x.ids \cap Tasks = {})

\* A session that wakes the model for a completion never injects it as well.
Kinds ==
    /\ \A x \in ToSet(mailbox) : (x.kind = "done" => ~autoWake) /\ (x.kind = "wake" => autoWake)
    /\ \A x \in ToSet(notes) : x.kind = "done" => ~autoWake
    /\ delivered # {} => autoWake
    /\ \A x \in ToSet(pending) : GoodItem(x)

\* The account of each task: nothing speaks of a running one; a completed one is
\* on its way, told, or was dropped by a named step; the step is not the bridge
\* unless the task is quiet, and never a consumed result of another task; a
\* delivered one is on its way, told or taken back by a rewind.
Account(k) ==
    /\ task[k] = "running" => k \notin Flight /\ k \notin told /\ k \notin delivered
    /\ task[k] = "done" => k \in Flight \/ k \in told \/ gone[k] # ""
    /\ gone[k] = "bridge" => k \in quiet
    /\ gone[k] # "consumed"
    /\ k \in delivered => (k \in Flight \/ k \in told \/ gone[k] = "rewound") /\ k \notin Sent

Books == \A k \in Tasks : Account(k)

\* The running turn has told its own item; what it told behind its user item is
\* of that item or an event; a told event is nowhere else.
Forward ==
    /\ turn = "none" <=> pending = <<>>
    /\ turn = "over" => ~active
    /\ turn \in {"running", "over"} => pending[1].ids \cap Ids \subseteq told
    /\ turn \in {"running", "over"} => inTurn \cap Tasks \subseteq pending[1].ids
    /\ turn \in {"none", "starting"} => inTurn = {}
    /\ \A e \in Events \cap told : e \in Flight => turn # "none" /\ e \in pending[1].ids
    /\ call # NoCall => call.consumed \subseteq Done

\* A reminder has spoken of reported tasks only.
Surf == \A k \in Tasks : surfaced[k] <= 1 /\ (surfaced[k] = 1 => k \in reported)

\* IdleIsDrained, and no turn is active then: the next event is drained too.
Quiescent == Idle(pending, turn) /\ ~rewound => ~active /\ notes = <<>> /\ buffer = <<>>

IInv == TypeOK /\ Separate /\ Kinds /\ Books /\ Forward /\ Surf /\ Quiescent

-----------------------------------------------------------------------------
(* Sequences.                                                              *)

\* A queue cut in two.
LEMMA SplitFacts ==
  ASSUME NEW S, NEW q \in Seq(S), NEW n \in 0..Len(q)
  PROVE  /\ SubSeq(q, 1, n) \in Seq(S) /\ SubSeq(q, n + 1, Len(q)) \in Seq(S)
         /\ Len(SubSeq(q, 1, n)) = n /\ Len(SubSeq(q, n + 1, Len(q))) = Len(q) - n
         /\ \A k \in 1..n : SubSeq(q, 1, n)[k] = q[k]
         /\ \A k \in 1..(Len(q) - n) : SubSeq(q, n + 1, Len(q))[k] = q[n + k]
         /\ ToSet(q) = ToSet(SubSeq(q, 1, n)) \cup ToSet(SubSeq(q, n + 1, Len(q)))
         /\ Distinct(q) => /\ Distinct(SubSeq(q, 1, n)) /\ Distinct(SubSeq(q, n + 1, Len(q)))
                           /\ ToSet(SubSeq(q, 1, n)) \cap ToSet(SubSeq(q, n + 1, Len(q))) = {}
<1> DEFINE a == SubSeq(q, 1, n)
           b == SubSeq(q, n + 1, Len(q))
<1>0. DOMAIN q = 1..Len(q) /\ Len(q) \in Nat /\ n \in Nat /\ n <= Len(q)
  OBVIOUS
<1>1. /\ a \in Seq(S) /\ Len(a) = n /\ DOMAIN a = 1..n
      /\ \A k \in 1..n : a[k] = q[k]
  OBVIOUS
<1>2. /\ b \in Seq(S) /\ Len(b) = Len(q) - n /\ DOMAIN b = 1..(Len(q) - n)
      /\ \A k \in 1..(Len(q) - n) : b[k] = q[n + k]
  OBVIOUS
<1> HIDE DEF a, b
<1>3. ASSUME NEW x \in ToSet(q) PROVE x \in ToSet(a) \cup ToSet(b)
  <2>1. PICK i \in 1..Len(q) : x = q[i]
    BY Elements
  <2>2. CASE i <= n
    <3>1. i \in 1..n /\ x = a[i]
      BY <1>0, <1>1, <2>1, <2>2
    <3> QED BY <3>1, <1>1, Elements
  <2>3. CASE i > n
    <3>1. (i - n) \in 1..(Len(q) - n) /\ x = b[i - n]
      BY <1>0, <1>2, <2>1, <2>3
    <3> QED BY <3>1, <1>2, Elements
  <2> QED BY <1>0, <2>2, <2>3
<1>4. ASSUME NEW x \in ToSet(a) PROVE \E i \in 1..n : x = q[i]
  BY <1>1, Elements
<1>5. ASSUME NEW x \in ToSet(b) PROVE \E i \in (n + 1)..Len(q) : x = q[i]
  <2>1. PICK k \in 1..(Len(q) - n) : x = b[k]
    BY <1>2, Elements
  <2>2. n + k \in (n + 1)..Len(q)
    BY <1>0
  <2>3. x = q[n + k]
    BY <2>1, <1>2
  <2> QED BY <2>2, <2>3
<1>6. ToSet(a) \subseteq ToSet(q) /\ ToSet(b) \subseteq ToSet(q)
  <2>1. \A i \in 1..Len(q) : q[i] \in ToSet(q)
    BY Elements
  <2> QED BY <1>0, <1>4, <1>5, <2>1
<1>7. ASSUME Distinct(q) PROVE Distinct(a) /\ Distinct(b) /\ ToSet(a) \cap ToSet(b) = {}
  <2>1. Distinct(a)
    BY <1>0, <1>1, <1>7 DEF Distinct
  <2>2. Distinct(b)
    BY <1>0, <1>2, <1>7 DEF Distinct
  <2>3. ToSet(a) \cap ToSet(b) = {}
    BY <1>0, <1>4, <1>5, <1>7 DEF Distinct
  <2> QED BY <2>1, <2>2, <2>3
<1>8. ToSet(q) = ToSet(a) \cup ToSet(b)
  BY <1>3, <1>6
<1> QED BY <1>1, <1>2, <1>7, <1>8 DEF a, b

\* Moving the buffer behind the notifications keeps every event, and nothing twice.
LEMMA SweptFacts ==
  ASSUME NEW n \in Seq(Notes), NEW b \in Seq(Events)
  PROVE  /\ Swept(n, b) \in Seq(Notes)
         /\ ToSet(Swept(n, b)) = ToSet(n) \cup {Msg("event", e) : e \in ToSet(b)}
         /\ IdsOf(ToSet(Swept(n, b))) = IdsOf(ToSet(n)) \cup ToSet(b)
         /\ Distinct(n) /\ Distinct(b) /\ IdsOf(ToSet(n)) \cap ToSet(b) = {} => Distinct(Swept(n, b))
         /\ Swept(n, b) = <<>> => n = <<>> /\ b = <<>>
<1> DEFINE w == [i \in 1..Len(b) |-> Msg("event", b[i])]
<1>1. Swept(n, b) = n \o w
  BY DEF Swept
<1>2. \A e \in Events : Msg("event", e) \in Notes /\ Msg("event", e).id = e
  BY DEF Notes, Msg
<1>3. Len(b) \in Nat /\ \A i \in 1..Len(b) : b[i] \in Events
  OBVIOUS
<1>4. w \in Seq(Notes) /\ Len(w) = Len(b) /\ \A i \in 1..Len(b) : w[i] = Msg("event", b[i])
  BY <1>2, <1>3
<1>5. ToSet(w) = {Msg("event", e) : e \in ToSet(b)}
  <2> HIDE DEF w
  <2>1. ASSUME NEW x \in ToSet(w) PROVE \E e \in ToSet(b) : x = Msg("event", e)
    <3>1. PICK i \in 1..Len(b) : x = w[i]
      BY <1>4, Elements
    <3> QED BY <3>1, <1>4, Elements
  <2>2. ASSUME NEW e \in ToSet(b) PROVE Msg("event", e) \in ToSet(w)
    <3>1. PICK i \in 1..Len(b) : e = b[i]
      BY Elements
    <3>2. w[i] \in ToSet(w)
      BY <1>4, Elements
    <3> QED BY <3>1, <3>2, <1>4
  <2> QED BY <2>1, <2>2
<1>6. ToSet(b) \subseteq Events
  BY Elements
<1>7. IdsOf(ToSet(w)) = ToSet(b)
  <2>1. \A x \in ToSet(w) : x.id \in ToSet(b)
    BY <1>2, <1>5, <1>6
  <2>2. \A e \in ToSet(b) : Msg("event", e) \in ToSet(w) /\ e = Msg("event", e).id
    BY <1>2, <1>5, <1>6
  <2> HIDE DEF w
  <2>3. \A e \in ToSet(b) : e \in IdsOf(ToSet(w))
    BY <2>2 DEF IdsOf
  <2> QED BY <2>1, <2>3 DEF IdsOf
<1>8. Distinct(b) => Distinct(w)
  <2> HIDE DEF w
  <2>1. DOMAIN b = 1..Len(b) /\ DOMAIN w = 1..Len(b)
    BY <1>4
  <2> QED BY <1>2, <1>3, <1>4, <2>1 DEF Distinct
<1> HIDE DEF w
<1>9. /\ ToSet(n \o w) = ToSet(n) \cup ToSet(w)
      /\ (Distinct(n) /\ Distinct(w) /\ ToSet(n) \cap ToSet(w) = {}) => Distinct(n \o w)
  BY <1>4, ConcatFacts
<1>10. IdsOf(ToSet(n \o w)) = IdsOf(ToSet(n)) \cup ToSet(b)
  BY <1>7, <1>9 DEF IdsOf
<1>11. IdsOf(ToSet(n)) \cap ToSet(b) = {} => ToSet(n) \cap ToSet(w) = {}
  BY ZenonT(60), <1>7 DEF IdsOf
<1>12. n \o w \in Seq(Notes)
  BY <1>4
<1>13. n \o w = <<>> => n = <<>> /\ b = <<>>
  <2>1. Len(n \o w) = Len(n) + Len(b)
    BY <1>4
  <2> QED BY <2>1, <1>3
<1> QED BY <1>1, <1>5, <1>8, <1>9, <1>10, <1>11, <1>12, <1>13

\* The members of a place, from its type.
LEMMA Members ==
  ASSUME TypeOK
  PROVE  /\ ToSet(toBridge) \subseteq Notes /\ ToSet(mailbox) \subseteq Commands
         /\ ToSet(notes) \subseteq Notes /\ ToSet(buffer) \subseteq Events
         /\ ToSet(pending) \subseteq Items
<1>1. /\ toBridge \in Seq(Notes) /\ mailbox \in Seq(Commands) /\ notes \in Seq(Notes)
      /\ buffer \in Seq(Events) /\ pending \in Seq(Items)
  BY DEF TypeOK, Commands, Items
<1> QED BY <1>1, Elements

\* What is in flight, as a set.
LEMMA FlightIs ==
  ASSUME TypeOK, NEW i
  PROVE  InFlight(i) <=> i \in Flight
<1>1. /\ toBridge \in Seq(Notes) /\ mailbox \in Seq(Commands) /\ notes \in Seq(Notes)
      /\ buffer \in Seq(Events) /\ pending \in Seq(Items)
  BY DEF TypeOK, Commands, Items
<1>2. (\E n \in 1..Len(toBridge) : toBridge[n].id = i) <=> i \in Sent
  <2>1. /\ \A n \in 1..Len(toBridge) : toBridge[n] \in ToSet(toBridge)
        /\ \A x \in ToSet(toBridge) : \E n \in 1..Len(toBridge) : x = toBridge[n]
    BY <1>1, Elements
  <2> QED BY <2>1 DEF Sent, IdsOf
<1>3. (\E n \in 1..Len(mailbox) : mailbox[n].id = i /\ mailbox[n].kind # "drop") <=> i \in Mail
  <2>1. /\ \A n \in 1..Len(mailbox) : mailbox[n] \in ToSet(mailbox)
        /\ \A x \in ToSet(mailbox) : \E n \in 1..Len(mailbox) : x = mailbox[n]
    BY <1>1, Elements
  <2> QED BY <2>1 DEF Mail, IdsOf, Live
<1>4. (\E n \in 1..Len(notes) : notes[n].id = i) <=> i \in Noted
  <2>1. /\ \A n \in 1..Len(notes) : notes[n] \in ToSet(notes)
        /\ \A x \in ToSet(notes) : \E n \in 1..Len(notes) : x = notes[n]
    BY <1>1, Elements
  <2> QED BY <2>1 DEF Noted, IdsOf
<1>5. (\E n \in 1..Len(buffer) : buffer[n] = i) <=> i \in Buffered
  BY SMTT(30), <1>1, Elements DEF Buffered
<1>6. (\E n \in 1..Len(pending) : i \in pending[n].ids) <=> i \in Queue
  <2>1. /\ \A n \in 1..Len(pending) : pending[n] \in ToSet(pending)
        /\ \A x \in ToSet(pending) : \E n \in 1..Len(pending) : x = pending[n]
    BY <1>1, Elements
  <2> QED BY <2>1 DEF Queue, ItemIds
<1> QED BY <1>2, <1>3, <1>4, <1>5, <1>6 DEF InFlight, Flight

\* Where the ids of a place come from, and that it holds an id once.
LEMMA Sorts ==
  ASSUME TypeOK
  PROVE  /\ Sent \subseteq Ids /\ Mail \subseteq Ids /\ Noted \subseteq Ids /\ Buffered \subseteq Events
         /\ Queue \subseteq Ids \cup Users /\ Flight \subseteq Ids \cup Users
         /\ Tasks \cap Events = {} /\ Ids = Tasks \cup Events /\ Users \cap Ids = {}
         /\ \A x \in ToSet(toBridge) \cup ToSet(notes) :
               x = Msg(x.kind, x.id) /\ x.kind = (IF x.id \in Events THEN "event" ELSE "done")
         /\ \A x \in ToSet(mailbox) :
               /\ x = Msg(x.kind, x.id) /\ (x.kind = "event" => x.id \in Events)
               /\ x.kind # "event" => x.id \in Tasks
<1>1. Tasks \cap Events = {} /\ Ids = Tasks \cup Events /\ Users \cap Ids = {}
  BY NotifyAssumption DEF Ids
<1>2. \A x \in Notes : /\ x.id \in Ids /\ x = Msg(x.kind, x.id)
                       /\ x.kind = (IF x.id \in Events THEN "event" ELSE "done")
  BY <1>1 DEF Notes, Msg
<1>3. \A x \in Commands : /\ x.id \in Ids /\ x = Msg(x.kind, x.id)
                          /\ (x.kind = "event" => x.id \in Events) /\ (x.kind # "event" => x.id \in Tasks)
  BY <1>1 DEF Commands, Notes, Msg
<1>4. \A x \in Items : x.ids \subseteq Ids \cup Users
  BY DEF Items
<1>5. Sent \subseteq Ids /\ Noted \subseteq Ids
  BY <1>2, Members DEF Sent, Noted, IdsOf
<1>6. Mail \subseteq Ids
  BY <1>3, Members DEF Mail, IdsOf, Live
<1>7. Queue \subseteq Ids \cup Users
  BY <1>4, Members DEF Queue, ItemIds
<1>8. Buffered \subseteq Events
  BY Members DEF Buffered
<1> QED BY <1>1, <1>2, <1>3, <1>5, <1>6, <1>7, <1>8, Members DEF Flight

-----------------------------------------------------------------------------
(* What the invariant gives.                                               *)

\* A set of positions that holds at most one.
LEMMA AtMostOne ==
  ASSUME NEW n \in Nat, NEW T \in SUBSET (1..n), \A i, j \in T : i = j
  PROVE  Cardinality(T) \in {0, 1} /\ (T = {} => Cardinality(T) = 0)
<1>1. CASE T = {}
  BY <1>1, FS_EmptySet
<1>2. CASE T # {}
  <2>1. PICK i \in T : TRUE
    BY <1>2
  <2>2. T = {i}
    BY <2>1
  <2> QED BY <2>2, <1>2, FS_Singleton
<1> QED BY <1>1, <1>2

\* The positions of an id in one place.
LEMMA InOnePlace ==
  ASSUME IInv, NEW i \in Ids
  PROVE  Places(i)
<1> DEFINE In(s) == {n \in 1..Len(s) : s[n].id = i /\ s[n].kind # "drop"}
           B == {n \in 1..Len(buffer) : buffer[n] = i}
           P == {n \in 1..Len(pending) : i \in pending[n].ids}
<1>1. /\ toBridge \in Seq(Notes) /\ mailbox \in Seq(Commands) /\ notes \in Seq(Notes)
      /\ buffer \in Seq(Events) /\ pending \in Seq(Items)
  BY DEF IInv, TypeOK, Commands, Items
<1>2. /\ DOMAIN toBridge = 1..Len(toBridge) /\ DOMAIN mailbox = 1..Len(mailbox)
      /\ DOMAIN notes = 1..Len(notes) /\ DOMAIN buffer = 1..Len(buffer) /\ DOMAIN pending = 1..Len(pending)
      /\ Len(toBridge) \in Nat /\ Len(mailbox) \in Nat /\ Len(notes) \in Nat
      /\ Len(buffer) \in Nat /\ Len(pending) \in Nat
  BY <1>1
<1>3. /\ \A n \in 1..Len(toBridge) : toBridge[n] \in ToSet(toBridge)
      /\ \A n \in 1..Len(mailbox) : mailbox[n] \in ToSet(mailbox)
      /\ \A n \in 1..Len(notes) : notes[n] \in ToSet(notes)
      /\ \A n \in 1..Len(buffer) : buffer[n] \in ToSet(buffer)
      /\ \A n \in 1..Len(pending) : pending[n] \in ToSet(pending)
  BY <1>1, Elements
<1>4. TypeOK /\ Separate /\ Kinds
  BY DEF IInv
<1>5. \A m, n \in In(toBridge) : m = n
  <2>1. \A x, y \in ToSet(toBridge) : x.id = y.id => x = y
    BY <1>4, Sorts
  <2> QED BY <2>1, <1>2, <1>3, <1>4 DEF Separate, NoRepeats, Distinct
<1>6. \A m, n \in In(notes) : m = n
  <2>1. \A x, y \in ToSet(notes) : x.id = y.id => x = y
    BY <1>4, Sorts
  <2> QED BY <2>1, <1>2, <1>3, <1>4 DEF Separate, NoRepeats, Distinct
<1>7. \A m, n \in In(mailbox) : m = n
  <2>1. \A x, y \in ToSet(mailbox) : x.kind # "drop" /\ y.kind # "drop" /\ x.id = y.id => x = y
    <3>1. \A x \in Commands : x.kind \in {"event", "done", "wake", "drop"}
      BY DEF Commands, Notes
    <3>2. \A x \in ToSet(mailbox) : x.kind \in {"event", "done", "wake", "drop"}
      BY <3>1, <1>4, Members
    <3> QED BY <3>2, <1>4, Sorts DEF Kinds
  <2> QED BY <2>1, <1>2, <1>3, <1>4 DEF Separate, NoRepeats, Distinct
<1>8. \A m, n \in B : m = n
  BY <1>2, <1>3, <1>4 DEF Separate, NoRepeats, Distinct
<1>9. \A m, n \in P : m = n
  <2>1. \A m, n \in P : pending[m] = pending[n]
    BY <1>3, <1>4 DEF Separate, NoRepeats, Shares
  <2> QED BY <2>1, <1>2, <1>4 DEF Separate, NoRepeats, Distinct
<1>10. /\ In(toBridge) # {} => i \in Sent
       /\ In(mailbox) # {} => i \in Mail
       /\ In(notes) # {} => i \in Noted
       /\ B # {} => i \in Buffered
       /\ P # {} => i \in Queue
  <2>1. In(toBridge) # {} => i \in Sent
    BY <1>3 DEF Sent, IdsOf
  <2>2. In(mailbox) # {} => i \in Mail
    BY <1>3 DEF Mail, IdsOf, Live
  <2>3. In(notes) # {} => i \in Noted
    BY <1>3 DEF Noted, IdsOf
  <2>4. B # {} => i \in Buffered
    BY <1>3 DEF Buffered
  <2>5. P # {} => i \in Queue
    BY <1>3 DEF Queue, ItemIds
  <2> QED BY <2>1, <2>2, <2>3, <2>4, <2>5
<1>11. \A s : In(s) \in SUBSET (1..Len(s))
  OBVIOUS
<1>12. B \in SUBSET (1..Len(buffer)) /\ P \in SUBSET (1..Len(pending))
  OBVIOUS
<1>13. Places(i) = (Cardinality(In(toBridge)) + Cardinality(In(mailbox)) + Cardinality(In(notes))
                      + Cardinality(B) + Cardinality(P) <= 1)
  BY DEF Places
<1> HIDE DEF In, B, P
<1>14. Cardinality(In(toBridge)) \in {0, 1} /\ (In(toBridge) = {} => Cardinality(In(toBridge)) = 0)
  <2>1. In(toBridge) \in SUBSET (1..Len(toBridge))
    BY <1>11
  <2> QED BY <2>1, <1>2, <1>5, AtMostOne, Zenon
<1>15. Cardinality(In(mailbox)) \in {0, 1} /\ (In(mailbox) = {} => Cardinality(In(mailbox)) = 0)
  <2>1. In(mailbox) \in SUBSET (1..Len(mailbox))
    BY <1>11
  <2> QED BY <2>1, <1>2, <1>7, AtMostOne, Zenon
<1>16. Cardinality(In(notes)) \in {0, 1} /\ (In(notes) = {} => Cardinality(In(notes)) = 0)
  <2>1. In(notes) \in SUBSET (1..Len(notes))
    BY <1>11
  <2> QED BY <2>1, <1>2, <1>6, AtMostOne, Zenon
<1>17. Cardinality(B) \in {0, 1} /\ (B = {} => Cardinality(B) = 0)
  BY <1>2, <1>8, <1>12, AtMostOne, Zenon
<1>18. Cardinality(P) \in {0, 1} /\ (P = {} => Cardinality(P) = 0)
  BY <1>2, <1>9, <1>12, AtMostOne, Zenon
<1>19. /\ ~(i \in Sent /\ i \in Mail) /\ ~(i \in Sent /\ i \in Noted) /\ ~(i \in Sent /\ i \in Buffered)
       /\ ~(i \in Sent /\ i \in Queue) /\ ~(i \in Mail /\ i \in Noted) /\ ~(i \in Mail /\ i \in Buffered)
       /\ ~(i \in Mail /\ i \in Queue) /\ ~(i \in Noted /\ i \in Buffered) /\ ~(i \in Noted /\ i \in Queue)
       /\ ~(i \in Buffered /\ i \in Queue)
  BY <1>4 DEF Separate, Disjoint
<1>20. PICK t, m, c, b, p : /\ t = Cardinality(In(toBridge)) /\ m = Cardinality(In(mailbox))
                            /\ c = Cardinality(In(notes)) /\ b = Cardinality(B) /\ p = Cardinality(P)
  OBVIOUS
<1>21. /\ t \in {0, 1} /\ m \in {0, 1} /\ c \in {0, 1} /\ b \in {0, 1} /\ p \in {0, 1}
       /\ (t = 1 => i \in Sent) /\ (m = 1 => i \in Mail) /\ (c = 1 => i \in Noted)
       /\ (b = 1 => i \in Buffered) /\ (p = 1 => i \in Queue)
  BY <1>10, <1>14, <1>15, <1>16, <1>17, <1>18, <1>20
<1>22. t + m + c + b + p <= 1
  BY <1>19, <1>21
<1> QED BY <1>13, <1>20, <1>22

\* The invariant implies the properties of the runs.
LEMMA Implied ==
  ASSUME IInv
  PROVE  /\ TypeOK /\ SurfacedOnce /\ LossHasCause /\ DeliveredHasWake /\ OnePath /\ IdleIsDrained
<1>1. TypeOK /\ Separate /\ Books /\ Forward /\ Surf /\ Quiescent
  BY DEF IInv
<1>2. \A i : InFlight(i) <=> i \in Flight
  BY <1>1, FlightIs
<1>3. SurfacedOnce
  BY <1>1 DEF Surf, SurfacedOnce
<1>4. LossHasCause
  <2> SUFFICES ASSUME NEW k \in Tasks, Lost(k)
               PROVE  gone[k] \in {"goal", "preempted", "cancelled", "rewound", "actor"}
    BY DEF LossHasCause
  <2>1. task[k] = "done" /\ k \notin quiet /\ k \notin told /\ k \notin Flight
    BY <1>2 DEF Lost
  <2>2. gone[k] \in {"", "goal", "bridge", "actor", "preempted", "cancelled", "rewound", "consumed"}
    BY <1>1 DEF TypeOK, Ids
  <2> QED BY <2>1, <2>2, <1>1 DEF Books, Account
<1>5. DeliveredHasWake
  <2>1. delivered \subseteq Tasks
    BY <1>1 DEF TypeOK
  <2> QED BY <2>1, <1>1, <1>2 DEF DeliveredHasWake, Books, Account
<1>6. OnePath
  BY <1>1, <1>2, InOnePlace DEF OnePath, Forward
<1>7. IdleIsDrained
  BY <1>1 DEF Quiescent, IdleIsDrained
<1> QED BY <1>1, <1>3, <1>4, <1>5, <1>6, <1>7

-----------------------------------------------------------------------------
(* Steps, in general.                                                      *)

\* The initial state: nothing is anywhere.
LEMMA Starts == Init => IInv
<1> SUFFICES ASSUME Init PROVE IInv
  OBVIOUS
<1>0. \A S : <<>> \in Seq(S) /\ ToSet(<<>>) = {} /\ Distinct(<<>>) /\ Len(<<>>) = 0
  <2>1. \A S : <<>> \in Seq(S) /\ Len(<<>>) = 0 /\ DOMAIN <<>> = {}
    OBVIOUS
  <2> QED BY <2>1 DEF ToSet, Distinct
<1>1. TypeOK
  <2>1. 0 \in 0..MaxCancels /\ 0 <= MaxBuffer
    BY NotifyAssumption
  <2>2. /\ toBridge \in Seq(Notes) /\ mailbox \in Seq(Notes \cup [kind : {"wake", "drop"}, id : Tasks])
        /\ pending \in Seq([kind : {"user", "wake", "batch"}, ids : SUBSET (Ids \cup Users)])
        /\ notes \in Seq(Notes) /\ buffer \in Seq(Events) /\ Len(buffer) <= MaxBuffer
    BY <1>0, <2>1 DEF Init
  <2>5. surfaced \in [Tasks -> 0..2]
    <3>1. 0 \in 0..2
      OBVIOUS
    <3> QED BY <3>1 DEF Init
  <2>3. /\ task \in [Tasks -> {"running", "done"}]
        /\ gone \in [Ids -> {"", "goal", "bridge", "actor", "preempted", "cancelled", "rewound", "consumed"}]
    BY DEF Init
  <2>4. /\ autoWake \in BOOLEAN /\ pristine \in BOOLEAN /\ active \in BOOLEAN /\ ghost \in BOOLEAN
        /\ suppressed \in BOOLEAN /\ rewound \in BOOLEAN
    BY NotifyAssumption DEF Init
  <2> QED BY <2>1, <2>2, <2>3, <2>4, <2>5 DEF Init, TypeOK
<1>2. Sent = {} /\ Mail = {} /\ Noted = {} /\ Buffered = {} /\ Queue = {} /\ Flight = {}
  BY <1>0 DEF Init, Sent, Mail, Noted, Buffered, Queue, Flight, IdsOf, Live, ItemIds
<1>3. Separate
  BY <1>0, <1>2 DEF Init, Separate, NoRepeats, Shares, Drops, Disjoint
<1>4. Kinds
  BY <1>0 DEF Init, Kinds
<1>5. Books
  BY <1>2 DEF Init, Books, Account, Ids
<1>6. Forward
  BY <1>2 DEF Init, Forward
<1>7. Surf
  <2>1. \A k \in Tasks : surfaced[k] = 0
    BY DEF Init
  <2> QED BY <2>1 DEF Surf
<1>8. Quiescent
  BY DEF Init, Quiescent
<1> QED BY <1>1, <1>3, <1>4, <1>5, <1>6, <1>7, <1>8 DEF IInv

\* The same facts of the state a step leads to.
LEMMA FlightAll == TypeOK => \A i : InFlight(i) <=> i \in Flight
BY FlightIs

LEMMA FlightNext == TypeOK' => (\A i : InFlight(i) <=> i \in Flight)'
BY FlightAll, PTL

\* What the history records of a step that drops ids.
LEMMA LedgerIs ==
  ASSUME TypeOK, TypeOK', NEW why, Ledger(why)
  PROVE  \A i \in Ids : gone'[i] = IF i \in Flight /\ i \notin Flight' /\ i \notin told'
                                   THEN why ELSE gone[i]
<1>1. \A i : InFlight(i) <=> i \in Flight
  BY FlightAll
<1>2. \A i : InFlight(i)' <=> i \in Flight'
  BY FlightNext
<1>3. gone' = [i \in Ids |-> IF InFlight(i) /\ ~InFlight(i)' /\ i \notin told' THEN why ELSE gone[i]]
  BY DEF Ledger
<1> QED BY <1>1, <1>2, <1>3

\* A step no task completes in keeps the accounts when each task that leaves
\* flight has been told or is recorded as dropped by a step that may drop it.
LEMMA BooksKept ==
  ASSUME Books, task' = task, quiet' = quiet, TypeOK,
         \A k \in Tasks :
            /\ k \in Flight' => k \in Flight
            /\ k \in told' => task[k] = "done"
            /\ k \in told => k \in told' \/ (k \in Flight /\ k \notin Flight')
            /\ k \in delivered' => (k \in delivered \/ k \in Flight') /\ k \notin Sent'
            /\ \/ gone'[k] = gone[k] /\ (k \in Flight => k \in Flight' \/ k \in told')
               \/ gone'[k] \notin {"", "bridge", "consumed"} /\ (k \in delivered' => gone'[k] = "rewound")
               \/ gone'[k] = "bridge" /\ k \in quiet /\ k \notin delivered'
  PROVE  Books'
<1> SUFFICES ASSUME NEW k \in Tasks PROVE Account(k)'
  BY DEF Books
<1>1. Account(k) /\ task[k] \in {"running", "done"}
  BY DEF Books, TypeOK
<1>2. task[k] = "running" => k \notin Flight' /\ k \notin told' /\ k \notin delivered'
  BY <1>1 DEF Account
<1>3. task[k] = "done" => k \in Flight' \/ k \in told' \/ gone'[k] # ""
  BY <1>1 DEF Account
<1>4. (gone'[k] = "bridge" => k \in quiet) /\ gone'[k] # "consumed"
  BY <1>1 DEF Account
<1>5. k \in delivered' => (k \in Flight' \/ k \in told' \/ gone'[k] = "rewound") /\ k \notin Sent'
  BY <1>1 DEF Account
<1> QED BY <1>2, <1>3, <1>4, <1>5 DEF Account

\* The type invariant in two parts: the places, and the rest.
PlacesOK ==
    /\ toBridge \in Seq(Notes) /\ mailbox \in Seq(Commands) /\ notes \in Seq(Notes)
    /\ buffer \in Seq(Events) /\ Len(buffer) <= MaxBuffer
    /\ pending \in Seq(Items)

RestOK ==
    /\ autoWake \in BOOLEAN
    /\ task \in [Tasks -> {"running", "done"}] /\ quiet \subseteq Tasks
    /\ turn \in {"none", "starting", "running", "over"} /\ (turn # "none" => pending # <<>>)
    /\ pristine \in BOOLEAN /\ active \in BOOLEAN /\ ghost \in BOOLEAN
    /\ call \in {NoCall} \cup [suppress : SUBSET Tasks, consumed : SUBSET Tasks]
    /\ delivered \subseteq Tasks /\ reported \subseteq Tasks
    /\ suppressed \in BOOLEAN
    /\ goal \in {"none", "active", "complete"}
    /\ typed \subseteq Users /\ cancels \in 0..MaxCancels
    /\ told \subseteq Ids /\ inTurn \subseteq told /\ surfaced \in [Tasks -> 0..2]
    /\ gone \in [Ids -> {"", "goal", "bridge", "actor", "preempted", "cancelled", "rewound", "consumed"}]
    /\ rewound \in BOOLEAN

LEMMA TypeIs == TypeOK <=> PlacesOK /\ RestOK
<1>1. TypeOK => PlacesOK /\ RestOK
  <2>1. TypeOK => PlacesOK
    BY DEF TypeOK, PlacesOK, Commands, Items
  <2>2. TypeOK => RestOK
    BY Zenon DEF TypeOK, RestOK
  <2> QED BY <2>1, <2>2
<1>2. PlacesOK /\ RestOK => TypeOK
  BY DEF TypeOK, PlacesOK, RestOK, Commands, Items
<1> QED BY <1>1, <1>2

LEMMA TypeNext == (PlacesOK /\ RestOK)' => TypeOK'
BY TypeIs, PTL

\* The parts of the invariant in the next state.
LEMMA Assemble ==
  (PlacesOK /\ RestOK /\ Separate /\ Kinds /\ Books /\ Forward /\ Surf /\ Quiescent)' => IInv'
<1>1. PlacesOK /\ RestOK /\ Separate /\ Kinds /\ Books /\ Forward /\ Surf /\ Quiescent => IInv
  BY TypeIs DEF IInv
<1> QED BY <1>1, PTL

LEMMA Parts ==
  IInv => /\ TypeOK /\ PlacesOK /\ RestOK /\ Separate /\ Kinds /\ Books /\ Forward /\ Surf /\ Quiescent
          /\ NoRepeats /\ Drops /\ Disjoint(Sent, Mail, Noted, Buffered, Queue)
BY TypeIs DEF IInv, Separate

\* A step that leaves the places alone.
LEMMA Still ==
  ASSUME UNCHANGED <<toBridge, mailbox, notes, buffer, pending>>
  PROVE  /\ Sent' = Sent /\ Mail' = Mail /\ Noted' = Noted /\ Buffered' = Buffered
         /\ Queue' = Queue /\ Flight' = Flight
         /\ PlacesOK => PlacesOK'
         /\ Separate /\ UNCHANGED task => Separate'
<1>1. /\ Sent' = Sent /\ Mail' = Mail /\ Noted' = Noted /\ Buffered' = Buffered /\ Queue' = Queue
  BY DEF Sent, Mail, Noted, Buffered, Queue
<1>2. Flight' = Flight
  BY <1>1 DEF Flight
<1>3. PlacesOK => PlacesOK'
  BY DEF PlacesOK
<1>4. Separate /\ UNCHANGED task => Separate'
  BY <1>1 DEF Separate, NoRepeats, Drops
<1> QED BY <1>1, <1>2, <1>3, <1>4

-----------------------------------------------------------------------------
(* The steps of the turn.                                                  *)

\* TurnEnds, GhostDrops, GoalChanges and stuttering move nothing and tell nothing.
LEMMA TurnOnly ==
  ASSUME IInv, UNCHANGED <<toBridge, mailbox, notes, buffer, pending, task, quiet, autoWake, delivered,
                           reported, call, typed, cancels, suppressed, told, inTurn, surfaced, gone, rewound>>,
         goal' \in {"none", "active", "complete"},
         pristine' \in BOOLEAN, active' \in BOOLEAN, ghost' \in BOOLEAN,
         active' => active,
         \/ turn' = turn
         \/ turn = "running" /\ turn' = "over" /\ ~active'
  PROVE  IInv'
<1>1. /\ TypeOK /\ PlacesOK /\ RestOK /\ Separate /\ Kinds /\ Books /\ Forward /\ Surf /\ Quiescent
  BY Parts
<1>2. PlacesOK' /\ Separate' /\ Flight' = Flight /\ Sent' = Sent
  BY <1>1, Still
<1>3. RestOK'
  BY <1>1 DEF RestOK
<1>4. Kinds'
  BY <1>1 DEF Kinds, GoodItem
<1>5. Books'
  BY <1>1, <1>2 DEF Books, Account
<1>6. Forward'
  BY <1>1, <1>2 DEF Forward, Done
<1>7. Surf'
  BY <1>1 DEF Surf
<1>8. Quiescent'
  BY <1>1 DEF Quiescent, Idle, RestOK
<1> QED BY <1>2, <1>3, <1>4, <1>5, <1>6, <1>7, <1>8, Assemble

LEMMA TurnEndsKeeps == IInv /\ TurnEnds /\ UNCHANGED <<gone, rewound>> => IInv'
<1> SUFFICES ASSUME IInv, TurnEnds, UNCHANGED <<gone, rewound>> PROVE IInv'
  OBVIOUS
<1>1. RestOK
  BY Parts
<1>2. /\ goal' = goal /\ goal \in {"none", "active", "complete"} /\ ghost' \in BOOLEAN
      /\ turn = "running" /\ turn' = "over" /\ active' = FALSE /\ pristine' = FALSE
  BY <1>1 DEF TurnEnds, RestOK
<1>3. UNCHANGED <<toBridge, mailbox, notes, buffer, pending, task, quiet, autoWake, delivered,
                  reported, call, typed, cancels, suppressed, told, inTurn, surfaced, gone, rewound>>
  BY DEF TurnEnds, taskVars, setVars, noteVars, historyVars
<1> QED BY <1>2, <1>3, TurnOnly

LEMMA GhostDropsKeeps == IInv /\ GhostDrops /\ UNCHANGED <<gone, rewound>> => IInv'
<1> SUFFICES ASSUME IInv, GhostDrops, UNCHANGED <<gone, rewound>> PROVE IInv'
  OBVIOUS
<1>1. RestOK
  BY Parts
<1>2. /\ goal' = goal /\ goal \in {"none", "active", "complete"} /\ ghost' = FALSE
      /\ turn' = turn /\ active' = FALSE /\ pristine' = pristine /\ pristine \in BOOLEAN
  BY <1>1 DEF GhostDrops, RestOK
<1>3. UNCHANGED <<toBridge, mailbox, notes, buffer, pending, task, quiet, autoWake, delivered,
                  reported, call, typed, cancels, suppressed, told, inTurn, surfaced, gone, rewound>>
  BY DEF GhostDrops, taskVars, setVars, noteVars, historyVars
<1> QED BY <1>2, <1>3, TurnOnly

LEMMA GoalChangesKeeps == IInv /\ GoalChanges /\ UNCHANGED <<gone, rewound>> => IInv'
<1> SUFFICES ASSUME IInv, GoalChanges, UNCHANGED <<gone, rewound>> PROVE IInv'
  OBVIOUS
<1>1. RestOK
  BY Parts
<1>2. /\ goal' \in {"none", "active", "complete"}
      /\ ghost' = ghost /\ turn' = turn /\ active' = active /\ pristine' = pristine
      /\ pristine \in BOOLEAN /\ active \in BOOLEAN /\ ghost \in BOOLEAN
  BY <1>1 DEF GoalChanges, RestOK, turnVars
<1>3. UNCHANGED <<toBridge, mailbox, notes, buffer, pending, task, quiet, autoWake, delivered,
                  reported, call, typed, cancels, suppressed, told, inTurn, surfaced, gone, rewound>>
  BY DEF GoalChanges, taskVars, turnVars, setVars, noteVars, historyVars
<1> QED BY <1>2, <1>3, TurnOnly

LEMMA StutterKeeps == IInv /\ UNCHANGED vars => IInv'
<1> SUFFICES ASSUME IInv, UNCHANGED vars PROVE IInv'
  OBVIOUS
<1>1. RestOK
  BY Parts
<1>2. /\ goal' = goal /\ ghost' = ghost /\ turn' = turn /\ active' = active /\ pristine' = pristine
      /\ pristine \in BOOLEAN /\ active \in BOOLEAN /\ ghost \in BOOLEAN
      /\ goal \in {"none", "active", "complete"}
  BY <1>1 DEF vars, RestOK, turnVars
<1>3. UNCHANGED <<toBridge, mailbox, notes, buffer, pending, task, quiet, autoWake, delivered,
                  reported, call, typed, cancels, suppressed, told, inTurn, surfaced, gone, rewound>>
  BY DEF vars, taskVars, turnVars, setVars, noteVars, historyVars
<1> QED BY <1>2, <1>3, TurnOnly

LEMMA ToolCallKeeps ==
  ASSUME IInv, NEW consumed \in SUBSET Tasks, ToolCall(consumed), UNCHANGED <<gone, rewound>>
  PROVE  IInv'
<1>1. /\ TypeOK /\ PlacesOK /\ RestOK /\ Separate /\ Kinds /\ Books /\ Forward /\ Surf /\ Quiescent
  BY Parts
<1>2. /\ UNCHANGED <<toBridge, mailbox, notes, buffer, pending, task, quiet, autoWake, turn, active, ghost,
                     reported, suppressed, goal, typed, cancels, told, inTurn, surfaced, gone, rewound>>
      /\ turn = "running" /\ consumed \subseteq Done /\ pristine' = FALSE /\ delivered' = {}
      /\ call' = [suppress |-> delivered \cup consumed, consumed |-> consumed]
  BY DEF ToolCall, taskVars, noteVars, historyVars
<1>3. PlacesOK' /\ Separate' /\ Flight' = Flight /\ Sent' = Sent
  BY <1>1, <1>2, Still
<1>4. RestOK'
  <2>1. call' \in [suppress : SUBSET Tasks, consumed : SUBSET Tasks]
    BY <1>1, <1>2 DEF RestOK
  <2> QED BY <1>1, <1>2, <2>1 DEF RestOK
<1>5. Kinds'
  BY <1>1, <1>2 DEF Kinds, GoodItem
<1>6. Books'
  BY <1>1, <1>2, <1>3 DEF Books, Account
<1>7. Forward'
  <2>1. call'.consumed = consumed /\ Done' = Done
    BY <1>2 DEF Done
  <2> QED BY <1>1, <1>2, <1>3, <2>1 DEF Forward
<1>8. Surf'
  BY <1>1, <1>2 DEF Surf
<1>9. Quiescent'
  BY <1>1, <1>2 DEF Quiescent, Idle
<1> QED BY <1>3, <1>4, <1>5, <1>6, <1>7, <1>8, <1>9, Assemble

\* Reminders about tasks that no reminder has spoken of.
LEMMA SurfaceFacts ==
  ASSUME TypeOK, Surf, NEW S, Surface(S), S \cap reported = {},
         reported \subseteq reported', S \subseteq reported'
  PROVE  Surf' /\ surfaced' \in [Tasks -> 0..2]
<1>1. surfaced' = [k \in Tasks |-> IF k \in S THEN surfaced[k] + 1 ELSE surfaced[k]]
  BY DEF Surface
<1>2. ASSUME NEW k \in Tasks
      PROVE  /\ surfaced'[k] \in 0..2 /\ surfaced'[k] <= 1
             /\ surfaced'[k] = 1 => k \in reported'
  <2>1. surfaced[k] \in 0..2 /\ surfaced[k] <= 1 /\ (surfaced[k] = 1 => k \in reported)
    BY DEF TypeOK, Surf
  <2>2. CASE k \in S
    <3>1. surfaced[k] = 0 /\ surfaced'[k] = surfaced[k] + 1
      BY <1>1, <2>1, <2>2
    <3> QED BY <3>1, <2>2
  <2>3. CASE k \notin S
    BY <1>1, <2>1, <2>3
  <2> QED BY <2>2, <2>3
<1>3. surfaced' \in [Tasks -> 0..2]
  BY <1>1, <1>2
<1> QED BY <1>2, <1>3 DEF Surf

\* The front item of a queue that is not empty.
LEMMA FrontItem ==
  ASSUME TypeOK, pending # <<>>
  PROVE  /\ pending[1] \in ToSet(pending) /\ pending[1] \in Items /\ pending[1].ids \subseteq Queue
<1>1. pending \in Seq(Items)
  BY DEF TypeOK, Items
<1>2. 1 \in 1..Len(pending) /\ pending[1] \in Items
  BY <1>1
<1>3. pending[1] \in ToSet(pending)
  BY <1>1, <1>2, Elements
<1> QED BY <1>2, <1>3 DEF Queue, ItemIds

LEMMA TurnBeginsKeeps ==
  ASSUME IInv, TurnBegins, UNCHANGED <<gone, rewound>>
  PROVE  IInv'
<1> DEFINE shown == IF goal = "active" THEN {} ELSE NewlyReported
           front == pending[1].ids \cap Ids
<1>1. /\ TypeOK /\ PlacesOK /\ RestOK /\ Separate /\ Kinds /\ Books /\ Forward /\ Surf /\ Quiescent
  BY Parts
<1>2. /\ UNCHANGED <<toBridge, mailbox, notes, buffer, pending, task, quiet, autoWake, pristine, ghost, call,
                     delivered, suppressed, goal, typed, cancels, gone, rewound>>
      /\ turn = "starting" /\ turn' = "running" /\ active' = TRUE
      /\ reported' = reported \cup NewlyReported
      /\ Surface(shown) /\ told' = told \cup shown \cup front /\ inTurn' = front
  BY DEF TurnBegins, taskVars, noteVars
<1>3. shown \subseteq NewlyReported /\ NewlyReported \subseteq Done /\ NewlyReported \cap reported = {}
      /\ Done \subseteq Tasks /\ Tasks \subseteq Ids /\ Tasks \cap Events = {} /\ front \subseteq Ids
  BY <1>1, Sorts DEF NewlyReported, Done
<1>4. front \subseteq Flight
  BY <1>1, <1>2, FrontItem DEF Forward, Flight
<1> HIDE DEF shown, front
<1>5. PlacesOK' /\ Separate' /\ Flight' = Flight /\ Sent' = Sent
  BY <1>1, <1>2, Still
<1>6. Surf' /\ surfaced' \in [Tasks -> 0..2]
  <2>1. shown \cap reported = {} /\ reported \subseteq reported' /\ shown \subseteq reported'
    BY <1>2, <1>3
  <2> QED BY <1>1, <1>2, <2>1, SurfaceFacts
<1>7. RestOK'
  BY <1>1, <1>2, <1>3, <1>6 DEF RestOK
<1>8. Kinds'
  BY <1>1, <1>2 DEF Kinds, GoodItem
<1>9. Books'
  <2>1. \A k \in Tasks : k \in told' => task[k] = "done"
    <3>1. \A k \in Tasks : k \in Flight \/ k \in told => task[k] = "done"
      BY <1>1 DEF Books, Account, RestOK
    <3> QED BY <1>2, <1>3, <1>4, <3>1 DEF Done
  <2>2. \A k \in Tasks : k \in delivered => k \notin Sent
    BY <1>1 DEF Books, Account
  <2> QED BY <1>1, <1>2, <1>5, <2>1, <2>2, BooksKept
<1>10. Forward'
  <2>1. \A e \in Events \cap told' : e \in Flight => e \in pending[1].ids
    BY <1>1, <1>2, <1>3 DEF Forward, front
  <2>2. Done' = Done
    BY <1>2 DEF Done
  <2> QED BY <1>1, <1>2, <1>3, <1>5, <2>1, <2>2 DEF Forward, front
<1>11. Quiescent'
  BY <1>2 DEF Quiescent, Idle
<1> QED BY <1>5, <1>6, <1>7, <1>8, <1>9, <1>10, <1>11, Assemble

LEMMA TurnInjectsKeeps ==
  ASSUME IInv, TurnInjects, UNCHANGED <<gone, rewound>>
  PROVE  IInv'
<1>1. /\ TypeOK /\ PlacesOK /\ RestOK /\ Separate /\ Kinds /\ Books /\ Forward /\ Surf /\ Quiescent
      /\ NoRepeats /\ Drops /\ Disjoint(Sent, Mail, Noted, Buffered, Queue)
  BY Parts
<1>2. /\ UNCHANGED <<toBridge, mailbox, notes, pending, task, quiet, autoWake, turn, active, pristine, ghost,
                     call, delivered, reported, suppressed, goal, typed, cancels, surfaced, gone, rewound>>
      /\ turn = "running" /\ buffer' = <<>>
      /\ told' = told \cup Buffered /\ inTurn' = inTurn \cup Buffered
  BY DEF TurnInjects, taskVars, turnVars, setVars, DrainOwned, Buffered
<1>3. /\ buffer' \in Seq(Events) /\ Len(buffer') = 0 /\ Distinct(buffer') /\ Buffered' = {}
  <2>1. DOMAIN buffer' = {} /\ buffer' \in Seq(Events) /\ Len(buffer') = 0
    BY <1>2
  <2> QED BY <2>1 DEF Distinct, Buffered, ToSet
<1>4. Sent' = Sent /\ Mail' = Mail /\ Noted' = Noted /\ Queue' = Queue /\ Flight' = Flight \ Buffered
  <2>1. Sent' = Sent /\ Mail' = Mail /\ Noted' = Noted /\ Queue' = Queue
    BY <1>2 DEF Sent, Mail, Noted, Queue
  <2> QED BY <1>1, <1>3, <2>1 DEF Flight, Disjoint
<1>5. Buffered \subseteq Events /\ Tasks \cap Events = {} /\ Events \subseteq Ids
  BY <1>1, Sorts
<1>6. PlacesOK'
  BY <1>1, <1>2, <1>3, NotifyAssumption DEF PlacesOK
<1>7. RestOK'
  BY <1>1, <1>2, <1>5 DEF RestOK
<1>8. Separate'
  BY <1>1, <1>2, <1>3, <1>4 DEF Separate, NoRepeats, Drops, Disjoint
<1>9. Kinds'
  BY <1>1, <1>2 DEF Kinds, GoodItem
<1>10. Books'
  BY <1>1, <1>2, <1>4, <1>5 DEF Books, Account
<1>11. Forward'
  <2>1. Done' = Done
    BY <1>2 DEF Done
  <2> QED BY <1>1, <1>2, <1>4, <1>5, <2>1 DEF Forward
<1>12. Surf'
  BY <1>1, <1>2 DEF Surf
<1>13. Quiescent'
  BY <1>2 DEF Quiescent, Idle
<1> QED BY <1>6, <1>7, <1>8, <1>9, <1>10, <1>11, <1>12, <1>13, Assemble

-----------------------------------------------------------------------------
(* The terminal and the bridge.                                            *)

\* A new id enters the channel to the bridge.
LEMMA SendFacts ==
  ASSUME IInv, NEW n \in Notes, n.id \notin Flight, toBridge' = Append(toBridge, n),
         UNCHANGED <<mailbox, notes, buffer, pending>>
  PROVE  /\ Sent' = Sent \cup {n.id} /\ Mail' = Mail /\ Noted' = Noted /\ Buffered' = Buffered
         /\ Queue' = Queue /\ Flight' = Flight \cup {n.id}
         /\ PlacesOK' /\ NoRepeats' /\ Disjoint(Sent, Mail, Noted, Buffered, Queue)'
<1>1. /\ TypeOK /\ PlacesOK /\ NoRepeats /\ Disjoint(Sent, Mail, Noted, Buffered, Queue)
  BY Parts
<1>2. n \notin ToSet(toBridge)
  BY DEF Flight, Sent, IdsOf
<1>3. /\ toBridge' \in Seq(Notes) /\ ToSet(toBridge') = ToSet(toBridge) \cup {n}
      /\ Distinct(toBridge')
  BY <1>1, <1>2, AppendFacts DEF PlacesOK, NoRepeats
<1>4. Sent' = Sent \cup {n.id}
  BY <1>3 DEF Sent, IdsOf
<1>5. Mail' = Mail /\ Noted' = Noted /\ Buffered' = Buffered /\ Queue' = Queue
  BY DEF Mail, Noted, Buffered, Queue
<1>6. Flight' = Flight \cup {n.id}
  BY <1>4, <1>5 DEF Flight
<1>7. PlacesOK'
  BY <1>1, <1>3 DEF PlacesOK
<1>8. NoRepeats'
  BY <1>1, <1>3 DEF NoRepeats
<1>9. Disjoint(Sent, Mail, Noted, Buffered, Queue)'
  BY <1>1, <1>4, <1>5 DEF Disjoint, Flight
<1> QED BY <1>4, <1>5, <1>6, <1>7, <1>8, <1>9

LEMMA MonitorPrintsKeeps ==
  ASSUME IInv, NEW e \in Events, MonitorPrints(e), UNCHANGED <<gone, rewound>>
  PROVE  IInv'
<1>1. /\ TypeOK /\ PlacesOK /\ RestOK /\ Separate /\ Kinds /\ Books /\ Forward /\ Surf /\ Quiescent
      /\ Drops
  BY Parts
<1>2. /\ UNCHANGED <<mailbox, notes, buffer, pending, task, quiet, autoWake, turn, active, pristine, ghost,
                     call, delivered, reported, suppressed, goal, typed, cancels, told, inTurn, surfaced, gone, rewound>>
      /\ toBridge' = Append(toBridge, Msg("event", e)) /\ e \notin Printed
  BY DEF MonitorPrints, taskVars, turnVars, setVars, noteVars, historyVars
<1>3. e \notin Flight /\ e \notin told
  BY <1>1, <1>2, FlightIs DEF Printed
<1>4. Tasks \cap Events = {}
  BY <1>1, Sorts
<1> DEFINE n == Msg("event", e)
<1>5. n \in Notes /\ n.id = e
  BY DEF Notes, Msg
<1> HIDE DEF n
<1>6. /\ Sent' = Sent \cup {e} /\ Flight' = Flight \cup {e}
      /\ PlacesOK' /\ NoRepeats' /\ Disjoint(Sent, Mail, Noted, Buffered, Queue)'
  <2>1. toBridge' = Append(toBridge, n)
    BY <1>2 DEF n
  <2> QED BY <2>1, <1>2, <1>3, <1>5, SendFacts
<1>7. RestOK'
  BY ZenonT(60), <1>1, <1>2 DEF RestOK
<1>8. Separate'
  <2>1. \A x \in ToSet(mailbox) : x.kind = "drop" => x.id \in Tasks
    BY <1>1, Sorts
  <2>2. Drops'
    BY <1>1, <1>2, <1>4, <1>6, <2>1 DEF Drops
  <2> QED BY <1>6, <2>2 DEF Separate
<1>9. Kinds'
  BY <1>1, <1>2 DEF Kinds, GoodItem
<1>10. Books'
  BY <1>1, <1>2, <1>4, <1>6 DEF Books, Account
<1>11. Forward'
  <2>1. Done' = Done
    BY <1>2 DEF Done
  <2> QED BY <1>1, <1>2, <1>3, <1>6, <2>1 DEF Forward
<1>12. Surf'
  BY <1>1, <1>2 DEF Surf
<1>13. Quiescent'
  BY <1>1, <1>2 DEF Quiescent, Idle
<1> QED BY <1>6, <1>7, <1>8, <1>9, <1>10, <1>11, <1>12, <1>13, Assemble

LEMMA CompleteKeeps ==
  ASSUME IInv, NEW k \in Tasks, NEW q \in BOOLEAN, Complete(k, q), UNCHANGED <<gone, rewound>>
  PROVE  IInv'
<1>1. /\ TypeOK /\ PlacesOK /\ RestOK /\ Separate /\ Kinds /\ Books /\ Forward /\ Surf /\ Quiescent
      /\ Drops
  BY Parts
<1>2. /\ UNCHANGED <<mailbox, notes, buffer, pending, autoWake, turn, active, pristine, ghost,
                     call, delivered, reported, suppressed, goal, typed, cancels, told, inTurn, surfaced, gone, rewound>>
      /\ toBridge' = Append(toBridge, Msg("done", k)) /\ task[k] = "running"
      /\ task' = [task EXCEPT ![k] = "done"] /\ quiet \subseteq quiet' /\ quiet' \subseteq quiet \cup {k}
  BY DEF Complete, taskVars, turnVars, setVars, noteVars, historyVars
<1>3. k \notin Flight /\ k \notin told /\ k \notin delivered
  BY <1>1, <1>2 DEF Books, Account
<1>4. Tasks \cap Events = {}
  BY <1>1, Sorts
<1> DEFINE n == Msg("done", k)
<1>5. n \in Notes /\ n.id = k
  BY DEF Notes, Msg
<1> HIDE DEF n
<1>6. /\ Sent' = Sent \cup {k} /\ Flight' = Flight \cup {k}
      /\ PlacesOK' /\ NoRepeats' /\ Disjoint(Sent, Mail, Noted, Buffered, Queue)'
  <2>1. toBridge' = Append(toBridge, n)
    BY <1>2 DEF n
  <2> QED BY <2>1, <1>2, <1>3, <1>5, SendFacts
<1>7. /\ task' \in [Tasks -> {"running", "done"}] /\ task'[k] = "done"
      /\ \A j \in Tasks \ {k} : task'[j] = task[j]
  BY <1>1, <1>2 DEF RestOK
<1>8. RestOK'
  <2>1. quiet' \subseteq Tasks
    BY <1>1, <1>2 DEF RestOK
  <2> QED BY ZenonT(60), <1>1, <1>2, <1>7, <2>1 DEF RestOK
<1>9. Separate'
  <2>1. \A x \in ToSet(mailbox) : x.kind = "drop" => x.id \in Tasks
    BY <1>1, Sorts
  <2>2. Drops'
    BY <1>1, <1>2, <1>6, <1>7, <2>1 DEF Drops
  <2> QED BY <1>6, <2>2 DEF Separate
<1>10. Kinds'
  BY <1>1, <1>2 DEF Kinds, GoodItem
<1>11. Books'
  BY <1>1, <1>2, <1>3, <1>6, <1>7 DEF Books, Account
<1>12. Forward'
  <2>1. Done \subseteq Done'
    BY <1>7 DEF Done
  <2> QED BY <1>1, <1>2, <1>4, <1>6, <2>1 DEF Forward
<1>13. Surf'
  BY <1>1, <1>2 DEF Surf
<1>14. Quiescent'
  BY <1>1, <1>2 DEF Quiescent, Idle
<1> QED BY <1>6, <1>8, <1>9, <1>10, <1>11, <1>12, <1>13, <1>14, Assemble

\* Commands about an id no command in the mailbox is about.
LEMMA PostFacts ==
  ASSUME PlacesOK, NoRepeats, NEW i, NEW w \in Seq(Commands), Distinct(w),
         \A x \in ToSet(w) : x.id = i, \A x \in ToSet(mailbox) : x.id # i
  PROVE  /\ mailbox \o w \in Seq(Commands) /\ Distinct(mailbox \o w)
         /\ ToSet(mailbox \o w) = ToSet(mailbox) \cup ToSet(w)
<1>1. mailbox \in Seq(Commands) /\ Distinct(mailbox) /\ ToSet(mailbox) \cap ToSet(w) = {}
  BY DEF PlacesOK, NoRepeats
<1>2. mailbox \o w \in Seq(Commands)
  BY <1>1
<1> QED BY <1>1, <1>2, ConcatFacts

\* What the bridge posts about the completion or event at its head.
Posts(i, w) ==
    /\ w \in Seq(Commands) /\ Distinct(w) /\ mailbox' = mailbox \o w
    /\ \A x \in ToSet(w) : /\ x.id = i /\ (x.kind = "done" => ~autoWake) /\ (x.kind = "wake" => autoWake)
                           /\ x.kind = "drop" => i \in Tasks
    /\ delivered' = delivered \/ (delivered' = delivered \cup {i} /\ i \in Tasks /\ autoWake)
    /\ \/ \E x \in ToSet(w) : x.kind # "drop"
       \/ delivered' = delivered /\ ToSet(w) = {} /\ (i \in Events \/ i \in quiet \/ goal = "active")

\* A sequence of one or two commands.
LEMMA FewFacts ==
  ASSUME NEW S, NEW x \in S, NEW y \in S
  PROVE  /\ <<>> \in Seq(S) /\ Distinct(<<>>) /\ ToSet(<<>>) = {}
         /\ <<x>> \in Seq(S) /\ Distinct(<<x>>) /\ ToSet(<<x>>) = {x}
         /\ <<x, y>> \in Seq(S) /\ (x # y => Distinct(<<x, y>>)) /\ ToSet(<<x, y>>) = {x, y}
<1>1. <<>> \in Seq(S) /\ <<x>> \in Seq(S) /\ <<x, y>> \in Seq(S)
  OBVIOUS
<1>2. DOMAIN <<>> = {} /\ DOMAIN <<x>> = {1} /\ DOMAIN <<x, y>> = {1, 2}
  OBVIOUS
<1>3. <<x>>[1] = x /\ <<x, y>>[1] = x /\ <<x, y>>[2] = y
  OBVIOUS
<1>4. Distinct(<<>>) /\ Distinct(<<x>>) /\ (x # y => Distinct(<<x, y>>))
  BY <1>2, <1>3 DEF Distinct
<1>5. ToSet(<<>>) = {} /\ ToSet(<<x>>) = {x}
  BY <1>2, <1>3 DEF ToSet
<1>6. ToSet(<<x, y>>) = {x, y}
  BY <1>2, <1>3 DEF ToSet
<1> QED BY <1>1, <1>4, <1>5, <1>6

LEMMA BridgePosts ==
  ASSUME IInv, Bridge
  PROVE  \E w : Posts(Head(toBridge).id, w)
<1> DEFINE n == Head(toBridge)
           i == n.id
<1>1. TypeOK /\ PlacesOK
  BY Parts
<1>2. n \in Notes
  BY <1>1 DEF Bridge, PlacesOK
<1>3. Tasks \cap Events = {} /\ MonitorOf \in [Events -> Monitors]
  BY <1>1, Sorts, NotifyAssumption
<1>4. (n.kind = "done" /\ i \in Tasks /\ BridgeDone(i)) \/ (n.kind = "event" /\ i \in Events /\ BridgeEvent(i))
  BY <1>2 DEF Bridge, Notes
<1>5. mailbox \in Seq(Commands)
  BY <1>1 DEF PlacesOK
<1> DEFINE wake == Msg("wake", i)
           drop == Msg("drop", i)
<1>6. mailbox = mailbox \o <<>> /\ \A x : Append(mailbox, x) = mailbox \o <<x>>
  BY <1>5
<1> SUFFICES \E w : Posts(i, w)
  OBVIOUS
<1> HIDE DEF n, i, wake, drop
<1>7. CASE n.kind = "done" /\ i \in Tasks /\ BridgeDone(i)
  <2>0. /\ wake \in Commands /\ drop \in Commands /\ wake # drop
        /\ wake.id = i /\ drop.id = i /\ wake.kind = "wake" /\ drop.kind = "drop"
    BY <1>7 DEF Commands, Msg, wake, drop
  <2>1. CASE (i \in quiet \/ goal = "active") /\ UNCHANGED <<mailbox, delivered>>
    <3>1. Posts(i, <<>>)
      BY <2>0, <2>1, <1>6, FewFacts DEF Posts
    <3> QED BY <3>1
  <2>2. CASE autoWake /\ delivered' = delivered \cup {i} /\ mailbox' = mailbox \o Wakes(i)
    <3>1. Wakes(i) = <<drop, wake>> \/ Wakes(i) = <<wake>>
      BY DEF Wakes, wake, drop
    <3>2. /\ Wakes(i) \in Seq(Commands) /\ Distinct(Wakes(i)) /\ wake \in ToSet(Wakes(i))
          /\ \A x \in ToSet(Wakes(i)) : x = wake \/ x = drop
      <4>1. CASE Wakes(i) = <<drop, wake>>
        <5>1. <<drop, wake>> \in Seq(Commands) /\ Distinct(<<drop, wake>>) /\ ToSet(<<drop, wake>>) = {drop, wake}
          BY ZenonT(60), <2>0, FewFacts
        <5> QED BY <5>1, <4>1
      <4>2. CASE Wakes(i) = <<wake>>
        <5>1. <<wake>> \in Seq(Commands) /\ Distinct(<<wake>>) /\ ToSet(<<wake>>) = {wake}
          BY <2>0, FewFacts
        <5> QED BY <5>1, <4>2
      <4> QED BY <3>1, <4>1, <4>2
    <3>3. Posts(i, Wakes(i))
      BY <2>0, <2>2, <3>2, <1>7 DEF Posts
    <3> QED BY <3>3
  <2>3. CASE ~autoWake /\ mailbox' = Append(mailbox, Msg("done", i)) /\ UNCHANGED delivered
    <3> DEFINE d == Msg("done", i)
    <3>1. d \in Commands /\ d.id = i /\ d.kind = "done"
      BY <1>7 DEF Commands, Notes, Msg
    <3>2. mailbox' = mailbox \o <<d>>
      BY <2>3, <1>6
    <3> HIDE DEF d
    <3>3. <<d>> \in Seq(Commands) /\ Distinct(<<d>>) /\ ToSet(<<d>>) = {d}
      BY <3>1, FewFacts
    <3>4. Posts(i, <<d>>)
      BY <2>3, <3>1, <3>2, <3>3 DEF Posts
    <3> QED BY <3>4
  <2> QED BY <1>7, <2>1, <2>2, <2>3 DEF BridgeDone
<1>8. CASE n.kind = "event" /\ i \in Events /\ BridgeEvent(i)
  <2> DEFINE d == Msg("event", i)
  <2>1. d \in Commands /\ d.id = i /\ d.kind = "event"
    BY <1>8 DEF Commands, Notes, Msg
  <2>2. UNCHANGED delivered /\ (mailbox' = mailbox \/ mailbox' = mailbox \o <<d>>)
    BY <1>6, <1>8 DEF BridgeEvent
  <2> HIDE DEF d
  <2>3. <<d>> \in Seq(Commands) /\ Distinct(<<d>>) /\ ToSet(<<d>>) = {d}
        /\ <<>> \in Seq(Commands) /\ Distinct(<<>>) /\ ToSet(<<>>) = {}
    BY <2>1, FewFacts
  <2>4. mailbox' = mailbox => Posts(i, <<>>)
    BY <1>6, <1>8, <2>2, <2>3 DEF Posts
  <2>5. mailbox' = mailbox \o <<d>> => Posts(i, <<d>>)
    BY <1>8, <2>1, <2>2, <2>3 DEF Posts
  <2> QED BY <2>2, <2>4, <2>5
<1> QED BY <1>4, <1>7, <1>8

LEMMA BridgeKeeps ==
  ASSUME IInv, Bridge, Ledger(ByGoalOr("bridge")), UNCHANGED rewound
  PROVE  IInv'
<1> DEFINE n == Head(toBridge)
           i == n.id
<1>1. /\ TypeOK /\ PlacesOK /\ RestOK /\ Separate /\ Kinds /\ Books /\ Forward /\ Surf /\ Quiescent
      /\ NoRepeats /\ Drops /\ Disjoint(Sent, Mail, Noted, Buffered, Queue)
  BY Parts
<1>2. /\ UNCHANGED <<notes, buffer, pending, task, quiet, autoWake, turn, active, pristine, ghost,
                     call, reported, suppressed, goal, typed, cancels, told, inTurn, surfaced>>
      /\ toBridge # <<>> /\ toBridge' = Tail(toBridge)
  BY DEF Bridge, taskVars, turnVars, noteVars, historyVars
<1>3. PICK w : Posts(i, w)
  BY BridgePosts
<1>4. /\ toBridge' \in Seq(Notes) /\ Distinct(toBridge') /\ n \in ToSet(toBridge)
      /\ ToSet(toBridge') = ToSet(toBridge) \ {n}
  BY <1>1, <1>2, TailFacts DEF PlacesOK, NoRepeats
<1> HIDE DEF n
<1>5. Sent' = Sent \ {i} /\ i \in Sent /\ i \in Flight
  <2>1. \A x \in ToSet(toBridge) : x.id = i => x = n
    BY <1>1, <1>4, Sorts
  <2> QED BY <1>4, <2>1 DEF Sent, IdsOf, Flight
<1>6. /\ i \in Ids /\ i \notin Mail /\ i \notin Noted /\ i \notin Buffered /\ i \notin Queue
      /\ Tasks \cap Events = {} /\ Ids = Tasks \cup Events
  BY <1>1, <1>5, Sorts DEF Disjoint
<1> HIDE DEF i
<1>7. /\ w \in Seq(Commands) /\ Distinct(w) /\ mailbox' = mailbox \o w
      /\ \A x \in ToSet(w) : /\ x.id = i /\ (x.kind = "done" => ~autoWake) /\ (x.kind = "wake" => autoWake)
                             /\ x.kind = "drop" => i \in Tasks
      /\ delivered' = delivered \/ (delivered' = delivered \cup {i} /\ i \in Tasks /\ autoWake)
      /\ \/ \E x \in ToSet(w) : x.kind # "drop"
         \/ delivered' = delivered /\ ToSet(w) = {} /\ (i \in Events \/ i \in quiet \/ goal = "active")
  BY <1>3 DEF Posts
<1>8. \A x \in ToSet(mailbox) : x.id # i
  <2>1. \A x \in ToSet(mailbox) : x.kind = "drop" => x.id # i
    BY <1>1, <1>5 DEF Drops
  <2>2. \A x \in ToSet(mailbox) : x.kind # "drop" => x.id # i
    BY <1>6 DEF Mail, IdsOf, Live
  <2> QED BY <2>1, <2>2
<1>9. /\ mailbox' \in Seq(Commands) /\ Distinct(mailbox')
      /\ ToSet(mailbox') = ToSet(mailbox) \cup ToSet(w)
  BY <1>1, <1>7, <1>8, PostFacts
<1>10. /\ Mail' = Mail \/ Mail' = Mail \cup {i}
       /\ i \in Mail' \/ (delivered' = delivered /\ (i \in Events \/ i \in quiet \/ goal = "active"))
  <2>1. CASE \E x \in ToSet(w) : x.kind # "drop"
    <3>1. Mail' = Mail \cup {i}
      BY <1>7, <1>9, <2>1 DEF Mail, IdsOf, Live
    <3> QED BY <3>1
  <2>2. CASE delivered' = delivered /\ ToSet(w) = {} /\ (i \in Events \/ i \in quiet \/ goal = "active")
    <3>1. Mail' = Mail
      BY <1>9, <2>2 DEF Mail
    <3> QED BY <3>1, <2>2
  <2> QED BY <1>7, <2>1, <2>2
<1>11. Noted' = Noted /\ Buffered' = Buffered /\ Queue' = Queue
  BY <1>2 DEF Noted, Buffered, Queue
<1>12. /\ Flight' \subseteq Flight /\ Flight \subseteq Flight' \cup {i}
       /\ i \in Flight' => i \in Mail'
  BY <1>5, <1>6, <1>10, <1>11 DEF Flight
<1>13. PlacesOK'
  BY <1>1, <1>2, <1>4, <1>9 DEF PlacesOK
<1>14. RestOK'
  <2>1. ByGoalOr("bridge") \in {"bridge", "goal"}
    BY DEF ByGoalOr
  <2>2. gone' \in [Ids -> {"", "goal", "bridge", "actor", "preempted", "cancelled", "rewound", "consumed"}]
    BY <1>1, <2>1 DEF Ledger, RestOK
  <2>3. delivered' \subseteq Tasks
    BY <1>1, <1>7 DEF RestOK
  <2>4. rewound' = rewound
    OBVIOUS
  <2> QED BY ZenonT(60), <1>1, <1>2, <2>2, <2>3, <2>4 DEF RestOK
<1>15. task[i] = "done" \/ i \notin Tasks
  BY <1>1, <1>5 DEF Books, Account, RestOK
<1>16. Separate'
  <2>1. NoRepeats'
    BY <1>1, <1>2, <1>4, <1>9 DEF NoRepeats
  <2>2. Drops'
    BY <1>1, <1>2, <1>5, <1>7, <1>9, <1>15 DEF Drops
  <2>3. Disjoint(Sent, Mail, Noted, Buffered, Queue)'
    BY <1>1, <1>5, <1>6, <1>10, <1>11 DEF Disjoint
  <2> QED BY <2>1, <2>2, <2>3 DEF Separate
<1>17. Kinds'
  BY <1>1, <1>2, <1>7, <1>9 DEF Kinds, GoodItem
<1>18. Books'
  <2>1. PICK why : why = ByGoalOr("bridge")
    OBVIOUS
  <2>2. Ledger(why)
    BY <2>1 DEF Ledger
  <2>3. TypeOK'
    BY <1>13, <1>14, TypeNext
  <2>4. \A j \in Ids : gone'[j] = IF j \in Flight /\ j \notin Flight' /\ j \notin told' THEN why ELSE gone[j]
    BY <1>1, <2>2, <2>3, LedgerIs
  <2>5. why \in {"bridge", "goal"} /\ (goal = "active" => why = "goal")
    BY <2>1 DEF ByGoalOr
  <2>6. \A k \in Tasks : /\ k \in told => task[k] = "done"
                         /\ k \in delivered => k \notin Sent
    BY <1>1 DEF Books, Account, RestOK
  <2>7. ASSUME NEW k \in Tasks
        PROVE  \/ gone'[k] = gone[k] /\ (k \in Flight => k \in Flight' \/ k \in told')
               \/ gone'[k] \notin {"", "bridge", "consumed"} /\ (k \in delivered' => gone'[k] = "rewound")
               \/ gone'[k] = "bridge" /\ k \in quiet /\ k \notin delivered'
    <3>1. CASE k \in Flight /\ k \notin Flight' /\ k \notin told'
      <4>1. k = i /\ i \notin Mail' /\ gone'[k] = why
        BY <1>6, <1>12, <2>4, <3>1 DEF Flight
      <4>2. k \notin delivered' /\ (k \in quiet \/ goal = "active")
        BY <4>1, <1>5, <1>6, <1>10, <2>6
      <4> QED BY <4>1, <4>2, <2>5
    <3>2. CASE ~(k \in Flight /\ k \notin Flight' /\ k \notin told')
      BY <1>6, <2>4, <3>2
    <3> QED BY <3>1, <3>2
  <2>8. \A k \in Tasks : k \in delivered' => (k \in delivered \/ k \in Flight') /\ k \notin Sent'
    BY <1>5, <1>7, <1>10, <2>6 DEF Flight
  <2> QED BY <1>1, <1>2, <1>12, <2>6, <2>7, <2>8, BooksKept
<1>19. Forward'
  <2>1. Done' = Done
    BY <1>2 DEF Done
  <2> QED BY <1>1, <1>2, <1>12, <2>1 DEF Forward
<1>20. Surf'
  BY <1>1, <1>2 DEF Surf
<1>21. Quiescent'
  BY <1>1, <1>2 DEF Quiescent, Idle
<1> QED BY <1>13, <1>14, <1>16, <1>17, <1>18, <1>19, <1>20, <1>21, Assemble

-----------------------------------------------------------------------------
(* The actor.                                                              *)

\* Draining, or not, the notifications n and the buffer b behind the queue q:
\* ids move to a batch or stay, and only a goal drops them.
DrainEffect(q, t, n, b) ==
    /\ notes' \in Seq(Notes) /\ Distinct(notes') /\ ToSet(notes') \subseteq ToSet(n)
    /\ buffer' \in Seq(Events) /\ Len(buffer') <= MaxBuffer /\ Distinct(buffer')
    /\ pending' \in Seq(Items) /\ Distinct(pending') /\ Shares(pending')
    /\ Noted' \subseteq IdsOf(ToSet(n)) /\ Buffered' \subseteq ToSet(b)
    /\ Queue' \subseteq IdsOf(ToSet(n)) \cup ToSet(b) \cup ItemIds(ToSet(q))
    /\ Noted' \cap Buffered' = {} /\ Noted' \cap Queue' = {} /\ Buffered' \cap Queue' = {}
    /\ \/ IdsOf(ToSet(n)) \cup ToSet(b) \cup ItemIds(ToSet(q)) \subseteq Noted' \cup Buffered' \cup Queue'
       \/ goal # "none" /\ q = <<>>
    /\ \A x \in ToSet(pending') :
          x \in ToSet(q) \/ (x.kind = "batch" /\ x.ids # {} /\ x.ids = IdsOf(ToSet(n)) \cup ToSet(b))
    /\ reported \subseteq reported' /\ reported' \subseteq Tasks
    /\ rewound' \in BOOLEAN /\ pristine' \in BOOLEAN
    /\ (turn' = "none" <=> pending' = <<>>) /\ turn' \in {"none", "starting", "running", "over"}
    /\ t # "none" => turn' = t /\ pending' = q
    /\ t = "none" => turn' \in {"none", "starting"}
    /\ turn' = "none" /\ ~suppressed => notes' = <<>> /\ buffer' = <<>> /\ rewound' = (rewound /\ active)

\* maybe_drain_notifications has that effect.
LEMMA DrainFacts ==
  ASSUME RestOK, NEW q \in Seq(Items), NEW t \in {"none", "starting", "running", "over"},
         NEW n \in Seq(Notes), NEW b \in Seq(Events),
         Distinct(q), Shares(q), Distinct(n), Distinct(b), Len(b) <= MaxBuffer,
         t # "none" => q # <<>>,
         IdsOf(ToSet(n)) \cap ToSet(b) = {}, IdsOf(ToSet(n)) \cap ItemIds(ToSet(q)) = {},
         ToSet(b) \cap ItemIds(ToSet(q)) = {},
         Drain(q, t, n, b)
  PROVE  DrainEffect(q, t, n, b)
<1>0. \A S : <<>> \in Seq(S) /\ Distinct(<<>>) /\ ToSet(<<>>) = {} /\ Len(<<>>) = 0
  <2>1. \A S : <<>> \in Seq(S) /\ Len(<<>>) = 0 /\ DOMAIN <<>> = {}
    OBVIOUS
  <2> QED BY <2>1 DEF ToSet, Distinct
<1>1. Tasks \cap Events = {} /\ Ids = Tasks \cup Events /\ MonitorOf \in [Events -> Tasks] /\ 0 <= MaxBuffer
  BY NotifyAssumption DEF Ids, Tasks
<1>2. CASE ~Idle(q, t)
  <2>1. /\ notes' = n /\ buffer' = b /\ pending' = q /\ reported' = reported /\ rewound' = rewound
        /\ turn' = (IF t = "none" /\ q # <<>> THEN "starting" ELSE t)
        /\ pristine' = (IF t = "none" /\ q # <<>> THEN TRUE ELSE pristine)
    BY <1>2 DEF Drain, Stay, Start
  <2>2. Noted' = IdsOf(ToSet(n)) /\ Buffered' = ToSet(b) /\ Queue' = ItemIds(ToSet(q))
    BY <2>1 DEF Noted, Buffered, Queue
  <2>3. rewound' \in BOOLEAN /\ pristine' \in BOOLEAN /\ reported' \subseteq Tasks
    BY <2>1 DEF RestOK
  <2>4. ~(turn' = "none" /\ ~suppressed)
    BY <1>2, <2>1 DEF Idle
  <2> QED BY <2>1, <2>2, <2>3, <2>4 DEF DrainEffect
<1>3. CASE Idle(q, t)
  <2> DEFINE all == Swept(n, b)
             ids == {all[i].id : i \in 1..Len(all)}
             item == Item("batch", ids)
  <2>1. /\ notes' = <<>> /\ buffer' = <<>> /\ rewound' = (rewound /\ active)
        /\ reported' = reported \cup {TaskOf(all[i]) : i \in 1..Len(all)}
        /\ pending' = (IF all = <<>> \/ goal # "none" THEN <<>> ELSE <<item>>)
        /\ turn' = (IF pending' # <<>> THEN "starting" ELSE "none")
        /\ pristine' = (IF pending' # <<>> THEN TRUE ELSE pristine)
    BY <1>3 DEF Drain, DrainAll, Start
  <2>2. /\ all \in Seq(Notes) /\ IdsOf(ToSet(all)) = IdsOf(ToSet(n)) \cup ToSet(b)
    BY SweptFacts
  <2>3. q = <<>> /\ t = "none"
    BY <1>3 DEF Idle
  <2>4. /\ \A i \in 1..Len(all) : all[i] \in ToSet(all) /\ all[i] \in Notes
        /\ \A x \in ToSet(all) : \E i \in 1..Len(all) : x = all[i]
    <3> HIDE DEF all
    <3> QED BY <2>2, Elements
  <2> HIDE DEF all
  <2>5. ids = IdsOf(ToSet(n)) \cup ToSet(b)
    <3>1. ids = IdsOf(ToSet(all))
      BY <2>4 DEF IdsOf
    <3> QED BY <2>2, <3>1
  <2>6. ids \subseteq Ids /\ \A i \in 1..Len(all) : TaskOf(all[i]) \in Tasks
    BY <1>1, <2>4 DEF Notes, TaskOf
  <2>7. all # <<>> => ids # {}
    <3>1. all # <<>> => 1 \in 1..Len(all)
      BY <2>2
    <3> QED BY <3>1
  <2> HIDE DEF ids
  <2>8. item \in Items /\ item.kind = "batch" /\ item.ids = ids
    BY <2>6 DEF Items, Item
  <2> HIDE DEF item
  <2>9. <<item>> \in Seq(Items) /\ Distinct(<<item>>) /\ ToSet(<<item>>) = {item} /\ <<item>> # <<>>
    BY <2>8, FewFacts
  <2>10. ItemIds({item}) = ids /\ ItemIds({}) = {}
    BY <2>8 DEF ItemIds
  <2>11. Noted' = {} /\ Buffered' = {}
    BY <1>0, <2>1 DEF Noted, Buffered, IdsOf
  <2>12. reported \subseteq reported' /\ reported' \subseteq Tasks /\ rewound' \in BOOLEAN /\ pristine' \in BOOLEAN
    <3>1. reported \subseteq reported' /\ reported' \subseteq Tasks
      <4>1. PICK T : T = {TaskOf(all[i]) : i \in 1..Len(all)}
        OBVIOUS
      <4>2. T \subseteq Tasks
        BY <2>6, <4>1, Zenon
      <4>3. reported' = reported \cup T /\ reported \subseteq Tasks
        BY <2>1, <4>1 DEF RestOK
      <4> QED BY <4>2, <4>3
    <3>2. pristine' \in BOOLEAN
      BY <2>1 DEF RestOK
    <3> QED BY <2>1, <3>1, <3>2
  <2>13. notes' \in Seq(Notes) /\ Distinct(notes') /\ ToSet(notes') \subseteq ToSet(n)
         /\ buffer' \in Seq(Events) /\ Len(buffer') <= MaxBuffer /\ Distinct(buffer')
    BY <1>0, <1>1, <2>1
  <2>14. CASE all = <<>> \/ goal # "none"
    <3>1. pending' = <<>> /\ turn' = "none"
      BY <2>1, <2>14
    <3>2. ToSet(pending') = {} /\ Queue' = {} /\ Shares(pending') /\ Distinct(pending') /\ pending' \in Seq(Items)
      BY <3>1, <1>0, <2>10 DEF Queue, Shares
    <3>3. goal # "none" \/ IdsOf(ToSet(n)) \cup ToSet(b) \cup ItemIds(ToSet(q)) = {}
      <4>1. all = <<>> => n = <<>> /\ b = <<>>
        BY SweptFacts DEF all
      <4> QED BY <4>1, <1>0, <2>3, <2>10, <2>14 DEF IdsOf
    <3> QED BY <2>1, <2>3, <2>11, <2>12, <2>13, <3>1, <3>2, <3>3 DEF DrainEffect
  <2>15. CASE ~(all = <<>> \/ goal # "none")
    <3>1. pending' = <<item>> /\ turn' = "starting" /\ ids # {}
      BY <2>1, <2>7, <2>9, <2>15
    <3>2. ToSet(pending') = {item} /\ Queue' = ids /\ Shares(pending') /\ Distinct(pending')
          /\ pending' \in Seq(Items) /\ pending' # <<>>
      BY <3>1, <2>9, <2>10 DEF Queue, Shares
    <3>3. ItemIds(ToSet(q)) = {}
      BY <1>0, <2>3, <2>10
    <3> QED BY <2>1, <2>3, <2>5, <2>8, <2>11, <2>12, <2>13, <3>1, <3>2, <3>3 DEF DrainEffect
  <2> QED BY <2>14, <2>15
<1> QED BY <1>2, <1>3

\* A sequence without members is empty.
LEMMA NoMembers ==
  ASSUME NEW S, NEW q \in Seq(S)
  PROVE  ToSet(q) = {} <=> q = <<>>
<1>1. q # <<>> => 1 \in 1..Len(q)
  OBVIOUS
<1>2. q # <<>> => ToSet(q) # {}
  BY <1>1, Elements
<1>3. ToSet(<<>>) = {}
  <2>1. DOMAIN <<>> = {}
    OBVIOUS
  <2> QED BY <2>1 DEF ToSet
<1> QED BY <1>2, <1>3

\* The actor takes a command.
LEMMA TakeFacts ==
  ASSUME IInv, mailbox # <<>>, mailbox' = Tail(mailbox)
  PROVE  /\ Head(mailbox) \in ToSet(mailbox) /\ Head(mailbox) \in Commands
         /\ mailbox' \in Seq(Commands) /\ Distinct(mailbox')
         /\ ToSet(mailbox') = ToSet(mailbox) \ {Head(mailbox)}
         /\ Head(mailbox).kind # "drop" => /\ Head(mailbox).id \in Mail
                                           /\ Mail' = Mail \ {Head(mailbox).id}
         /\ Head(mailbox).kind = "drop" => Mail' = Mail
<1> DEFINE c == Head(mailbox)
<1>1. TypeOK /\ PlacesOK /\ NoRepeats /\ Kinds
  BY Parts
<1>2. /\ mailbox' \in Seq(Commands) /\ Distinct(mailbox') /\ c \in ToSet(mailbox)
      /\ ToSet(mailbox') = ToSet(mailbox) \ {c}
  BY <1>1, TailFacts DEF PlacesOK, NoRepeats
<1>3. ToSet(mailbox) \subseteq Commands
  BY <1>1, Members
<1> HIDE DEF c
<1>4. \A x \in ToSet(mailbox) : x.kind # "drop" /\ c.kind # "drop" /\ x.id = c.id => x = c
  <2>1. \A x \in ToSet(mailbox) : x.kind \in {"event", "done", "wake", "drop"}
    BY <1>3 DEF Commands, Notes
  <2> QED BY <2>1, <1>1, <1>2, Sorts DEF Kinds
<1>5. c.kind # "drop" => c.id \in Mail /\ Mail' = Mail \ {c.id}
  BY <1>2, <1>4 DEF Mail, IdsOf, Live
<1>6. c.kind = "drop" => Mail' = Mail
  BY <1>2 DEF Mail, IdsOf, Live
<1> QED BY <1>2, <1>3, <1>5, <1>6 DEF c

\* The accounts in a step of the actor that drops no delivered task.
LEMMA ActorBooks ==
  ASSUME IInv, PlacesOK', RestOK', UNCHANGED <<task, quiet, told, delivered>>, Sent' = Sent,
         Ledger(ByGoalOr("actor")),
         \A k \in Tasks : /\ k \in Flight' => k \in Flight
                          /\ k \in Flight /\ k \notin Flight' /\ k \notin told => k \notin delivered
  PROVE  Books'
<1>1. TypeOK /\ RestOK /\ Books
  BY Parts
<1>2. PICK why : why = ByGoalOr("actor")
  OBVIOUS
<1>3. Ledger(why) /\ why \in {"actor", "goal"}
  BY <1>2 DEF Ledger, ByGoalOr
<1>4. TypeOK'
  BY TypeNext
<1>5. \A j \in Ids : gone'[j] = IF j \in Flight /\ j \notin Flight' /\ j \notin told' THEN why ELSE gone[j]
  BY <1>1, <1>3, <1>4, LedgerIs
<1>6. \A k \in Tasks : /\ k \in Ids /\ (k \in told => task[k] = "done")
                       /\ k \in delivered => k \notin Sent
  BY <1>1 DEF Books, Account, RestOK, Ids
<1>7. ASSUME NEW k \in Tasks
      PROVE  \/ gone'[k] = gone[k] /\ (k \in Flight => k \in Flight' \/ k \in told')
             \/ gone'[k] \notin {"", "bridge", "consumed"} /\ (k \in delivered' => gone'[k] = "rewound")
  BY <1>3, <1>5, <1>6
<1> QED BY <1>1, <1>6, <1>7, BooksKept

\* What the ledger of the actor's steps may hold.
LEMMA ActorGone ==
  ASSUME RestOK, Ledger(ByGoalOr("actor"))
  PROVE  gone' \in [Ids -> {"", "goal", "bridge", "actor", "preempted", "cancelled", "rewound", "consumed"}]
<1>1. ByGoalOr("actor") \in {"actor", "goal"}
  BY DEF ByGoalOr
<1> QED BY <1>1 DEF Ledger, RestOK

\* Putting a new item behind the queue.
LEMMA EnqueueFacts ==
  ASSUME NEW q \in Seq(Items), Distinct(q), Shares(q), NEW x \in Items, x.ids # {},
         x.ids \cap ItemIds(ToSet(q)) = {}
  PROVE  /\ Append(q, x) \in Seq(Items) /\ Distinct(Append(q, x)) /\ Shares(Append(q, x))
         /\ ToSet(Append(q, x)) = ToSet(q) \cup {x} /\ Append(q, x) # <<>>
         /\ ItemIds(ToSet(Append(q, x))) = ItemIds(ToSet(q)) \cup x.ids
         /\ q # <<>> => Append(q, x)[1] = q[1]
<1>1. x \notin ToSet(q) /\ \A y \in ToSet(q) : y.ids \cap x.ids = {}
  BY DEF ItemIds
<1>2. /\ Append(q, x) \in Seq(Items) /\ ToSet(Append(q, x)) = ToSet(q) \cup {x} /\ Distinct(Append(q, x))
  BY <1>1, AppendFacts
<1>3. Shares(Append(q, x))
  BY <1>1, <1>2 DEF Shares
<1>4. ItemIds(ToSet(Append(q, x))) = ItemIds(ToSet(q)) \cup x.ids
  BY <1>2 DEF ItemIds
<1>5. Append(q, x) # <<>> /\ (q # <<>> => Append(q, x)[1] = q[1])
  OBVIOUS
<1> QED BY <1>2, <1>3, <1>4, <1>5

\* What every command's handler shares.
Takes ==
    /\ mailbox # <<>> /\ mailbox' = Tail(mailbox)
    /\ UNCHANGED <<autoWake, task, quiet, toBridge, active, ghost, call, delivered, suppressed, goal,
                   typed, cancels, told, inTurn, surfaced>>

LEMMA HandleWakeKeeps ==
  ASSUME IInv, Takes, Head(mailbox).kind = "wake", HandleWake(Head(mailbox).id),
         Ledger(ByGoalOr("actor"))
  PROVE  IInv'
<1> DEFINE c == Head(mailbox)
           k == c.id
           x == Item("wake", {k})
<1>1. /\ TypeOK /\ PlacesOK /\ RestOK /\ Separate /\ Kinds /\ Books /\ Forward /\ Surf /\ Quiescent
      /\ NoRepeats /\ Drops /\ Disjoint(Sent, Mail, Noted, Buffered, Queue)
  BY Parts
<1>2. /\ c \in ToSet(mailbox) /\ mailbox' \in Seq(Commands) /\ Distinct(mailbox')
      /\ ToSet(mailbox') = ToSet(mailbox) \ {c} /\ k \in Mail /\ Mail' = Mail \ {k}
  BY TakeFacts DEF Takes
<1>3. k \in Tasks /\ k \notin Queue
  BY <1>1, <1>2, Sorts DEF Disjoint
<1>4. x \in Items /\ x.ids = {k} /\ x.kind = "wake"
  BY <1>3 DEF Items, Item, Ids
<1>5. /\ UNCHANGED <<autoWake, task, quiet, toBridge, active, ghost, call, delivered, suppressed, goal,
                     typed, cancels, told, inTurn, surfaced, notes, buffer, rewound>>
      /\ reported' = reported \cup {k}
      /\ pending' = Append(pending, x)
      /\ turn' = (IF turn = "none" /\ Append(pending, x) # <<>> THEN "starting" ELSE turn)
      /\ pristine' = (IF turn = "none" /\ Append(pending, x) # <<>> THEN TRUE ELSE pristine)
  BY DEF HandleWake, Takes, Start
<1> HIDE DEF c, k, x
<1>6. /\ pending' \in Seq(Items) /\ Distinct(pending') /\ Shares(pending')
      /\ ToSet(pending') = ToSet(pending) \cup {x} /\ pending' # <<>>
      /\ Queue' = Queue \cup {k}
      /\ pending # <<>> => pending'[1] = pending[1]
  <2>1. pending \in Seq(Items) /\ Distinct(pending) /\ Shares(pending)
        /\ x.ids # {} /\ x.ids \cap ItemIds(ToSet(pending)) = {}
    BY <1>1, <1>3, <1>4 DEF PlacesOK, NoRepeats, Queue
  <2>2. /\ pending' \in Seq(Items) /\ Distinct(pending') /\ Shares(pending')
        /\ ToSet(pending') = ToSet(pending) \cup {x} /\ pending' # <<>>
        /\ ItemIds(ToSet(pending')) = ItemIds(ToSet(pending)) \cup x.ids
        /\ pending # <<>> => pending'[1] = pending[1]
    BY <2>1, <1>4, <1>5, EnqueueFacts
  <2> QED BY <2>2, <1>4 DEF Queue
<1>7. Sent' = Sent /\ Noted' = Noted /\ Buffered' = Buffered
  BY <1>5 DEF Sent, Noted, Buffered
<1>8. Flight' = Flight
  BY <1>2, <1>6, <1>7 DEF Flight
<1>9. PlacesOK'
  BY <1>1, <1>2, <1>5, <1>6 DEF PlacesOK
<1>10. turn' \in {"none", "starting", "running", "over"} /\ turn' # "none"
       /\ (turn # "none" => turn' = turn) /\ (turn = "none" => turn' = "starting") /\ pristine' \in BOOLEAN
  <2>1. turn \in {"none", "starting", "running", "over"} /\ pristine \in BOOLEAN /\ Append(pending, x) # <<>>
    BY <1>1, <1>5, <1>6 DEF RestOK
  <2> QED BY <1>5, <2>1
<1>11. RestOK'
  <2>1. gone' \in [Ids -> {"", "goal", "bridge", "actor", "preempted", "cancelled", "rewound", "consumed"}]
    BY <1>1, ActorGone
  <2>2. reported' \subseteq Tasks
    BY <1>1, <1>3, <1>5 DEF RestOK
  <2> QED BY <1>1, <1>5, <1>6, <1>10, <2>1, <2>2 DEF RestOK
<1>12. Separate'
  <2>1. NoRepeats'
    BY <1>1, <1>2, <1>5, <1>6 DEF NoRepeats
  <2>2. Drops'
    BY <1>1, <1>2, <1>5, <1>7 DEF Drops
  <2>3. Disjoint(Sent, Mail, Noted, Buffered, Queue)'
    BY <1>1, <1>2, <1>6, <1>7 DEF Disjoint
  <2> QED BY <2>1, <2>2, <2>3 DEF Separate
<1>13. Kinds'
  BY <1>1, <1>2, <1>3, <1>4, <1>5, <1>6 DEF Kinds, GoodItem
<1>14. Books'
  BY <1>5, <1>7, <1>8, <1>9, <1>11, ActorBooks
<1>15. Forward'
  <2>1. Done' = Done
    BY <1>5 DEF Done
  <2> QED BY <1>1, <1>5, <1>6, <1>8, <1>10, <2>1 DEF Forward
<1>16. Surf'
  BY <1>1, <1>5 DEF Surf
<1>17. Quiescent'
  BY <1>10 DEF Quiescent, Idle
<1> QED BY <1>9, <1>11, <1>12, <1>13, <1>14, <1>15, <1>16, <1>17, Assemble

\* Nothing changes in the queue, and no task in the notifications.
LEMMA EventsOnly ==
  ASSUME IInv, Takes, UNCHANGED <<pending, turn, pristine, reported, rewound>>,
         Ledger(ByGoalOr("actor")),
         mailbox' \in Seq(Commands), Distinct(mailbox'), ToSet(mailbox') \subseteq ToSet(mailbox),
         notes' \in Seq(Notes), Distinct(notes'), ToSet(notes') \subseteq ToSet(notes),
         buffer' \in Seq(Events), Len(buffer') <= MaxBuffer, Distinct(buffer'),
         Flight' \subseteq Flight, Flight \cap Tasks \subseteq Flight',
         Disjoint(Sent, Mail, Noted, Buffered, Queue)',
         Idle(pending, turn) /\ ~rewound => notes' = <<>> /\ buffer' = <<>>
  PROVE  IInv'
<1>1. /\ TypeOK /\ PlacesOK /\ RestOK /\ Separate /\ Kinds /\ Books /\ Forward /\ Surf /\ Quiescent
      /\ NoRepeats /\ Drops
  BY Parts
<1>2. UNCHANGED <<autoWake, task, quiet, toBridge, active, ghost, call, delivered, suppressed, goal,
                  typed, cancels, told, inTurn, surfaced>>
  BY DEF Takes
<1>3. Sent' = Sent
  BY <1>2 DEF Sent
<1>4. PlacesOK'
  BY <1>1, <1>2 DEF PlacesOK
<1>5. RestOK'
  <2>1. gone' \in [Ids -> {"", "goal", "bridge", "actor", "preempted", "cancelled", "rewound", "consumed"}]
    BY <1>1, ActorGone
  <2> QED BY ZenonT(60), <1>1, <1>2, <2>1 DEF RestOK
<1>6. Separate'
  <2>1. NoRepeats'
    BY <1>1, <1>2 DEF NoRepeats
  <2>2. Drops'
    BY <1>1, <1>2, <1>3 DEF Drops
  <2> QED BY <2>1, <2>2 DEF Separate
<1>7. Kinds'
  BY <1>1, <1>2 DEF Kinds, GoodItem
<1>8. Books'
  BY <1>2, <1>3, <1>4, <1>5, ActorBooks
<1>9. Forward'
  <2>1. Done' = Done
    BY <1>2 DEF Done
  <2> QED BY <1>1, <1>2, <2>1 DEF Forward
<1>10. Surf'
  BY <1>1, <1>2 DEF Surf
<1>11. Quiescent'
  BY <1>1, <1>2 DEF Quiescent, Idle
<1> QED BY <1>4, <1>5, <1>6, <1>7, <1>8, <1>9, <1>10, <1>11, Assemble

\* Keeping some items does not make a queue longer.
LEMMA KeptShorter ==
  ASSUME NEW S, NEW q \in Seq(S), NEW keep
  PROVE  Len(Kept(q, keep)) <= Len(q)
<1> DEFINE T == {k \in 1..Len(q) : q[k] \in keep}
<1>1. Len(q) \in Nat /\ IsFiniteSet(1..Len(q)) /\ Cardinality(1..Len(q)) = Len(q)
  <2>1. Len(q) \in Nat /\ 1 \in Int
    OBVIOUS
  <2>2. IsFiniteSet(1..Len(q)) /\ Cardinality(1..Len(q)) = (IF 1 > Len(q) THEN 0 ELSE Len(q) - 1 + 1)
    BY SMTT(30), <2>1, FS_Interval
  <2> QED BY <2>1, <2>2
<1>2. Cardinality(T) <= Cardinality(1..Len(q)) /\ Cardinality(T) \in Nat
  <2>1. T \in SUBSET (1..Len(q))
    OBVIOUS
  <2> HIDE DEF T
  <2> QED BY <1>1, <2>1, FS_Subset, FS_CardinalityType
<1>3. Rank(q, keep, Len(q)) = Cardinality(T)
  BY DEF Rank
<1> HIDE DEF T
<1>4. Len(Kept(q, keep)) = Rank(q, keep, Len(q))
  <2>1. PICK r : r = Rank(q, keep, Len(q))
    OBVIOUS
  <2>2. r \in Nat
    BY <2>1, <1>2, <1>3
  <2>3. DOMAIN Kept(q, keep) = 1..r
    BY <2>1 DEF Kept
  <2>4. Kept(q, keep) \in Seq(S)
    BY KeptFacts
  <2>5. DOMAIN Kept(q, keep) = 1..Len(Kept(q, keep)) /\ Len(Kept(q, keep)) \in Nat
    BY <2>4
  <2> QED BY <2>1, <2>2, <2>3, <2>5
<1> QED BY <1>1, <1>2, <1>3, <1>4

LEMMA HandleDropKeeps ==
  ASSUME IInv, Takes, Head(mailbox).kind = "drop", HandleDrop(Head(mailbox).id),
         Ledger(ByGoalOr("actor"))
  PROVE  IInv'
<1> DEFINE k == Head(mailbox).id
           N == {n \in Notes : n.kind = "event" => MonitorOf[n.id] # k}
           B == {e \in Events : MonitorOf[e] # k}
<1>1. /\ TypeOK /\ PlacesOK /\ NoRepeats /\ Quiescent /\ Disjoint(Sent, Mail, Noted, Buffered, Queue)
  BY Parts
<1>2. /\ mailbox' \in Seq(Commands) /\ Distinct(mailbox')
      /\ ToSet(mailbox') \subseteq ToSet(mailbox) /\ Mail' = Mail
  BY TakeFacts DEF Takes
<1>3. /\ notes' = Kept(notes, N) /\ buffer' = Kept(buffer, B)
      /\ UNCHANGED <<toBridge, pending, turn, pristine, reported, rewound>>
  BY DEF HandleDrop, Takes
<1>4. \A n \in Notes : n.id \in Tasks => n \in N
  BY <1>1, Sorts DEF Notes
<1> HIDE DEF N, B
<1>5. /\ notes \in Seq(Notes) /\ Distinct(notes) /\ buffer \in Seq(Events) /\ Distinct(buffer)
      /\ Len(buffer) <= MaxBuffer
  BY <1>1 DEF PlacesOK, NoRepeats
<1>6. notes' \in Seq(Notes) /\ Distinct(notes') /\ ToSet(notes') = ToSet(notes) \cap N
  BY <1>3, <1>5, KeptFacts, KeptDistinct
<1>7. buffer' \in Seq(Events) /\ Distinct(buffer') /\ ToSet(buffer') = ToSet(buffer) \cap B
  BY <1>3, <1>5, KeptFacts, KeptDistinct
<1>8. Len(buffer') <= MaxBuffer
  <2>1. Len(Kept(buffer, B)) <= Len(buffer)
    BY <1>5, KeptShorter
  <2>2. Len(buffer') \in Nat /\ Len(buffer) \in Nat /\ MaxBuffer \in Nat
    BY <1>5, <1>7, NotifyAssumption
  <2> QED BY <1>3, <1>5, <2>1, <2>2
<1>9. Sent' = Sent /\ Queue' = Queue
  BY <1>3 DEF Sent, Queue
<1>10. Noted' \subseteq Noted /\ Noted \cap Tasks \subseteq Noted' /\ Buffered' \subseteq Buffered
  <2>1. ToSet(notes) \subseteq Notes
    BY <1>1, Members
  <2> QED BY <1>4, <1>6, <1>7, <2>1 DEF Noted, Buffered, IdsOf
<1>11. Buffered \cap Tasks = {}
  BY <1>1, Sorts
<1>12. Flight' \subseteq Flight /\ Flight \cap Tasks \subseteq Flight'
  BY <1>2, <1>9, <1>10, <1>11 DEF Flight
<1>13. Disjoint(Sent, Mail, Noted, Buffered, Queue)'
  BY <1>1, <1>2, <1>9, <1>10 DEF Disjoint
<1>14. Idle(pending, turn) /\ ~rewound => notes' = <<>> /\ buffer' = <<>>
  <2>1. notes = <<>> => ToSet(notes') = {}
    BY <1>5, <1>6, NoMembers
  <2>2. buffer = <<>> => ToSet(buffer') = {}
    BY <1>5, <1>7, NoMembers
  <2> QED BY <2>1, <2>2, <1>1, <1>6, <1>7, NoMembers DEF Quiescent
<1> QED BY <1>2, <1>3, <1>6, <1>7, <1>8, <1>12, <1>13, <1>14, EventsOnly

\* The buffer with a new event.
LEMMA PushFacts ==
  ASSUME NEW b \in Seq(Events), Distinct(b), Len(b) <= MaxBuffer, NEW e \in Events, e \notin ToSet(b)
  PROVE  /\ PushCapped(b, e) \in Seq(Events) /\ Distinct(PushCapped(b, e))
         /\ Len(PushCapped(b, e)) <= MaxBuffer
         /\ ToSet(PushCapped(b, e)) \subseteq ToSet(b) \cup {e} /\ e \in ToSet(PushCapped(b, e))
<1> DEFINE r == IF Len(b) < MaxBuffer THEN b ELSE Tail(b)
<1>1. MaxBuffer \in Nat /\ MaxBuffer > 0 /\ Len(b) \in Nat
  BY NotifyAssumption
<1>2. r \in Seq(Events) /\ Distinct(r) /\ ToSet(r) \subseteq ToSet(b) /\ Len(r) < MaxBuffer
  <2>1. CASE Len(b) < MaxBuffer
    BY <2>1
  <2>2. CASE ~(Len(b) < MaxBuffer)
    <3>1. b # <<>> /\ Len(b) = MaxBuffer
      BY <1>1, <2>2
    <3>2. Tail(b) \in Seq(Events) /\ Distinct(Tail(b)) /\ ToSet(Tail(b)) \subseteq ToSet(b)
      BY <3>1, TailFacts
    <3>3. Len(Tail(b)) = Len(b) - 1
      BY <3>1
    <3> QED BY <1>1, <2>2, <3>1, <3>2, <3>3
  <2> QED BY <2>1, <2>2
<1>3. PushCapped(b, e) = Append(r, e)
  BY DEF PushCapped
<1> HIDE DEF r
<1>4. Append(r, e) \in Seq(Events) /\ ToSet(Append(r, e)) = ToSet(r) \cup {e} /\ Distinct(Append(r, e))
  BY <1>2, AppendFacts
<1>5. Len(Append(r, e)) <= MaxBuffer
  <2>1. Len(Append(r, e)) = Len(r) + 1 /\ Len(r) \in Nat
    BY <1>2
  <2> QED BY <2>1, <1>1, <1>2
<1> QED BY <1>2, <1>3, <1>4, <1>5

LEMMA HandlePushKeeps ==
  ASSUME IInv, Takes, Head(mailbox).kind = "event", active,
         buffer' = PushCapped(buffer, Head(mailbox).id),
         UNCHANGED <<pending, turn, pristine, notes, reported, rewound>>,
         Ledger(ByGoalOr("actor"))
  PROVE  IInv'
<1> DEFINE e == Head(mailbox).id
<1>1. /\ TypeOK /\ PlacesOK /\ NoRepeats /\ Quiescent /\ Disjoint(Sent, Mail, Noted, Buffered, Queue)
  BY Parts
<1>2. /\ mailbox' \in Seq(Commands) /\ Distinct(mailbox') /\ Head(mailbox) \in ToSet(mailbox)
      /\ ToSet(mailbox') \subseteq ToSet(mailbox) /\ e \in Mail /\ Mail' = Mail \ {e}
  BY TakeFacts DEF Takes
<1>3. e \in Events /\ e \notin Buffered /\ e \notin Sent /\ e \notin Noted /\ e \notin Queue
      /\ Events \cap Tasks = {} /\ Buffered \subseteq Events
  BY <1>1, <1>2, Sorts DEF Disjoint
<1> HIDE DEF e
<1>4. /\ notes' \in Seq(Notes) /\ Distinct(notes') /\ ToSet(notes') \subseteq ToSet(notes)
      /\ buffer \in Seq(Events) /\ Distinct(buffer) /\ Len(buffer) <= MaxBuffer
  BY <1>1 DEF PlacesOK, NoRepeats
<1>5. /\ buffer' \in Seq(Events) /\ Distinct(buffer') /\ Len(buffer') <= MaxBuffer
      /\ Buffered' \subseteq Buffered \cup {e} /\ e \in Buffered'
  BY <1>3, <1>4, PushFacts DEF Buffered, e
<1>6. Sent' = Sent /\ Noted' = Noted /\ Queue' = Queue
  BY DEF Sent, Noted, Queue, Takes
<1>7. Flight' \subseteq Flight /\ Flight \cap Tasks \subseteq Flight'
  BY <1>2, <1>3, <1>5, <1>6 DEF Flight
<1>8. Disjoint(Sent, Mail, Noted, Buffered, Queue)'
  BY <1>1, <1>2, <1>3, <1>5, <1>6 DEF Disjoint
<1>9. ~(Idle(pending, turn) /\ ~rewound)
  BY <1>1 DEF Quiescent
<1> QED BY <1>2, <1>4, <1>5, <1>7, <1>8, <1>9, EventsOnly

\* The newest notifications, up to the cap.
LEMMA CappedFacts ==
  ASSUME NEW n \in Seq(Notes), Distinct(n)
  PROVE  Capped(n) \in Seq(Notes) /\ Distinct(Capped(n)) /\ ToSet(Capped(n)) \subseteq ToSet(n)
<1>1. CASE ~(Len(n) > MaxNotes)
  BY <1>1 DEF Capped
<1>2. CASE Len(n) > MaxNotes
  <2> DEFINE m == Len(n) - MaxNotes
             r == SubSeq(n, m + 1, Len(n))
  <2>1. m \in 0..Len(n) /\ 1 + Len(n) - MaxNotes = m + 1
    <3>1. Len(n) \in Nat /\ MaxNotes \in Nat
      BY NotifyAssumption
    <3> QED BY <3>1, <1>2
  <2>2. Capped(n) = r
    BY <1>2, <2>1 DEF Capped
  <2> HIDE DEF m
  <2>3. r \in Seq(Notes) /\ Distinct(r) /\ ToSet(r) \subseteq ToSet(n)
    BY <2>1, SplitFacts
  <2> QED BY <2>2, <2>3
<1> QED BY <1>1, <1>2

LEMMA HandleDrainKeeps ==
  ASSUME IInv, Takes, Head(mailbox).kind \in {"event", "done"},
         Drain(pending, turn, Capped(Append(notes, Head(mailbox))), buffer),
         Ledger(ByGoalOr("actor"))
  PROVE  IInv'
<1> DEFINE c == Head(mailbox)
           m == Append(notes, c)
           N == IdsOf(ToSet(Capped(m)))
<1>1. /\ TypeOK /\ PlacesOK /\ RestOK /\ Separate /\ Kinds /\ Books /\ Forward /\ Surf /\ Quiescent
      /\ NoRepeats /\ Drops /\ Disjoint(Sent, Mail, Noted, Buffered, Queue)
  BY Parts
<1>2. /\ c \in ToSet(mailbox) /\ c \in Commands /\ mailbox' \in Seq(Commands) /\ Distinct(mailbox')
      /\ ToSet(mailbox') \subseteq ToSet(mailbox) /\ c.id \in Mail /\ Mail' = Mail \ {c.id}
  BY TakeFacts DEF Takes
<1>3. c \in Notes /\ c.kind \in {"event", "done"}
  BY <1>2 DEF Commands, Notes
<1>4. UNCHANGED <<autoWake, task, quiet, toBridge, active, ghost, call, delivered, suppressed, goal,
                  typed, cancels, told, inTurn, surfaced>>
  BY DEF Takes
<1>5. c.id \notin Noted /\ c.id \notin Buffered /\ c.id \notin Queue /\ c.id \notin Sent
      /\ Tasks \cap Events = {} /\ Ids = Tasks \cup Events
      /\ Buffered \subseteq Events /\ Noted \subseteq Ids /\ c.id \in Ids
  BY <1>1, <1>2, Sorts DEF Disjoint
<1>6. Drain(pending, turn, Capped(m), buffer)
  OBVIOUS
<1> HIDE DEF c
<1>7. m \in Seq(Notes) /\ Distinct(m) /\ ToSet(m) = ToSet(notes) \cup {c}
  <2>1. notes \in Seq(Notes) /\ Distinct(notes) /\ c \notin ToSet(notes)
    BY <1>1, <1>5 DEF PlacesOK, NoRepeats, Noted, IdsOf
  <2> QED BY <1>3, <2>1, AppendFacts
<1> HIDE DEF m
<1>8. Capped(m) \in Seq(Notes) /\ Distinct(Capped(m)) /\ ToSet(Capped(m)) \subseteq ToSet(notes) \cup {c}
  BY <1>7, CappedFacts
<1>9. N \subseteq Noted \cup {c.id}
  BY <1>8 DEF Noted, IdsOf
<1>10. \A x \in ToSet(notes) \cup {c} : x.id \in Tasks => ~autoWake
  <2>1. \A x \in Notes : x.id \in Tasks => x.kind = "done"
    BY <1>5 DEF Notes
  <2> QED BY <2>1, <1>1, <1>2, <1>3, Members DEF Kinds
<1>11. \A k \in Tasks : k \in Noted \cup {c.id} => ~autoWake
  BY <1>10 DEF Noted, IdsOf
<1>12. /\ pending \in Seq(Items) /\ turn \in {"none", "starting", "running", "over"} /\ buffer \in Seq(Events)
       /\ Distinct(pending) /\ Shares(pending) /\ Distinct(buffer) /\ Len(buffer) <= MaxBuffer
       /\ (turn # "none" => pending # <<>>)
       /\ ItemIds(ToSet(pending)) = Queue /\ ToSet(buffer) = Buffered
  BY <1>1 DEF PlacesOK, RestOK, NoRepeats, Queue, Buffered
<1>13. N \cap ToSet(buffer) = {} /\ N \cap ItemIds(ToSet(pending)) = {}
       /\ ToSet(buffer) \cap ItemIds(ToSet(pending)) = {}
  BY <1>1, <1>5, <1>9, <1>12 DEF Disjoint
<1>14. PICK q, t, n, b : q = pending /\ t = turn /\ n = Capped(m) /\ b = buffer
  OBVIOUS
<1>15. Drain(q, t, n, b)
  BY <1>6, <1>14
<1>16. DrainEffect(q, t, n, b)
  BY <1>1, <1>8, <1>12, <1>13, <1>14, <1>15, DrainFacts
<1>17. /\ Noted' \subseteq N /\ Buffered' \subseteq Buffered /\ Queue' \subseteq N \cup Buffered \cup Queue
       /\ Sent' = Sent
  BY <1>4, <1>12, <1>14, <1>16 DEF DrainEffect, Sent
<1>18. Flight' \subseteq Flight
  BY <1>2, <1>9, <1>17 DEF Flight
<1>19. \A k \in Tasks : k \in Flight /\ k \notin Flight' => k \notin delivered
  <2>1. Queue \subseteq Flight'
    <3>1. pending = <<>> => Queue = {}
      BY <1>12, NoMembers DEF Queue, ItemIds
    <3> QED BY <3>1, <1>12, <1>14, <1>16 DEF DrainEffect, Flight
  <2>2. \A k \in Tasks : k \in Flight /\ k \notin Flight' => k \in Noted \cup {c.id}
    BY <2>1, <1>2, <1>5, <1>17 DEF Flight
  <2> QED BY <2>2, <1>1, <1>11 DEF Kinds
<1>20. PlacesOK'
  BY <1>1, <1>2, <1>4, <1>16 DEF DrainEffect, PlacesOK
<1>21. RestOK'
  <2>1. gone' \in [Ids -> {"", "goal", "bridge", "actor", "preempted", "cancelled", "rewound", "consumed"}]
    BY <1>1, ActorGone
  <2> QED BY <1>1, <1>4, <1>16, <2>1 DEF DrainEffect, RestOK
<1>22. Separate'
  <2>1. NoRepeats'
    BY <1>1, <1>2, <1>4, <1>16 DEF DrainEffect, NoRepeats
  <2>2. Drops'
    BY <1>1, <1>2, <1>4, <1>17 DEF Drops
  <2>3. Disjoint(Sent, Mail, Noted, Buffered, Queue)'
    BY <1>1, <1>2, <1>5, <1>9, <1>16, <1>17 DEF DrainEffect, Disjoint
  <2> QED BY <2>1, <2>2, <2>3 DEF Separate
<1>23. Kinds'
  <2>1. \A x \in ToSet(notes') : x.kind = "done" => ~autoWake
    BY <1>1, <1>2, <1>8, <1>14, <1>16 DEF DrainEffect, Kinds
  <2>2. ASSUME NEW x \in ToSet(pending') PROVE GoodItem(x)'
    <3>1. CASE x \in ToSet(pending)
      BY <1>1, <1>4, <3>1 DEF Kinds, GoodItem
    <3>2. CASE x.kind = "batch" /\ x.ids # {} /\ x.ids = N \cup Buffered
      <4>1. x.ids \subseteq Ids /\ (autoWake => x.ids \cap Tasks = {})
        BY <1>5, <1>9, <1>11, <3>2
      <4> QED BY <4>1, <3>2, <1>4 DEF GoodItem
    <3> QED BY <3>1, <3>2, <1>12, <1>14, <1>16 DEF DrainEffect
  <2> QED BY <1>1, <1>2, <1>4, <2>1, <2>2 DEF Kinds
<1>24. Books'
  BY <1>4, <1>17, <1>18, <1>19, <1>20, <1>21, ActorBooks
<1>25. Forward'
  <2>1. Done' = Done
    BY <1>4 DEF Done
  <2>2. turn # "none" => turn' = turn /\ pending' = pending
    BY <1>14, <1>16 DEF DrainEffect
  <2>3. turn = "none" => turn' \in {"none", "starting"}
    BY <1>14, <1>16 DEF DrainEffect
  <2>4. turn' = "none" <=> pending' = <<>>
    BY <1>16 DEF DrainEffect
  <2> QED BY <1>1, <1>4, <1>18, <2>1, <2>2, <2>3, <2>4 DEF Forward
<1>26. Surf'
  BY <1>1, <1>4, <1>16 DEF DrainEffect, Surf
<1>27. Quiescent'
  <2> SUFFICES ASSUME turn' = "none", ~suppressed, ~rewound'
               PROVE  ~active /\ notes' = <<>> /\ buffer' = <<>>
    BY <1>4 DEF Quiescent, Idle
  <2>1. notes' = <<>> /\ buffer' = <<>> /\ ~(rewound /\ active)
    BY <1>16 DEF DrainEffect
  <2>2. Idle(pending, turn)
    BY <1>1, <1>14, <1>16 DEF DrainEffect, Idle, Forward
  <2> QED BY <2>1, <2>2, <1>1 DEF Quiescent
<1> QED BY <1>20, <1>21, <1>22, <1>23, <1>24, <1>25, <1>26, <1>27, Assemble

LEMMA HandleKeeps ==
  ASSUME IInv, Handle, Ledger(ByGoalOr("actor"))
  PROVE  IInv'
<1>1. Takes
  BY DEF Handle, Takes, taskVars, historyVars
<1>2. CASE Head(mailbox).kind = "wake" /\ HandleWake(Head(mailbox).id)
  BY <1>1, <1>2, HandleWakeKeeps
<1>3. CASE Head(mailbox).kind = "drop" /\ HandleDrop(Head(mailbox).id)
  BY <1>1, <1>3, HandleDropKeeps
<1>4. CASE Head(mailbox).kind \in {"event", "done"} /\ HandleInject(Head(mailbox))
  <2>1. \/ /\ active /\ Head(mailbox).kind = "event"
           /\ buffer' = PushCapped(buffer, Head(mailbox).id)
           /\ UNCHANGED <<pending, turn, pristine, notes, reported, rewound>>
        \/ Drain(pending, turn, Capped(Append(notes, Head(mailbox))), buffer)
    BY <1>4 DEF HandleInject
  <2> QED BY <1>1, <1>4, <2>1, HandlePushKeeps, HandleDrainKeeps
<1> QED BY <1>2, <1>3, <1>4 DEF Handle

\* The queue without its front.
LEMMA PopFacts ==
  ASSUME NEW q \in Seq(Items), Distinct(q), Shares(q), q # <<>>
  PROVE  /\ Tail(q) \in Seq(Items) /\ Distinct(Tail(q)) /\ Shares(Tail(q))
         /\ ToSet(Tail(q)) \subseteq ToSet(q)
         /\ ItemIds(ToSet(q)) = q[1].ids \cup ItemIds(ToSet(Tail(q)))
         /\ q[1].ids \cap ItemIds(ToSet(Tail(q))) = {}
<1>1. /\ Tail(q) \in Seq(Items) /\ Distinct(Tail(q))
      /\ Head(q) \in ToSet(q) /\ ToSet(Tail(q)) = ToSet(q) \ {Head(q)}
  BY TailFacts
<1>2. Head(q) = q[1]
  OBVIOUS
<1>3. Shares(Tail(q))
  BY <1>1 DEF Shares
<1>4. ItemIds(ToSet(q)) = q[1].ids \cup ItemIds(ToSet(Tail(q)))
  BY <1>1, <1>2 DEF ItemIds
<1>5. q[1].ids \cap ItemIds(ToSet(Tail(q))) = {}
  BY <1>1, <1>2 DEF ItemIds, Shares
<1> QED BY <1>1, <1>3, <1>4, <1>5

LEMMA HandleCompletionKeeps ==
  ASSUME IInv, HandleCompletion, Ledger(ByGoalOr("actor"))
  PROVE  IInv'
<1> DEFINE m == Swept(notes, buffer)
           rest == Tail(pending)
<1>1. /\ TypeOK /\ PlacesOK /\ RestOK /\ Separate /\ Kinds /\ Books /\ Forward /\ Surf /\ Quiescent
      /\ NoRepeats /\ Drops /\ Disjoint(Sent, Mail, Noted, Buffered, Queue)
  BY Parts
<1>2. /\ UNCHANGED <<autoWake, task, quiet, toBridge, mailbox, active, ghost, call, delivered, suppressed, goal,
                     typed, cancels, told, surfaced>>
      /\ turn = "over" /\ Drain(rest, "none", m, <<>>) /\ inTurn' = {}
  BY DEF HandleCompletion, taskVars, DrainOwned
<1>3. /\ Tasks \cap Events = {} /\ Ids = Tasks \cup Events
      /\ Buffered \subseteq Events /\ Noted \subseteq Ids
  BY <1>1, Sorts
<1>4. /\ pending \in Seq(Items) /\ Distinct(pending) /\ Shares(pending) /\ pending # <<>>
      /\ notes \in Seq(Notes) /\ Distinct(notes) /\ buffer \in Seq(Events) /\ Distinct(buffer)
      /\ IdsOf(ToSet(notes)) = Noted /\ ToSet(buffer) = Buffered /\ ItemIds(ToSet(pending)) = Queue
      /\ Noted \cap Buffered = {} /\ Noted \cap Queue = {} /\ Buffered \cap Queue = {}
  BY <1>1, <1>2 DEF PlacesOK, NoRepeats, Forward, Noted, Buffered, Queue, Disjoint
<1>5. /\ rest \in Seq(Items) /\ Distinct(rest) /\ Shares(rest) /\ ToSet(rest) \subseteq ToSet(pending)
      /\ Queue = pending[1].ids \cup ItemIds(ToSet(rest))
      /\ pending[1].ids \cap ItemIds(ToSet(rest)) = {}
  BY <1>4, PopFacts
<1>6. /\ m \in Seq(Notes) /\ Distinct(m) /\ IdsOf(ToSet(m)) = Noted \cup Buffered
      /\ ToSet(m) = ToSet(notes) \cup {Msg("event", e) : e \in ToSet(buffer)}
  BY <1>4, SweptFacts
<1> HIDE DEF m, rest
<1>7. \A x \in ToSet(m) : x.kind = "done" => ~autoWake
  <2>1. \A e : Msg("event", e).kind = "event"
    BY DEF Msg
  <2> QED BY <2>1, <1>1, <1>6 DEF Kinds
<1>8. \A k \in Tasks : k \in Noted => ~autoWake
  <2>1. \A x \in Notes : x.id \in Tasks => x.kind = "done"
    BY <1>3 DEF Notes
  <2> QED BY <2>1, <1>1, Members DEF Kinds, Noted, IdsOf
<1>9. <<>> \in Seq(Events) /\ Distinct(<<>>) /\ ToSet(<<>>) = {} /\ Len(<<>>) <= MaxBuffer
  <2>1. <<>> \in Seq(Events) /\ Len(<<>>) = 0 /\ DOMAIN <<>> = {}
    OBVIOUS
  <2> QED BY <2>1, NotifyAssumption DEF ToSet, Distinct
<1>10. PICK q, n, t, b : q = rest /\ n = m /\ t = "none" /\ b = <<>>
  OBVIOUS
<1>11. Drain(q, t, n, b)
  BY <1>2, <1>10
<1>12. DrainEffect(q, t, n, b)
  <2>1. /\ q \in Seq(Items) /\ t \in {"none", "starting", "running", "over"} /\ n \in Seq(Notes) /\ b \in Seq(Events)
        /\ Distinct(q) /\ Shares(q) /\ Distinct(n) /\ Distinct(b) /\ Len(b) <= MaxBuffer
        /\ (t # "none" => q # <<>>)
    BY <1>5, <1>6, <1>9, <1>10
  <2>2. /\ IdsOf(ToSet(n)) \cap ToSet(b) = {} /\ IdsOf(ToSet(n)) \cap ItemIds(ToSet(q)) = {}
        /\ ToSet(b) \cap ItemIds(ToSet(q)) = {}
    BY <1>4, <1>5, <1>6, <1>9, <1>10
  <2> QED BY <1>1, <1>11, <2>1, <2>2, DrainFacts
<1>13. /\ Noted' \subseteq Noted \cup Buffered /\ Buffered' = {}
       /\ Queue' \subseteq Noted \cup Buffered \cup ItemIds(ToSet(rest))
       /\ Sent' = Sent /\ Mail' = Mail
  BY <1>2, <1>6, <1>9, <1>10, <1>12 DEF DrainEffect, Sent, Mail
<1>14. Flight' \subseteq Flight /\ Flight' \cap pending[1].ids = {}
  <2>1. Flight' \subseteq Flight
    BY <1>5, <1>13 DEF Flight
  <2>2. (Noted' \cup Buffered' \cup Queue') \cap pending[1].ids = {}
    BY <1>4, <1>5, <1>13
  <2>3. (Sent \cup Mail) \cap pending[1].ids = {}
    BY <1>1, <1>5 DEF Disjoint
  <2> QED BY <1>13, <2>1, <2>2, <2>3 DEF Flight
<1>15. \A k \in Tasks : k \in Flight /\ k \notin Flight' /\ k \notin told => k \notin delivered
  <2>1. ItemIds(ToSet(rest)) \subseteq Flight'
    <3>1. rest = <<>> => ItemIds(ToSet(rest)) = {}
      BY <1>5, NoMembers DEF ItemIds
    <3> QED BY <3>1, <1>10, <1>12 DEF DrainEffect, Flight
  <2>2. pending[1].ids \cap Ids \subseteq told
    BY <1>1, <1>2 DEF Forward
  <2>3. \A k \in Tasks : k \in Flight /\ k \notin Flight' /\ k \notin told => k \in Noted
    BY <1>3, <1>5, <1>13, <2>1, <2>2 DEF Flight
  <2> QED BY <2>3, <1>1, <1>8 DEF Kinds
<1>16. PlacesOK'
  BY <1>1, <1>2, <1>12 DEF PlacesOK, DrainEffect
<1>17. RestOK'
  <2>1. gone' \in [Ids -> {"", "goal", "bridge", "actor", "preempted", "cancelled", "rewound", "consumed"}]
    BY <1>1, ActorGone
  <2> QED BY <1>1, <1>2, <1>12, <2>1 DEF RestOK, DrainEffect
<1>18. Separate'
  <2>1. NoRepeats'
    BY <1>1, <1>2, <1>12 DEF NoRepeats, DrainEffect
  <2>2. Drops'
    BY <1>1, <1>2, <1>13 DEF Drops
  <2>3. Disjoint(Sent, Mail, Noted, Buffered, Queue)'
    BY <1>1, <1>5, <1>12, <1>13 DEF Disjoint, DrainEffect
  <2> QED BY <2>1, <2>2, <2>3 DEF Separate
<1>19. Kinds'
  <2>1. \A x \in ToSet(notes') : x.kind = "done" => ~autoWake
    BY <1>7, <1>10, <1>12 DEF DrainEffect
  <2>2. ASSUME NEW x \in ToSet(pending') PROVE GoodItem(x)'
    <3>1. CASE x \in ToSet(pending)
      BY <1>1, <1>2, <3>1 DEF Kinds, GoodItem
    <3>2. CASE x.kind = "batch" /\ x.ids # {} /\ x.ids = Noted \cup Buffered
      <4>1. x.ids \subseteq Ids /\ (autoWake => x.ids \cap Tasks = {})
        BY <1>3, <1>8, <3>2
      <4> QED BY <4>1, <3>2, <1>2 DEF GoodItem
    <3> QED BY <3>1, <3>2, <1>5, <1>6, <1>9, <1>10, <1>12 DEF DrainEffect
  <2> QED BY <1>1, <1>2, <2>1, <2>2 DEF Kinds
<1>20. Books'
  BY <1>2, <1>13, <1>14, <1>15, <1>16, <1>17, ActorBooks
<1>21. Forward'
  <2>1. Done' = Done
    BY <1>2 DEF Done
  <2>2. turn' \in {"none", "starting"} /\ (turn' = "none" <=> pending' = <<>>)
    BY <1>10, <1>12 DEF DrainEffect
  <2>3. \A e \in Events \cap told : e \notin Flight'
    BY <1>1, <1>14 DEF Forward
  <2> QED BY <1>1, <1>2, <2>1, <2>2, <2>3 DEF Forward
<1>22. Surf'
  BY <1>1, <1>2, <1>12 DEF Surf, DrainEffect
<1>23. Quiescent'
  BY <1>1, <1>2, <1>12 DEF Quiescent, Idle, DrainEffect, Forward
<1> QED BY <1>16, <1>17, <1>18, <1>19, <1>20, <1>21, <1>22, <1>23, Assemble

\* The queue cut in two shares no id between the parts.
LEMMA CutFacts ==
  ASSUME NEW q \in Seq(Items), Distinct(q), Shares(q), NEW n \in 0..Len(q)
  PROVE  /\ SubSeq(q, n + 1, Len(q)) \in Seq(Items) /\ Distinct(SubSeq(q, n + 1, Len(q)))
         /\ Shares(SubSeq(q, n + 1, Len(q)))
         /\ ToSet(SubSeq(q, n + 1, Len(q))) \subseteq ToSet(q)
         /\ n > 0 => q[1].ids \cap ItemIds(ToSet(SubSeq(q, n + 1, Len(q)))) = {}
<1> DEFINE a == SubSeq(q, 1, n)
           b == SubSeq(q, n + 1, Len(q))
<1>1. /\ a \in Seq(Items) /\ b \in Seq(Items) /\ Len(a) = n
      /\ \A k \in 1..n : a[k] = q[k]
      /\ ToSet(q) = ToSet(a) \cup ToSet(b)
      /\ Distinct(b) /\ ToSet(a) \cap ToSet(b) = {}
  BY SplitFacts
<1> HIDE DEF a, b
<1>2. Shares(b)
  BY <1>1 DEF Shares
<1>3. n > 0 => q[1] \in ToSet(a)
  <2>1. n > 0 => 1 \in 1..Len(a) /\ a[1] = q[1]
    BY <1>1
  <2> QED BY <2>1, <1>1, Elements
<1>4. n > 0 => q[1].ids \cap ItemIds(ToSet(b)) = {}
  BY <1>1, <1>3 DEF ItemIds, Shares
<1> QED BY <1>1, <1>2, <1>4 DEF b

\* What SessionCommand::Cancel leaves of the notifications, the buffer and the queue.
LEMMA CancelKeeps ==
  ASSUME IInv, NEW kill \in BOOLEAN, NEW rewind \in BOOLEAN, Cancel(kill, rewind), Ledger(ByCancel(rewind))
  PROVE  IInv'
<1> DEFINE m == Swept(notes, buffer)
           pops == rewind /\ pristine
           cut == IF kill /\ ~pops THEN Len(pending) ELSE IF pending = <<>> THEN 0 ELSE 1
           rest == SubSeq(pending, cut + 1, Len(pending))
<1>1. /\ TypeOK /\ PlacesOK /\ RestOK /\ Separate /\ Kinds /\ Books /\ Forward /\ Surf /\ Quiescent
      /\ NoRepeats /\ Drops /\ Disjoint(Sent, Mail, Noted, Buffered, Queue)
  BY Parts
<1>2. /\ UNCHANGED <<autoWake, task, quiet, toBridge, mailbox, reported, typed, surfaced, active>>
      /\ cancels < MaxCancels /\ cancels' = cancels + 1
      /\ notes' = (IF kill THEN <<>> ELSE m) /\ buffer' = <<>>
      /\ call' = NoCall /\ inTurn' = {}
  BY DEF Cancel, Abort, taskVars, DrainOwned
<1>3. /\ suppressed' = ~pops /\ rewound' = (rewound \/ pops)
      /\ told' = (IF pops THEN told \ inTurn ELSE told)
      /\ pending' = rest
      /\ turn' = (IF rest # <<>> THEN "starting" ELSE "none")
      /\ pristine' = (rest # <<>>)
  BY DEF Cancel
<1>4. delivered' \subseteq delivered /\ goal' \in {"none", "active", "complete"} /\ ghost' \in BOOLEAN
  <2>1. delivered' \subseteq delivered
    BY DEF Cancel, UnmarkedByCancel, Unmarked
  <2>2. goal' \in {"none", "active", "complete"}
    BY <1>1 DEF Cancel, RestOK
  <2>3. ghost' \in BOOLEAN
    BY <1>1 DEF Cancel, Abort, RestOK
  <2> QED BY <2>1, <2>2, <2>3
<1>5. /\ pending \in Seq(Items) /\ Distinct(pending) /\ Shares(pending)
      /\ notes \in Seq(Notes) /\ Distinct(notes) /\ buffer \in Seq(Events) /\ Distinct(buffer)
      /\ IdsOf(ToSet(notes)) = Noted /\ ToSet(buffer) = Buffered /\ ItemIds(ToSet(pending)) = Queue
      /\ Noted \cap Buffered = {} /\ Noted \cap Queue = {} /\ Buffered \cap Queue = {}
  BY <1>1 DEF PlacesOK, NoRepeats, Noted, Buffered, Queue, Disjoint
<1>6. cut \in 0..Len(pending) /\ (pending # <<>> => cut > 0)
  BY <1>5
<1>6a. ~pops => delivered' = delivered \ WakesIn(SubSeq(pending, 1, cut))
  BY DEF Cancel, UnmarkedByCancel, Unmarked
<1> HIDE DEF cut
<1>6b. /\ ToSet(pending) = ToSet(SubSeq(pending, 1, cut)) \cup ToSet(rest)
       /\ SubSeq(pending, 1, cut) \in Seq(Items)
  BY <1>5, <1>6, SplitFacts
<1>6c. \A k, y : y \in ToSet(SubSeq(pending, 1, cut)) /\ y.kind = "wake" /\ k \in y.ids
                => k \in WakesIn(SubSeq(pending, 1, cut))
  <2> SUFFICES ASSUME NEW k, NEW y \in ToSet(SubSeq(pending, 1, cut)), y.kind = "wake", k \in y.ids
               PROVE  k \in WakesIn(SubSeq(pending, 1, cut))
    OBVIOUS
  <2>1. PICK j \in 1..Len(SubSeq(pending, 1, cut)) : y = SubSeq(pending, 1, cut)[j]
    BY <1>6b, Elements
  <2> QED BY <2>1 DEF WakesIn
<1>7. /\ rest \in Seq(Items) /\ Distinct(rest) /\ Shares(rest) /\ ToSet(rest) \subseteq ToSet(pending)
      /\ pending # <<>> => pending[1].ids \cap ItemIds(ToSet(rest)) = {}
  BY <1>5, <1>6, CutFacts
<1>8. /\ m \in Seq(Notes) /\ Distinct(m) /\ IdsOf(ToSet(m)) = Noted \cup Buffered
      /\ ToSet(m) = ToSet(notes) \cup {Msg("event", e) : e \in ToSet(buffer)}
  BY <1>5, SweptFacts
<1>9. \A S : <<>> \in Seq(S) /\ Distinct(<<>>) /\ ToSet(<<>>) = {} /\ Len(<<>>) = 0
  <2>1. \A S : <<>> \in Seq(S) /\ Len(<<>>) = 0 /\ DOMAIN <<>> = {}
    OBVIOUS
  <2> QED BY <2>1 DEF ToSet, Distinct
<1> HIDE DEF m, rest, pops
<1>10. /\ notes' \in Seq(Notes) /\ Distinct(notes') /\ Noted' \subseteq Noted \cup Buffered
       /\ \A x \in ToSet(notes') : x.kind = "done" => ~autoWake
  <2>1. \A e : Msg("event", e).kind = "event"
    BY DEF Msg
  <2>2. \A x \in ToSet(m) : x.kind = "done" => ~autoWake
    BY <2>1, <1>1, <1>8 DEF Kinds
  <2>3. CASE kill
    <3>1. notes' = <<>> /\ ToSet(notes') = {}
      BY <2>3, <1>2, <1>9
    <3> QED BY <3>1, <1>9 DEF Noted, IdsOf
  <2>4. CASE ~kill
    BY <2>2, <2>4, <1>2, <1>8 DEF Noted
  <2> QED BY <2>3, <2>4
<1>11. buffer' \in Seq(Events) /\ Distinct(buffer') /\ Buffered' = {} /\ Len(buffer') <= MaxBuffer
  BY <1>2, <1>9, NotifyAssumption DEF Buffered
<1>12. /\ Queue' \subseteq Queue /\ Sent' = Sent /\ Mail' = Mail
       /\ pending # <<>> => pending[1].ids \cap Queue' = {}
  BY <1>2, <1>3, <1>5, <1>7 DEF Queue, Sent, Mail, ItemIds
<1>13. Flight' \subseteq Flight /\ (pending # <<>> => pending[1].ids \cap Flight' = {} /\ pending[1].ids \subseteq Flight)
  <2>1. Flight' \subseteq Flight
    BY <1>10, <1>11, <1>12 DEF Flight
  <2>2. pending # <<>> => pending[1].ids \subseteq Queue
    BY <1>1, FrontItem
  <2>3. (Sent \cup Mail \cup Noted \cup Buffered) \cap Queue = {}
    BY <1>1 DEF Disjoint
  <2> QED BY <1>10, <1>11, <1>12, <2>1, <2>2, <2>3 DEF Flight
<1>14. PlacesOK'
  BY <1>1, <1>2, <1>3, <1>7, <1>10, <1>11 DEF PlacesOK
<1>15. /\ turn' \in {"none", "starting"} /\ (turn' = "none" <=> pending' = <<>>)
       /\ pristine' \in BOOLEAN /\ suppressed' \in BOOLEAN /\ rewound' \in BOOLEAN
       /\ (~suppressed' => rewound')
  BY <1>3
<1>16. RestOK'
  <2>1. gone' \in [Ids -> {"", "goal", "bridge", "actor", "preempted", "cancelled", "rewound", "consumed"}]
    BY <1>1 DEF RestOK, Ledger, ByCancel
  <2>2. cancels' \in 0..MaxCancels
    <3>1. cancels \in 0..MaxCancels /\ MaxCancels \in Nat
      BY <1>1, NotifyAssumption DEF RestOK
    <3> QED BY <1>2, <3>1
  <2>3. told' \subseteq Ids /\ inTurn' \subseteq told' /\ delivered' \subseteq Tasks
    BY <1>1, <1>2, <1>3, <1>4 DEF RestOK
  <2> QED BY <1>1, <1>2, <1>4, <1>15, <2>1, <2>2, <2>3 DEF RestOK
<1>17. Separate'
  <2>1. NoRepeats'
    BY <1>1, <1>2, <1>3, <1>7, <1>10, <1>11 DEF NoRepeats
  <2>2. Drops'
    BY <1>1, <1>2, <1>12 DEF Drops
  <2>3. Disjoint(Sent, Mail, Noted, Buffered, Queue)'
    BY <1>1, <1>10, <1>11, <1>12 DEF Disjoint
  <2> QED BY <2>1, <2>2, <2>3 DEF Separate
<1>18. Kinds'
  <2>1. ASSUME NEW x \in ToSet(pending') PROVE GoodItem(x)'
    BY <1>1, <1>2, <1>3, <1>7 DEF Kinds, GoodItem
  <2> QED BY <1>1, <1>2, <1>4, <1>10, <2>1 DEF Kinds
<1>19. told' \subseteq told /\ \A k \in Tasks : k \in told => k \in told' \/ (k \in Flight /\ k \notin Flight')
  <2>1. inTurn \cap Tasks # {} => pending # <<>> /\ inTurn \cap Tasks \subseteq pending[1].ids
    BY <1>1 DEF Forward, RestOK
  <2> QED BY <2>1, <1>3, <1>13
<1>19a. \A k \in Tasks : ~pops /\ k \in Flight /\ k \notin Flight' => k \notin delivered'
  <2> SUFFICES ASSUME NEW k \in Tasks, ~pops, k \in Flight, k \notin Flight', k \in delivered' PROVE FALSE
    OBVIOUS
  <2>1. k \in delivered /\ autoWake
    BY <1>1, <1>4 DEF Kinds
  <2>2. k \notin Noted /\ k \notin Buffered
    <3>1. k \notin Events
      BY NotifyAssumption
    <3>2. \A x \in ToSet(notes) : x.id # k
      BY <1>1, <1>5, <2>1, <3>1, Members DEF Kinds, Notes
    <3> QED BY <1>1, <1>5, <3>1, <3>2, Members DEF Noted, IdsOf, Buffered
  <2>3. k \in Queue /\ k \notin Queue'
    BY <1>12, <2>2 DEF Flight
  <2>4. PICK y \in ToSet(pending) : k \in y.ids /\ y \notin ToSet(rest)
    BY <1>3, <2>3 DEF Queue, ItemIds
  <2>5. /\ y \in ToSet(SubSeq(pending, 1, cut))
        /\ y.kind \in {"user", "wake", "batch"} /\ GoodItem(y)
    BY <1>1, <1>5, <1>6b, <2>4, Members DEF Kinds, Items
  <2>6. y.kind = "wake"
    <3>1. k \notin Users /\ typed \subseteq Users
      BY <1>1, NotifyAssumption DEF RestOK
    <3> QED BY <2>1, <2>4, <2>5, <3>1 DEF GoodItem
  <2> QED BY <1>6a, <1>6c, <2>4, <2>5, <2>6
<1>20. Books'
  <2>1. TypeOK'
    BY <1>14, <1>16, TypeNext
  <2> DEFINE why == ByCancel(rewind)
  <2>w. why = (IF pops THEN "rewound" ELSE "cancelled")
    BY DEF ByCancel, pops
  <2> HIDE DEF why
  <2>2. \A j \in Ids : gone'[j] = IF j \in Flight /\ j \notin Flight' /\ j \notin told' THEN why ELSE gone[j]
    <3>1. Ledger(why)
      BY DEF why
    <3> QED BY <1>1, <2>1, <3>1, LedgerIs
  <2>3. \A k \in Tasks : /\ k \in Ids /\ (k \in told => task[k] = "done")
                         /\ k \in delivered => k \notin Sent
    BY <1>1 DEF Books, Account, RestOK, Ids
  <2>4. ASSUME NEW k \in Tasks
        PROVE  \/ gone'[k] = gone[k] /\ (k \in Flight => k \in Flight' \/ k \in told')
               \/ gone'[k] \notin {"", "bridge", "consumed"} /\ (k \in delivered' => gone'[k] = "rewound")
    BY <1>19a, <2>w, <2>2, <2>3
  <2> QED BY <1>1, <1>2, <1>4, <1>12, <1>13, <1>19, <2>3, <2>4, BooksKept
<1>21. Forward'
  <2>1. \A e \in Events \cap told' : e \notin Flight'
    <3>1. turn # "none" => pending # <<>>
      BY <1>1 DEF Forward
    <3> QED BY <1>1, <1>13, <1>19, <3>1 DEF Forward
  <2> QED BY <1>2, <1>15, <2>1 DEF Forward
<1>22. Surf'
  BY <1>1, <1>2 DEF Surf
<1>23. Quiescent'
  BY <1>15 DEF Quiescent, Idle
<1> QED BY <1>14, <1>16, <1>17, <1>18, <1>20, <1>21, <1>22, <1>23, Assemble

\* The running turn's slot and some of the items queued behind it.
LEMMA RejoinFacts ==
  ASSUME NEW q \in Seq(Items), Distinct(q), Shares(q), NEW n \in 0..Len(q),
         NEW r \in Seq(Items), Distinct(r), ToSet(r) \subseteq ToSet(SubSeq(q, n + 1, Len(q)))
  PROVE  /\ SubSeq(q, 1, n) \o r \in Seq(Items) /\ Distinct(SubSeq(q, 1, n) \o r)
         /\ Shares(SubSeq(q, 1, n) \o r)
         /\ ToSet(SubSeq(q, 1, n) \o r) = ToSet(SubSeq(q, 1, n)) \cup ToSet(r)
         /\ ToSet(SubSeq(q, 1, n) \o r) \subseteq ToSet(q)
         /\ ToSet(q) = ToSet(SubSeq(q, 1, n)) \cup ToSet(SubSeq(q, n + 1, Len(q)))
         /\ n > 0 => SubSeq(q, 1, n) \o r # <<>> /\ (SubSeq(q, 1, n) \o r)[1] = q[1]
<1> DEFINE a == SubSeq(q, 1, n)
           b == SubSeq(q, n + 1, Len(q))
           c == a \o r
<1>1. /\ a \in Seq(Items) /\ b \in Seq(Items) /\ Len(a) = n
      /\ \A k \in 1..n : a[k] = q[k]
      /\ ToSet(q) = ToSet(a) \cup ToSet(b)
      /\ Distinct(a) /\ ToSet(a) \cap ToSet(b) = {}
  BY SplitFacts
<1>2. ToSet(r) \subseteq ToSet(b)
  OBVIOUS
<1> HIDE DEF a, b
<1>3. ToSet(c) = ToSet(a) \cup ToSet(r) /\ Distinct(c)
  BY <1>1, <1>2, ConcatFacts
<1>4. c \in Seq(Items) /\ (n > 0 => c # <<>> /\ c[1] = q[1])
  <2>0. a \in Seq(Items) /\ Len(a) = n /\ n \in Nat
    BY <1>1
  <2>1. c \in Seq(Items) /\ Len(c) = n + Len(r)
    BY <2>0
  <2>2. n > 0 => c[1] = a[1]
    BY <2>0
  <2>3. n > 0 => a[1] = q[1]
    BY <1>1, <2>0
  <2> HIDE DEF c
  <2> QED BY <2>0, <2>1, <2>2, <2>3
<1>5. ToSet(c) \subseteq ToSet(q)
  BY <1>1, <1>2, <1>3
<1>6. Shares(c)
  BY <1>5 DEF Shares
<1> QED BY <1>1, <1>3, <1>4, <1>5, <1>6 DEF a, b, c

\* The running turn's slot is a cut of the queue.
LEMMA SlotFacts ==
  ASSUME IInv
  PROVE  /\ Slot \in 0..Len(pending) /\ (turn # "none" => Slot > 0)
         /\ Queued \in Seq(Items) /\ Distinct(Queued)
         /\ pending \in Seq(Items) /\ Distinct(pending) /\ Shares(pending)
<1>1. PlacesOK /\ NoRepeats /\ Forward
  BY Parts
<1>2. pending \in Seq(Items) /\ Distinct(pending) /\ Shares(pending)
  BY <1>1 DEF PlacesOK, NoRepeats
<1>3. Slot \in 0..Len(pending) /\ (turn # "none" => Slot > 0)
  BY <1>1, <1>2 DEF Slot, Forward
<1>4. Queued \in Seq(Items) /\ Distinct(Queued)
  BY <1>2, <1>3, SplitFacts DEF Queued
<1> QED BY <1>2, <1>3, <1>4

LEMMA ToolResultKeeps ==
  ASSUME IInv, ToolResult, Ledger("consumed"), UNCHANGED rewound
  PROVE  IInv'
<1> DEFINE new == Done \ (reported \cup call.suppress)
           shown == IF goal = "active" THEN {} ELSE new
           K == {i \in ToSet(Queued) : ~(i.kind = "wake" /\ i.ids \subseteq call.consumed)}
           N == {n \in Notes : TaskOf(n) \notin call.consumed}
           r == Kept(Queued, K)
<1>1. /\ TypeOK /\ PlacesOK /\ RestOK /\ Separate /\ Kinds /\ Books /\ Forward /\ Surf /\ Quiescent
      /\ NoRepeats /\ Drops /\ Disjoint(Sent, Mail, Noted, Buffered, Queue)
  BY Parts
<1>2. /\ UNCHANGED <<autoWake, task, quiet, toBridge, mailbox, turn, pristine, active, ghost, delivered, buffer,
                     suppressed, goal, typed, cancels, inTurn, rewound>>
      /\ turn = "running" /\ call # NoCall /\ call' = NoCall
      /\ reported' = reported \cup call.suppress \cup new
      /\ Surface(shown) /\ told' = told \cup shown \cup call.consumed
      /\ pending' = RunningSlot \o r /\ notes' = Kept(notes, N)
  BY DEF ToolResult, taskVars, Unconsumed
<1>3. /\ call.suppress \subseteq Tasks /\ call.consumed \subseteq Done /\ Done \subseteq Tasks
      /\ Tasks \cap Events = {} /\ Ids = Tasks \cup Events /\ Users \cap Ids = {}
  <2>1. call \in [suppress : SUBSET Tasks, consumed : SUBSET Tasks]
    BY <1>1, <1>2 DEF RestOK
  <2> QED BY <2>1, <1>1, <1>2, Sorts DEF Forward, Done
<1>4. shown \subseteq Done /\ shown \cap reported = {} /\ shown \subseteq reported' /\ reported \subseteq reported'
      /\ reported' \subseteq Tasks
  BY <1>1, <1>2, <1>3 DEF RestOK
<1>5. \A x \in Notes : x.id \in Tasks /\ x \notin N => x.id \in call.consumed
  BY <1>3 DEF Notes, TaskOf
<1>6. \A x \in ToSet(Queued) \ K : x.ids \subseteq call.consumed
  OBVIOUS
<1> HIDE DEF new, shown, K, N
<1>7. notes \in Seq(Notes) /\ Distinct(notes)
  BY <1>1 DEF PlacesOK, NoRepeats
<1>8. notes' \in Seq(Notes) /\ Distinct(notes') /\ ToSet(notes') = ToSet(notes) \cap N
  BY <1>2, <1>7, KeptFacts, KeptDistinct
<1>9. r \in Seq(Items) /\ Distinct(r) /\ ToSet(r) = ToSet(Queued) \cap K
  BY SlotFacts, KeptFacts, KeptDistinct
<1> HIDE DEF r
<1>10. /\ pending' \in Seq(Items) /\ Distinct(pending') /\ Shares(pending')
       /\ ToSet(pending') \subseteq ToSet(pending)
       /\ \A x \in ToSet(pending) \ ToSet(pending') : x.ids \subseteq call.consumed
       /\ pending' # <<>> /\ pending'[1] = pending[1]
  <2>1. ToSet(r) \subseteq ToSet(SubSeq(pending, Slot + 1, Len(pending)))
    BY <1>9 DEF Queued
  <2>2. /\ pending' \in Seq(Items) /\ Distinct(pending') /\ Shares(pending')
        /\ ToSet(pending') \subseteq ToSet(pending)
        /\ ToSet(pending') = ToSet(RunningSlot) \cup ToSet(r)
        /\ ToSet(pending) = ToSet(RunningSlot) \cup ToSet(Queued)
        /\ Slot > 0 => pending' # <<>> /\ pending'[1] = pending[1]
    BY <1>2, <1>9, <2>1, SlotFacts, RejoinFacts DEF RunningSlot, Queued
  <2>3. Slot > 0
    BY <1>2, SlotFacts
  <2> QED BY <1>6, <1>9, <2>2, <2>3
<1>11. /\ Noted' \subseteq Noted /\ \A k \in Tasks : k \in Noted => k \in Noted' \/ k \in call.consumed
  <2>1. ToSet(notes) \subseteq Notes
    BY <1>1, Members
  <2> QED BY <1>5, <1>8, <2>1 DEF Noted, IdsOf
<1>12. /\ Queue' \subseteq Queue /\ \A k \in Tasks : k \in Queue => k \in Queue' \/ k \in call.consumed
  BY <1>10 DEF Queue, ItemIds
<1>13. Sent' = Sent /\ Mail' = Mail /\ Buffered' = Buffered
  BY <1>2 DEF Sent, Mail, Buffered
<1>14. Flight' \subseteq Flight /\ \A k \in Tasks : k \in Flight => k \in Flight' \/ k \in told'
  BY <1>2, <1>11, <1>12, <1>13 DEF Flight
<1>15. Surf' /\ surfaced' \in [Tasks -> 0..2]
  BY <1>1, <1>2, <1>4, SurfaceFacts
<1>16. PlacesOK'
  BY <1>1, <1>2, <1>8, <1>10 DEF PlacesOK
<1>17. RestOK'
  <2>1. gone' \in [Ids -> {"", "goal", "bridge", "actor", "preempted", "cancelled", "rewound", "consumed"}]
    BY <1>1 DEF RestOK, Ledger
  <2>2. told' \subseteq Ids /\ inTurn' \subseteq told'
    BY <1>1, <1>2, <1>3, <1>4 DEF RestOK
  <2> QED BY <1>1, <1>2, <1>4, <1>10, <1>15, <2>1, <2>2 DEF RestOK
<1>18. Separate'
  <2>1. NoRepeats'
    BY <1>1, <1>2, <1>8, <1>10 DEF NoRepeats
  <2>2. Drops'
    BY <1>1, <1>2, <1>13 DEF Drops
  <2>3. Disjoint(Sent, Mail, Noted, Buffered, Queue)'
    BY <1>1, <1>11, <1>12, <1>13 DEF Disjoint
  <2> QED BY <2>1, <2>2, <2>3 DEF Separate
<1>19. Kinds'
  <2>1. ASSUME NEW x \in ToSet(pending') PROVE GoodItem(x)'
    BY <1>1, <1>2, <1>10 DEF Kinds, GoodItem
  <2> QED BY <1>1, <1>2, <1>8, <2>1 DEF Kinds
<1>20. Books'
  <2>1. TypeOK'
    BY <1>16, <1>17, TypeNext
  <2>2. \A j \in Ids : gone'[j] = IF j \in Flight /\ j \notin Flight' /\ j \notin told' THEN "consumed" ELSE gone[j]
    BY <1>1, <2>1, LedgerIs
  <2>3. \A k \in Tasks : /\ k \in Ids /\ (k \in told' => task[k] = "done") /\ (k \in told => k \in told')
                         /\ k \in delivered => k \notin Sent
    BY <1>1, <1>2, <1>3, <1>4 DEF Books, Account, RestOK, Done
  <2>4. \A k \in Tasks : gone'[k] = gone[k] /\ (k \in Flight => k \in Flight' \/ k \in told')
    BY <1>14, <2>2, <2>3
  <2> QED BY <1>1, <1>2, <1>13, <1>14, <2>3, <2>4, BooksKept
<1>21. Forward'
  <2>1. Events \cap told' \subseteq told /\ told \subseteq told'
    BY <1>2, <1>3, <1>4
  <2> QED BY <1>1, <1>2, <1>10, <1>14, <2>1 DEF Forward
<1>22. Quiescent'
  BY <1>2 DEF Quiescent, Idle
<1> QED BY <1>15, <1>16, <1>17, <1>18, <1>19, <1>20, <1>21, <1>22, Assemble

\* An item behind two parts of a queue.
LEMMA AppendConcat ==
  ASSUME NEW a \in Seq(Items), NEW b \in Seq(Items), NEW x \in Items
  PROVE  a \o Append(b, x) = Append(a \o b, x)
<1>1. Append(b, x) = b \o <<x>> /\ Append(a \o b, x) = (a \o b) \o <<x>> /\ <<x>> \in Seq(Items)
  OBVIOUS
<1> QED BY <1>1, ConcatAssociative

LEMMA UserPromptKeeps ==
  ASSUME IInv, NEW u \in Users, UserPrompt(u), Ledger("preempted"), UNCHANGED rewound
  PROVE  IInv'
<1> DEFINE wakes == WakesIn(Queued)
           armed == wakes # {}
           kept == IF armed THEN Kept(Queued, {i \in ToSet(Queued) : i.kind = "user"}) ELSE Queued
           x == Item("user", {u})
           r == RunningSlot \o kept
<1>1. /\ TypeOK /\ PlacesOK /\ RestOK /\ Separate /\ Kinds /\ Books /\ Forward /\ Surf /\ Quiescent
      /\ NoRepeats /\ Drops /\ Disjoint(Sent, Mail, Noted, Buffered, Queue)
  BY Parts
<1>2. /\ UNCHANGED <<autoWake, task, quiet, toBridge, mailbox, active, ghost, call, reported, notes, buffer,
                     goal, cancels, told, inTurn, surfaced, rewound>>
      /\ u \notin typed /\ typed' = typed \cup {u} /\ suppressed' = FALSE
      /\ delivered' = delivered \ wakes
      /\ Start(RunningSlot \o Append(kept, x), turn)
  BY DEF UserPrompt, Unmarked, taskVars, historyVars
<1>3. Ids = Tasks \cup Events /\ Users \cap Ids = {} /\ Queue \subseteq Ids \cup Users
      /\ Sent \subseteq Ids /\ Mail \subseteq Ids /\ Noted \subseteq Ids /\ Buffered \subseteq Ids
  BY <1>1, Sorts
<1>4. x \in Items /\ x.ids = {u} /\ x.kind = "user"
  BY DEF Items, Item
<1>5. u \notin Queue
  <2>1. \A y \in ToSet(pending) : y.kind \in {"user", "wake", "batch"} /\ GoodItem(y)
    BY <1>1, Members DEF Kinds, Items
  <2>2. \A y \in ToSet(pending) : u \notin y.ids
    BY <2>1, <1>2, <1>3 DEF GoodItem
  <2> QED BY <2>2 DEF Queue, ItemIds
<1>6. Queued \in Seq(Items) /\ Distinct(Queued) /\ Slot \in 0..Len(pending) /\ (turn # "none" => Slot > 0)
      /\ pending \in Seq(Items) /\ Distinct(pending) /\ Shares(pending)
  BY SlotFacts
<1>7. \A k, y : y \in ToSet(Queued) /\ y.kind = "wake" /\ k \in y.ids => k \in wakes
  <2> SUFFICES ASSUME NEW k, NEW y \in ToSet(Queued), y.kind = "wake", k \in y.ids PROVE k \in wakes
    OBVIOUS
  <2>1. PICK j \in 1..Len(Queued) : y = Queued[j]
    BY <1>6, Elements
  <2> QED BY <2>1 DEF WakesIn
<1>8. /\ kept \in Seq(Items) /\ Distinct(kept) /\ ToSet(kept) \subseteq ToSet(Queued)
      /\ \A y \in ToSet(Queued) \ ToSet(kept) : y.kind # "user"
  <2>1. CASE ~armed
    BY <2>1, <1>6
  <2>2. CASE armed
    <3> DEFINE U == {i \in ToSet(Queued) : i.kind = "user"}
    <3>1. kept = Kept(Queued, U)
      BY <2>2
    <3>2. \A y \in ToSet(Queued) : y \in U <=> y.kind = "user"
      OBVIOUS
    <3> HIDE DEF U
    <3>3. Kept(Queued, U) \in Seq(Items) /\ Distinct(Kept(Queued, U)) /\ ToSet(Kept(Queued, U)) = ToSet(Queued) \cap U
      BY <1>6, KeptFacts, KeptDistinct
    <3> QED BY <3>1, <3>2, <3>3
  <2> QED BY <2>1, <2>2
<1> HIDE DEF wakes, armed, kept, x
<1>9. /\ r \in Seq(Items) /\ Distinct(r) /\ Shares(r)
      /\ ToSet(r) \subseteq ToSet(pending)
      /\ \A y \in ToSet(pending) \ ToSet(r) : y \in ToSet(Queued) /\ y.kind # "user"
      /\ turn # "none" => r # <<>> /\ r[1] = pending[1]
  <2>1. ToSet(kept) \subseteq ToSet(SubSeq(pending, Slot + 1, Len(pending)))
    BY <1>8 DEF Queued
  <2>2. /\ r \in Seq(Items) /\ Distinct(r) /\ Shares(r)
        /\ ToSet(r) \subseteq ToSet(pending)
        /\ ToSet(r) = ToSet(RunningSlot) \cup ToSet(kept)
        /\ ToSet(pending) = ToSet(RunningSlot) \cup ToSet(Queued)
        /\ Slot > 0 => r # <<>> /\ r[1] = pending[1]
    BY <1>6, <1>8, <2>1, RejoinFacts DEF RunningSlot, Queued
  <2> HIDE DEF r
  <2> QED BY <1>6, <1>8, <2>2
<1>10. /\ pending' = Append(r, x)
       /\ turn' = (IF turn = "none" /\ pending' # <<>> THEN "starting" ELSE turn)
       /\ pristine' = (IF turn = "none" /\ pending' # <<>> THEN TRUE ELSE pristine)
  <2>1. RunningSlot \in Seq(Items)
    BY <1>6, SplitFacts DEF RunningSlot
  <2>2. RunningSlot \o Append(kept, x) = Append(r, x)
    BY <1>4, <1>8, <2>1, AppendConcat
  <2> QED BY <1>2, <2>2 DEF Start
<1> HIDE DEF r
<1>11. ItemIds(ToSet(r)) \subseteq Queue
  BY <1>9 DEF Queue, ItemIds
<1>12. /\ pending' \in Seq(Items) /\ Distinct(pending') /\ Shares(pending')
       /\ ToSet(pending') = ToSet(r) \cup {x} /\ pending' # <<>>
       /\ Queue' = ItemIds(ToSet(r)) \cup {u}
       /\ turn # "none" => pending'[1] = pending[1]
  <2>1. x.ids # {} /\ x.ids \cap ItemIds(ToSet(r)) = {}
    BY <1>4, <1>5, <1>11
  <2>2. /\ pending' \in Seq(Items) /\ Distinct(pending') /\ Shares(pending')
        /\ ToSet(pending') = ToSet(r) \cup {x} /\ pending' # <<>>
        /\ ItemIds(ToSet(pending')) = ItemIds(ToSet(r)) \cup x.ids
        /\ r # <<>> => pending'[1] = r[1]
    BY <1>4, <1>9, <1>10, <2>1, EnqueueFacts
  <2> QED BY <1>4, <1>9, <2>2 DEF Queue
<1>13. Sent' = Sent /\ Mail' = Mail /\ Noted' = Noted /\ Buffered' = Buffered
  BY <1>2 DEF Sent, Mail, Noted, Buffered
<1>14. Flight' \subseteq Flight \cup {u}
  BY <1>11, <1>12, <1>13 DEF Flight
<1>15. \A k \in Tasks : k \in Flight /\ k \notin Flight' => k \notin delivered'
  <2> SUFFICES ASSUME NEW k \in Tasks, k \in Flight, k \notin Flight' PROVE k \notin delivered'
    OBVIOUS
  <2>1. k \in Queue /\ k \notin ItemIds(ToSet(r))
    BY <1>12, <1>13 DEF Flight
  <2>2. PICK y \in ToSet(pending) \ ToSet(r) : k \in y.ids
    BY <2>1 DEF Queue, ItemIds
  <2>3. y \in ToSet(Queued) /\ y.kind \in {"wake", "batch"} /\ GoodItem(y)
    BY <1>1, <1>9, Members DEF Kinds, Items
  <2>4. CASE y.kind = "wake"
    BY <1>2, <1>7, <2>2, <2>3, <2>4
  <2>5. CASE y.kind = "batch"
    BY <1>1, <1>2, <2>2, <2>3, <2>5 DEF GoodItem, Kinds
  <2> QED BY <2>3, <2>4, <2>5
<1>16. PlacesOK'
  BY <1>1, <1>2, <1>12 DEF PlacesOK
<1>17. /\ turn' # "none" /\ turn' \in {"none", "starting", "running", "over"} /\ pristine' \in BOOLEAN
       /\ (turn # "none" => turn' = turn) /\ (turn = "none" => turn' = "starting")
  <2>1. turn \in {"none", "starting", "running", "over"} /\ pristine \in BOOLEAN
    BY <1>1 DEF RestOK
  <2> QED BY <1>10, <1>12, <2>1
<1>18. RestOK'
  <2>1. gone' \in [Ids -> {"", "goal", "bridge", "actor", "preempted", "cancelled", "rewound", "consumed"}]
    BY <1>1 DEF RestOK, Ledger
  <2> QED BY <1>1, <1>2, <1>12, <1>17, <2>1 DEF RestOK
<1>19. Separate'
  <2>1. NoRepeats'
    BY <1>1, <1>2, <1>12 DEF NoRepeats
  <2>2. Drops'
    BY <1>1, <1>2, <1>13 DEF Drops
  <2>3. Disjoint(Sent, Mail, Noted, Buffered, Queue)'
    BY <1>1, <1>3, <1>11, <1>12, <1>13 DEF Disjoint
  <2> QED BY <2>1, <2>2, <2>3 DEF Separate
<1>20. Kinds'
  <2>1. ASSUME NEW y \in ToSet(pending') PROVE GoodItem(y)'
    <3>1. CASE y = x
      BY <3>1, <1>2, <1>4 DEF GoodItem
    <3>2. CASE y \in ToSet(pending)
      BY <3>2, <1>1, <1>2 DEF Kinds, GoodItem
    <3> QED BY <3>1, <3>2, <1>9, <1>12
  <2> QED BY <1>1, <1>2, <2>1 DEF Kinds
<1>21. Books'
  <2>1. TypeOK'
    BY <1>16, <1>18, TypeNext
  <2>2. \A j \in Ids : gone'[j] = IF j \in Flight /\ j \notin Flight' /\ j \notin told' THEN "preempted" ELSE gone[j]
    BY <1>1, <2>1, LedgerIs
  <2>3. \A k \in Tasks : /\ k \in Ids /\ k # u /\ (k \in told => task[k] = "done")
                         /\ k \in delivered => k \notin Sent
    BY ZenonT(60), <1>1, <1>3 DEF Books, Account, RestOK
  <2>4. ASSUME NEW k \in Tasks
        PROVE  \/ gone'[k] = gone[k] /\ (k \in Flight => k \in Flight' \/ k \in told')
               \/ gone'[k] \notin {"", "bridge", "consumed"} /\ (k \in delivered' => gone'[k] = "rewound")
    BY <1>15, <2>2, <2>3
  <2>5. \A k \in Tasks : k \in Flight' => k \in Flight
    BY <1>14, <2>3
  <2> QED BY <1>1, <1>2, <1>13, <2>3, <2>4, <2>5, BooksKept
<1>22. Forward'
  <2>1. Done' = Done
    BY <1>2 DEF Done
  <2>2. \A e \in Events : e \in Flight' => e \in Flight
    BY <1>3, <1>14
  <2> QED BY <1>1, <1>2, <1>12, <1>17, <2>1, <2>2 DEF Forward
<1>23. Surf'
  BY <1>1, <1>2 DEF Surf
<1>24. Quiescent'
  BY <1>17 DEF Quiescent, Idle
<1> QED BY <1>16, <1>18, <1>19, <1>20, <1>21, <1>22, <1>23, <1>24, Assemble

-----------------------------------------------------------------------------
(* The theorems.                                                           *)

\* Every step keeps the invariant.
LEMMA Steps == IInv /\ [Next]_vars => IInv'
<1> SUFFICES ASSUME IInv, [Next]_vars PROVE IInv'
  OBVIOUS
<1>1. CASE UNCHANGED vars
  BY <1>1, StutterKeeps
<1>2. CASE Bridge /\ Ledger(ByGoalOr("bridge")) /\ UNCHANGED rewound
  BY <1>2, BridgeKeeps
<1>3. ASSUME NEW u \in Users, UserPrompt(u), Ledger("preempted"), UNCHANGED rewound PROVE IInv'
  BY <1>3, UserPromptKeeps
<1>4. CASE ToolResult /\ Ledger("consumed") /\ UNCHANGED rewound
  BY <1>4, ToolResultKeeps
<1>5. CASE Handle /\ Ledger(ByGoalOr("actor"))
  BY <1>5, HandleKeeps
<1>6. ASSUME NEW kill \in BOOLEAN, NEW rewind \in BOOLEAN, Cancel(kill, rewind), Ledger(ByCancel(rewind)) PROVE IInv'
  BY <1>6, CancelKeeps
<1>7. CASE HandleCompletion /\ Ledger(ByGoalOr("actor"))
  BY <1>7, HandleCompletionKeeps
<1>8. ASSUME NEW e \in Events, MonitorPrints(e), UNCHANGED <<gone, rewound>> PROVE IInv'
  BY <1>8, MonitorPrintsKeeps
<1>9. ASSUME NEW k \in Tasks, NEW q \in BOOLEAN, Complete(k, q), UNCHANGED <<gone, rewound>> PROVE IInv'
  BY <1>9, CompleteKeeps
<1>10. ASSUME NEW consumed \in SUBSET Tasks, ToolCall(consumed), UNCHANGED <<gone, rewound>> PROVE IInv'
  BY <1>10, ToolCallKeeps
<1>11. CASE TurnBegins /\ UNCHANGED <<gone, rewound>>
  BY <1>11, TurnBeginsKeeps
<1>12. CASE TurnInjects /\ UNCHANGED <<gone, rewound>>
  BY <1>12, TurnInjectsKeeps
<1>13. CASE TurnEnds /\ UNCHANGED <<gone, rewound>>
  BY <1>13, TurnEndsKeeps
<1>14. CASE GhostDrops /\ UNCHANGED <<gone, rewound>>
  BY <1>14, GhostDropsKeeps
<1>15. CASE GoalChanges /\ UNCHANGED <<gone, rewound>>
  BY <1>15, GoalChangesKeeps
<1> QED BY <1>1, <1>2, <1>3, <1>4, <1>5, <1>6, <1>7, <1>8, <1>9, <1>10, <1>11, <1>12, <1>13, <1>14, <1>15
        DEF Next

\* The invariant holds in every reachable state.
LEMMA Invariant == Spec => []IInv
<1>1. Init => IInv
  BY Starts
<1>2. IInv /\ [Next]_vars => IInv'
  BY Steps
<1> QED BY <1>1, <1>2, PTL DEF Spec

\* SessionNotify keeps its types, the buffer within its cap and a running turn in
\* front of the queue, for every number of tasks, events and prompts.
THEOREM TypeCorrect == Spec => []TypeOK
<1>1. IInv => TypeOK
  BY Implied
<1> QED BY <1>1, Invariant, PTL

\* A reminder speaks of a completion at most once, whether the start of a turn or
\* a tool call finds it first (ReportedTaskCompletions).
THEOREM ReminderOnce == Spec => []SurfacedOnce
<1>1. IInv => SurfacedOnce
  BY Implied
<1> QED BY <1>1, Invariant, PTL

\* A completion that no path is left to tell was dropped by the goal loop, a
\* preemption, a cancel or the cap, and by nothing else (drop_pending_items, the
\* bridge, the drain).
THEOREM LossCaused == Spec => []LossHasCause
<1>1. IInv => LossHasCause
  BY Implied
<1> QED BY <1>1, Invariant, PTL

\* An id in AutoWakeDeliveredIds is on its way, told, or its wake turn was
\* cancelled: the set never silences a completion whose wake was lost otherwise
\* (queue_input, cancel_running_task).
THEOREM DeliveredComes == Spec => []DeliveredHasWake
<1>1. IInv => DeliveredHasWake
  BY Implied
<1> QED BY <1>1, Invariant, PTL

\* A completion or an event is in one place at a time, and an event the
\* conversation has is in none but the running turn's item
\* (sweep_monitor_buffer_into_pending, maybe_drain_notifications).
THEOREM ToldOnOnePath == Spec => []OnePath
<1>1. IInv => OnePath
  BY Implied
<1> QED BY <1>1, Invariant, PTL

\* An idle session holds no notification back unless it is suppressed or a rewind
\* has left it so, although is_turn_active lags the turn (maybe_drain_notifications).
THEOREM IdleDrains == Spec => []IdleIsDrained
<1>1. IInv => IdleIsDrained
  BY Implied
<1> QED BY <1>1, Invariant, PTL

=============================================================================
