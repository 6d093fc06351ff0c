-------------------------- MODULE PromptQueueLoops --------------------------
(***************************************************************************)
(* The operators of PromptQueue against what the loops of the handlers     *)
(* compute, on every queue of at most MaxLen distinct ids.                 *)
(***************************************************************************)
LOCAL INSTANCE Integers
LOCAL INSTANCE SequencesExt
Q == INSTANCE PromptQueue

Items == 1..5
Reorderable == 1..3    \* the ids with queue metadata
Nobody == 0
MaxLen == 4

Queues ==
    {s \in UNION {[1..n -> Items] : n \in 0..MaxLen} : \A i, j \in DOMAIN s : s[i] = s[j] => i = j}

\* queue_input's while loop, from position "at".
SlotFrom[s \in Queues, sendNow \in SUBSET Items, at \in 0..MaxLen] ==
    IF at < Len(s) /\ s[at + 1] \in sendNow THEN SlotFrom[s, sendNow, at + 1] ELSE at

\* handle_reorder_queue's sort key: the position in the request, unnamed last.
SortKey(order, id) ==
    LET at == {k \in DOMAIN order : order[k] = id}
    IN  IF at = {} THEN MaxLen + 1 ELSE CHOOSE k \in at : \A j \in at : k <= j

Sorted(s, running, order) ==
    LET free == {i \in DOMAIN s : s[i] \in Reorderable /\ s[i] # running}
        key(i) == SortKey(order, s[i])
        sorted == SetToSortSeq(free, LAMBDA i, j : key(i) < key(j) \/ (key(i) = key(j) /\ i < j))
        pinned == SetToSortSeq(DOMAIN s \ free, LAMBDA i, j : i < j)
    IN  [k \in DOMAIN s |-> s[(pinned \o sorted)[k]]]

Orders ==
    {<<>>} \cup {<<i>> : i \in Reorderable}
           \cup {o \in Reorderable \X Reorderable : o[1] # o[2]}

\* Kept returns what the loop of sweep_pending_inputs builds, which moves the kept
\* items over one by one.
ASSUME KeptIsFilter ==
    \A s \in Queues, keep \in SUBSET Items :
        Q!Kept(s, keep) = SelectSeq(s, LAMBDA id : id \in keep)

\* SendNowSlot is where queue_input's loop stops: past the running front and every
\* send-now item that follows it, before the first that is not.
ASSUME SlotIsLoop ==
    \A s \in Queues, sendNow \in SUBSET Items, running \in Items \cup {Nobody} :
        Q!SendNowSlot(s, running, sendNow)
            = SlotFrom[s, sendNow, IF s # <<>> /\ s[1] = running THEN 1 ELSE 0]

\* Reordered is handle_reorder_queue's stable sort of the reorderable items by
\* their position in the request, behind the ones that stay put.
ASSUME ReorderIsStableSort ==
    \A s \in Queues, running \in Items \cup {Nobody}, order \in Orders :
        Q!Reordered(s, running, Reorderable, order) = Sorted(s, running, order)
=============================================================================
