--------------------------- MODULE SessionProofs ---------------------------
(***************************************************************************)
(* What holds of the turn scheduler for any number of prompts of each      *)
(* kind, interjections and clients: its types, which prompt runs, where an *)
(* item is, how often it is run and how often its turn publishes an end.   *)
(***************************************************************************)
EXTENDS Session, PromptQueueProofs

USE KindsDisjoint, NoneAssumption

\* Every prompt kind is a set of ids, and None is none of them.
LEMMA IdFacts ==
  /\ UserPrompts \subseteq Ids /\ CronPrompts \subseteq Ids /\ WakePrompts \subseteq Ids
  /\ PlanPrompts \subseteq Ids /\ GoalPrompts \subseteq Ids /\ DrainPrompts \subseteq Ids
  /\ Interjections \subseteq Ids /\ Synthetic \subseteq Ids
BY DEF Ids, Synthetic

\* The tags that the actions store belong to their types.
LEMMA Tags ==
  /\ {"loop", "start", "cancel", "cancelLock", "cancelGate", "cancelAbort", "cancelEnd",
       "completionGate", "completionLock", "turnEnd", "strand", "flush", "startAfterTurn",
       "drain", "stopped"} \subseteq ActorPoints
  /\ {None, "done", "cancelled", "removed", "rewound", "dropped", "merged", "cleared"}
       \subseteq Replies
  /\ {"none", "live", "ending", "done", "aborted", "gone"} \subseteq TaskStates
  /\ {"user", "kill", "rewind", "send_now"} \subseteq CancelModes
BY DEF ActorPoints, Replies, Answers, TaskStates, CancelModes

\* The items of a queue are ids; an interjection queue is also a queue of ids.
LEMMA QueueElements ==
  ASSUME NEW S, NEW q \in Seq(S)
  PROVE  /\ ToSet(q) \subseteq S
         /\ q # <<>> => Head(q) \in S /\ Tail(q) \in Seq(S)
         /\ \A e \in S : Append(q, e) \in Seq(S)
BY DEF ToSet

\* Resolving a set of items' respond_to keeps reply a function into Replies.
LEMMA AnswerType ==
  ASSUME NEW S, NEW r \in Replies, reply \in [Ids -> Replies], Answer(S, r)
  PROVE  reply' \in [Ids -> Replies]
BY DEF Answer

\* Promoting the front changes only the turn's state, and keeps its types.
LEMMA StartFrontType ==
  ASSUME TypeOK, StartFront
  PROVE  /\ running' \in Ids \cup {None} /\ pin' \in Ids \cup {None} /\ rewindable' \in BOOLEAN
         /\ task' \in [Ids -> TaskStates] /\ started' \in [Ids -> Nat]
<1>1. CASE running = None /\ pending # <<>>
  <2>1. Head(pending) \in Ids
    BY <1>1, QueueElements DEF TypeOK, QueueType
  <2>2. "live" \in TaskStates
    BY Tags
  <2>3. /\ running' = Head(pending) /\ pin' = Head(pending) /\ rewindable' = TRUE
        /\ task' = [task EXCEPT ![Head(pending)] = "live"]
        /\ started' = [started EXCEPT ![Head(pending)] = @ + 1]
    BY <1>1 DEF StartFront
  <2>4. task' \in [Ids -> TaskStates] /\ started' \in [Ids -> Nat]
    BY <2>1, <2>2, <2>3 DEF TypeOK, TurnType
  <2> QED BY <2>1, <2>3, <2>4
<1>2. CASE ~(running = None /\ pending # <<>>)
  BY <1>2, Zenon DEF TypeOK, QueueType, TurnType, StartFront
<1> QED BY <1>1, <1>2

\* queue_input keeps the queue's type, wherever the item lands.
LEMMA QueueInputType ==
  ASSUME TypeOK, NEW id \in Ids, NEW requested \in BOOLEAN, QueueInput(id, requested)
  PROVE  /\ unsent' \in SUBSET Ids /\ pending' \in Seq(Ids) /\ sendNow' \in SUBSET Ids
         /\ reply' \in [Ids -> Replies]
<1> DEFINE kept == QueueAfterPreempt(id)
<1>1. kept \in Seq(Ids)
  BY SweepFacts DEF TypeOK, QueueType, QueueAfterPreempt
<1>2. "dropped" \in Replies
  BY Tags
<1>3. reply' \in [Ids -> Replies]
  BY <1>2, AnswerType DEF TypeOK, GhostType, QueueInput
<1> HIDE DEF kept
<1>4. InsertSendNow(kept, running, sendNow, id) \in Seq(Ids)
  BY <1>1, InsertFacts
<1>5. Append(kept, id) \in Seq(Ids)
  BY <1>1, QueueElements
<1> QED BY <1>3, <1>4, <1>5 DEF TypeOK, QueueType, EnvType, QueueInput, kept

\* A part of the state that a step leaves alone keeps its types.
LEMMA TypeFrames ==
  /\ QueueType /\ UNCHANGED queueVars => QueueType'
  /\ TurnType /\ UNCHANGED turnVars => TurnType'
  /\ GateType /\ UNCHANGED gateVars => GateType'
  /\ EnvType /\ UNCHANGED envVars => EnvType'
  /\ ActorType /\ UNCHANGED actorVars => ActorType'
  /\ GhostType /\ UNCHANGED ghostVars => GhostType'
<1>1. QueueType /\ UNCHANGED queueVars => QueueType'
  BY Zenon DEF QueueType, queueVars
<1>2. TurnType /\ UNCHANGED turnVars => TurnType'
  BY Zenon DEF TurnType, turnVars
<1>3. GateType /\ UNCHANGED gateVars => GateType'
  BY Zenon DEF GateType, gateVars
<1>4. EnvType /\ UNCHANGED envVars => EnvType'
  BY Zenon DEF EnvType, envVars
<1>5. ActorType /\ UNCHANGED actorVars => ActorType'
  BY Zenon DEF ActorType, actorVars
<1>6. GhostType /\ UNCHANGED ghostVars => GhostType'
  BY Zenon DEF GhostType, ghostVars
<1> QED BY <1>1, <1>2, <1>3, <1>4, <1>5, <1>6

\* An order a client asks for is a queue of ids.
LEMMA OrderType == \A order \in Orders : order \in Seq(Ids)
<1> SUFFICES ASSUME NEW order \in Orders PROVE order \in Seq(Ids)
  OBVIOUS
<1>1. PICK n \in 0..Cardinality(UserPrompts) : order \in [1..n -> UserPrompts]
  BY Zenon DEF Orders
<1>2. order \in [1..n -> Ids] /\ n \in Nat
  BY <1>1, IdFacts
<1> QED BY <1>2

\* abort() moves a task to "aborted" or leaves it alone.
LEMMA AbortType ==
  ASSUME NEW id, task \in [Ids -> TaskStates], Abort(id)
  PROVE  task' \in [Ids -> TaskStates]
BY Tags DEF Abort

\* The guard of a pin clears it or leaves it alone.
LEMMA UnpinType ==
  ASSUME NEW id, pin \in Ids \cup {None}, Unpin(id)
  PROVE  pin' \in Ids \cup {None}
BY DEF Unpin

\* The first step of every cancel keeps the types.
LEMMA BeginCancelType ==
  ASSUME TypeOK, NEW mode \in CancelModes, BeginCancel(mode)
  PROVE  TypeOK'
<1>1. reply' \in [Ids -> Replies]
  BY AnswerType, Tags DEF TypeOK, GhostType, BeginCancel
<1>2. cancel' \in CancelRecords
  <2>1. cancel' = [mode |-> mode, pinned |-> pin, victim |-> None, abortee |-> None,
                   items |-> <<>>, rewound |-> FALSE]
    BY DEF BeginCancel, NoCancel
  <2> QED BY <2>1 DEF TypeOK, TurnType, CancelRecords
<1>3. pc' \in ActorPoints /\ buffer' \in Seq(Interjections)
  BY Tags DEF BeginCancel
<1> QED BY <1>1, <1>2, <1>3, TypeFrames, Zenon DEF TypeOK, ActorType, GhostType, BeginCancel

-----------------------------------------------------------------------------
\* A command handler keeps the types.
LEMMA CommandType == TypeOK /\ Command => TypeOK'
<1> SUFFICES ASSUME TypeOK, Command PROVE TypeOK'
  OBVIOUS
<1>1. ASSUME NEW id \in Ids, NEW requested \in BOOLEAN, Prompt(id, requested) PROVE TypeOK'
  <2>1. /\ unsent' \in SUBSET Ids /\ pending' \in Seq(Ids) /\ sendNow' \in SUBSET Ids
        /\ reply' \in [Ids -> Replies]
    BY <1>1, QueueInputType DEF Prompt
  <2>2. pc' \in ActorPoints /\ suppressed' \in BOOLEAN
    BY <1>1, Tags DEF Prompt
  <2> QED BY <1>1, <2>1, <2>2, TypeFrames, Zenon DEF TypeOK, Prompt, QueueType, EnvType, GhostType
<1>2. ASSUME NEW id \in UserPrompts, NEW c \in Clients \cup {None}, RemoveQueued(id, c) PROVE TypeOK'
  <2>1. pending' \in Seq(Ids)
    BY <1>2, KeptFacts DEF TypeOK, QueueType, RemoveQueued
  <2>2. reply' \in [Ids -> Replies]
    BY <1>2, AnswerType, Tags DEF TypeOK, GhostType, RemoveQueued
  <2> QED BY <1>2, <2>1, <2>2, TypeFrames, Zenon DEF TypeOK, RemoveQueued, QueueType, EnvType, GhostType
<1>3. ASSUME NEW id \in UserPrompts, NEW c \in Clients \cup {None}, InterjectQueued(id, c) PROVE TypeOK'
  <2>1. Kept(pending, Ids \ {id}) \in Seq(Ids)
    BY <1>3, KeptFacts DEF TypeOK, QueueType
  <2>2. pending' \in Seq(Ids)
    BY <1>3, <2>1, InsertFacts, IdFacts DEF InterjectQueued
  <2>3. sendNow' \in SUBSET Ids /\ pc' \in ActorPoints
    BY <1>3, IdFacts, Tags DEF TypeOK, QueueType, InterjectQueued
  <2> QED BY <1>3, <2>1, <2>2, <2>3, TypeFrames, Zenon DEF TypeOK, InterjectQueued, QueueType, EnvType
<1>4. ASSUME NEW c \in Clients \cup {None}, ClearQueue(c) PROVE TypeOK'
  <2>1. pending' \in Seq(Ids)
    BY <1>4, SweepFacts DEF TypeOK, QueueType, ClearQueue
  <2>2. reply' \in [Ids -> Replies]
    BY <1>4, AnswerType, Tags DEF TypeOK, GhostType, ClearQueue
  <2> QED BY <1>4, <2>1, <2>2, TypeFrames, Zenon DEF TypeOK, ClearQueue, QueueType, EnvType, GhostType
<1>5. ASSUME NEW order \in Orders, ReorderQueue(order) PROVE TypeOK'
  <2>1. pending' \in Seq(Ids)
    BY <1>5, OrderType, ReorderedFacts DEF TypeOK, QueueType, ReorderQueue
  <2> QED BY <1>5, <2>1, TypeFrames, Zenon DEF TypeOK, ReorderQueue, QueueType, EnvType
<1>6. ASSUME NEW i \in Interjections, Interject(i) PROVE TypeOK'
  <2>1. unsent' \in SUBSET Ids
    BY <1>6 DEF TypeOK, EnvType, Interject
  <2>2. pending' \in Seq(Ids) /\ sendNow' \in SUBSET Ids /\ buffer' \in Seq(Interjections) /\ pc' \in ActorPoints
    <3>1. CASE pin # None
      <4>1. pending' = pending /\ sendNow' = sendNow /\ pc' = pc /\ buffer' = Append(buffer, i)
        BY <1>6, <3>1 DEF Interject
      <4> QED BY <4>1, QueueElements DEF TypeOK, QueueType, TurnType, EnvType
    <3>2. CASE pin = None
      <4>1. /\ pending' = InsertFallback(pending, running, i) /\ sendNow' = sendNow \cup {i}
            /\ pc' = "start" /\ buffer' = buffer
        BY <1>6, <3>2 DEF Interject
      <4>2. i \in Ids
        BY IdFacts
      <4>3. InsertFallback(pending, running, i) \in Seq(Ids)
        BY <4>2, InsertFacts DEF TypeOK, QueueType
      <4> QED BY <4>1, <4>2, <4>3, Tags DEF TypeOK, QueueType, TurnType
    <3> QED BY <3>1, <3>2
  <2> QED BY <1>6, <2>1, <2>2, TypeFrames, Zenon DEF TypeOK, Interject, QueueType, EnvType
<1>7. ASSUME NEW g \in GoalPrompts, GoalSummary(g) PROVE TypeOK'
  <2>1. pending' \in Seq(Ids) /\ unsent' \in SUBSET Ids /\ pc' \in ActorPoints
    BY <1>7, QueueElements, IdFacts, Tags DEF TypeOK, QueueType, EnvType, GoalSummary
  <2> QED BY <1>7, <2>1, TypeFrames, Zenon DEF TypeOK, GoalSummary, QueueType, EnvType
<1>8. ASSUME NEW mode \in CancelModes, CancelCommand(mode) PROVE TypeOK'
  BY <1>8, BeginCancelType DEF CancelCommand
<1>9. CASE InjectNotification
  <2>1. pc' \in ActorPoints
    BY <1>9, Tags DEF InjectNotification
  <2> QED BY <1>9, <2>1, TypeFrames, Zenon DEF TypeOK, InjectNotification
<1>10. CASE Shutdown
  <2>1. pending' \in Seq(Ids)
    BY <1>10, KeptFacts DEF TypeOK, QueueType, Shutdown
  <2>2. reply' \in [Ids -> Replies]
    BY <1>10, AnswerType, Tags DEF TypeOK, GhostType, Shutdown
  <2>3. pc' \in ActorPoints
    BY <1>10, Tags DEF Shutdown
  <2> QED BY <1>10, <2>1, <2>2, <2>3, TypeFrames, Zenon DEF TypeOK, Shutdown, QueueType, GhostType
<1> QED BY <1>1, <1>2, <1>3, <1>4, <1>5, <1>6, <1>7, <1>8, <1>9, <1>10 DEF Command

\* The actor's own steps keep the types.
LEMMA ActorStepType == TypeOK /\ ActorStep => TypeOK'
<1> SUFFICES ASSUME TypeOK, ActorStep PROVE TypeOK'
  OBVIOUS
<1>1. CASE Start
  <2>1. /\ running' \in Ids \cup {None} /\ pin' \in Ids \cup {None} /\ rewindable' \in BOOLEAN
        /\ task' \in [Ids -> TaskStates] /\ started' \in [Ids -> Nat]
    BY <1>1, StartFrontType DEF Start
  <2>2. pc' \in ActorPoints
    BY <1>1, Tags DEF Start
  <2> QED BY <1>1, <2>1, <2>2, TypeFrames, Zenon DEF TypeOK, Start, QueueType, TurnType
<1>2. CASE CancelForSendNow
  BY <1>2, BeginCancelType, Tags DEF CancelForSendNow
<1>3. CASE CancelLock
  <2>1. pending # <<>> => Head(pending) \in Ids /\ Tail(pending) \in Seq(Ids)
    BY <1>3, QueueElements DEF TypeOK, QueueType
  <2>2. running' \in Ids \cup {None} /\ pending' \in Seq(Ids) /\ pc' \in ActorPoints
    <3>1. running' = None /\ pc' = "cancelGate"
      BY <1>3 DEF CancelLock
    <3> SUFFICES pending' \in Seq(Ids)
      BY <3>1, Tags
    <3>2. CASE CancelRewinds
      BY <1>3, <2>1, <3>2 DEF CancelLock, CancelRewinds
    <3>3. CASE ~CancelRewinds
      <4>1. pending' = IF cancel.mode = "kill" \/ pending = <<>> THEN <<>> ELSE Tail(pending)
        BY <1>3, <3>3 DEF CancelLock, QueueAfterCancel
      <4> QED BY <2>1, <4>1
    <3> QED BY <3>2, <3>3
  <2>3. task' \in [Ids -> TaskStates]
    BY <1>3, AbortType DEF TypeOK, TurnType, CancelLock
  <2>4. cancel' \in CancelRecords
    <3>1. CASE CancelRewinds
      <4>1. cancel' = [cancel EXCEPT !.items = <<Head(pending)>>, !.rewound = TRUE]
        BY <1>3, <3>1 DEF CancelLock
      <4>2. <<Head(pending)>> \in Seq(Ids)
        BY <2>1, <3>1 DEF CancelRewinds
      <4> QED BY <4>1, <4>2 DEF TypeOK, ActorType, CancelRecords
    <3>2. CASE ~CancelRewinds
      <4> DEFINE items == IF cancel.mode = "kill" \/ pending = <<>> THEN pending ELSE <<Head(pending)>>
                 victim == IF running # None THEN running ELSE cancel.pinned
      <4>1. cancel' = [cancel EXCEPT !.items = items, !.abortee = running, !.victim = victim]
        BY <1>3, <3>2 DEF CancelLock, CancelledItems
      <4>2. items \in Seq(Ids) /\ victim \in Ids \cup {None}
        BY <2>1 DEF TypeOK, QueueType, ActorType, CancelRecords
      <4> HIDE DEF items, victim
      <4> QED BY <4>1, <4>2 DEF TypeOK, QueueType, ActorType, CancelRecords
    <3> QED BY <3>1, <3>2
  <2>5. rewindable' \in BOOLEAN /\ suppressed' \in BOOLEAN
    BY <1>3, Zenon DEF CancelLock
  <2> QED BY <1>3, <2>1, <2>2, <2>3, <2>4, <2>5, TypeFrames, Zenon DEF TypeOK, CancelLock, QueueType, TurnType, ActorType
<1>4. CASE CancelGate
  <2>1. pc' \in ActorPoints
    BY <1>4, Tags DEF CancelGate
  <2>2. goalGate' \in BOOLEAN
    BY <1>4 DEF CancelGate
  <2> QED BY <1>4, <2>1, <2>2, TypeFrames, Zenon DEF TypeOK, CancelGate, GateType
<1>5. CASE CancelAbort
  <2>1. pc' \in ActorPoints /\ waitDepth' \in Nat
    BY <1>5, Tags DEF CancelAbort
  <2>2. task' \in [Ids -> TaskStates]
    BY <1>5, AbortType DEF TypeOK, TurnType, CancelAbort
  <2> QED BY <1>5, <2>1, <2>2, TypeFrames, Zenon DEF TypeOK, CancelAbort, TurnType, GateType
<1>6. CASE CancelEnd
  <2>1. pc' \in ActorPoints /\ pin' \in Ids \cup {None}
    BY <1>6, Tags DEF CancelEnd
  <2>2. terminals' \in [Ids -> Nat]
    <3>1. \/ terminals' = terminals
          \/ terminals' = [terminals EXCEPT ![cancel.victim] = @ + 1]
      BY <1>6 DEF CancelEnd
    <3> QED BY <3>1 DEF TypeOK, GhostType
  <2>3. reply' \in [Ids -> Replies]
    BY <1>6, AnswerType, Tags DEF TypeOK, GhostType, CancelEnd
  <2>4. cancel' \in CancelRecords
    BY <1>6, Tags DEF CancelEnd, NoCancel, CancelRecords
  <2>5. rewindable' \in BOOLEAN /\ suppressed' \in BOOLEAN
    BY <1>6, Zenon DEF CancelEnd
  <2> QED BY <1>6, <2>1, <2>2, <2>3, <2>4, <2>5, TypeFrames, Zenon DEF TypeOK, CancelEnd, QueueType, TurnType, ActorType, GhostType
<1>7. CASE TakeCompletion
  <2>1. completing' \in Ids \cup {None} /\ completions' \in Seq(Ids)
    BY <1>7, QueueElements DEF TypeOK, QueueType, ActorType, TakeCompletion
  <2>2. pin' \in Ids \cup {None}
    BY <1>7, UnpinType DEF TypeOK, TurnType, TakeCompletion
  <2>3. pc' \in ActorPoints
    BY <1>7, Tags DEF TakeCompletion
  <2> QED BY <1>7, <2>1, <2>2, <2>3, TypeFrames, Zenon DEF TypeOK, TakeCompletion, TurnType, ActorType
<1>8. CASE CompletionGate
  <2>1. pc' \in ActorPoints
    BY <1>8, Tags DEF CompletionGate
  <2>2. goalGate' \in BOOLEAN
    BY <1>8 DEF CompletionGate
  <2> QED BY <1>8, <2>1, <2>2, TypeFrames, Zenon DEF TypeOK, CompletionGate, GateType
<1>9. CASE CompletionLock
  <2>1. pending' \in Seq(Ids) /\ running' \in Ids \cup {None} /\ completing' \in Ids \cup {None}
    BY <1>9, QueueElements DEF TypeOK, QueueType, ActorType, CompletionLock, CompletionOwned,
       TaskAfterCompletion, FrontIs
  <2>2. reply' \in [Ids -> Replies]
    BY <1>9, AnswerType, Tags DEF TypeOK, GhostType, CompletionLock
  <2>3. terminals' \in [Ids -> Nat]
    <3>1. \/ terminals' = terminals
          \/ terminals' = [terminals EXCEPT ![completing] = @ + 1]
      BY <1>9 DEF CompletionLock
    <3> QED BY <3>1 DEF TypeOK, GhostType
  <2>4. pc' \in ActorPoints
    BY <1>9, Tags DEF CompletionLock
  <2>5. rewindable' \in BOOLEAN
    BY <1>9, Zenon DEF CompletionLock
  <2> QED BY <1>9, <2>1, <2>2, <2>3, <2>4, <2>5, TypeFrames, Zenon DEF TypeOK, CompletionLock, QueueType, ActorType, GhostType
<1>10. CASE TurnEnd
  <2>1. unsent' \in SUBSET Ids /\ pending' \in Seq(Ids)
    <3>1. \/ unsent' = unsent /\ pending' = pending
          \/ \E g \in GoalPrompts : unsent' = unsent \ {g} /\ pending' = Append(pending, g)
      BY <1>10 DEF TurnEnd
    <3>2. \A g \in GoalPrompts : Append(pending, g) \in Seq(Ids)
      BY QueueElements, IdFacts DEF TypeOK, QueueType
    <3> QED BY <3>1, <3>2 DEF TypeOK, QueueType, EnvType
  <2>2. pc' \in ActorPoints
    BY <1>10, Tags DEF TurnEnd
  <2> QED BY <1>10, <2>1, <2>2, TypeFrames, Zenon DEF TypeOK, TurnEnd, QueueType, EnvType
<1>11. CASE Strand
  <2>1. flushing' \in Seq(Interjections) /\ buffer' \in Seq(Interjections)
    BY <1>11 DEF TypeOK, ActorType, Strand
  <2>2. pc' \in ActorPoints
    BY <1>11, Tags DEF Strand
  <2> QED BY <1>11, <2>1, <2>2, TypeFrames, Zenon DEF TypeOK, Strand, ActorType
<1>12. CASE Flush
  <2>1. flushing[Len(flushing)] \in Interjections
    BY <1>12 DEF TypeOK, ActorType, Flush
  <2>2. pending' \in Seq(Ids)
    BY <1>12, <2>1, IdFacts, InsertFacts DEF TypeOK, QueueType, Flush
  <2>3. sendNow' \in SUBSET Ids
    BY <1>12, <2>1, IdFacts DEF TypeOK, QueueType, Flush
  <2>4. flushing' \in Seq(Interjections)
    BY <1>12 DEF TypeOK, ActorType, Flush
  <2>5. pc' \in ActorPoints
    BY <1>12, Tags DEF Flush
  <2> QED BY <1>12, <2>1, <2>2, <2>3, <2>4, <2>5, TypeFrames, Zenon DEF TypeOK, Flush, QueueType, ActorType
<1>13. CASE StartAfterTurn
  <2>1. /\ running' \in Ids \cup {None} /\ pin' \in Ids \cup {None} /\ rewindable' \in BOOLEAN
        /\ task' \in [Ids -> TaskStates] /\ started' \in [Ids -> Nat]
    BY <1>13, StartFrontType DEF StartAfterTurn
  <2>2. pc' \in ActorPoints
    BY <1>13, Tags DEF StartAfterTurn
  <2> QED BY <1>13, <2>1, <2>2, TypeFrames, Zenon DEF TypeOK, StartAfterTurn, QueueType, TurnType
<1>14. CASE Drain
  <2>1. unsent' \in SUBSET Ids /\ pending' \in Seq(Ids)
    <3>1. \/ unsent' = unsent /\ pending' = pending
          \/ \E d \in DrainPrompts : unsent' = unsent \ {d} /\ pending' = Append(pending, d)
      BY <1>14 DEF Drain
    <3>2. \A d \in DrainPrompts : Append(pending, d) \in Seq(Ids)
      BY QueueElements, IdFacts DEF TypeOK, QueueType
    <3> QED BY <3>1, <3>2 DEF TypeOK, QueueType, EnvType
  <2>2. pc' \in ActorPoints
    BY <1>14, Tags DEF Drain
  <2> QED BY <1>14, <2>1, <2>2, TypeFrames, Zenon DEF TypeOK, Drain, QueueType, EnvType
<1> QED BY <1>1, <1>2, <1>3, <1>4, <1>5, <1>6, <1>7, <1>8, <1>9, <1>10, <1>11, <1>12, <1>13, <1>14 DEF ActorStep

\* A turn's steps keep the types.
LEMMA TurnStepType ==
  ASSUME TypeOK, NEW id \in Ids, TurnStep(id)
  PROVE  TypeOK'
<1>1. CASE TurnOutput(id)
  <2>1. rewindable' \in BOOLEAN
    BY <1>1 DEF TurnOutput
  <2> QED BY <1>1, <2>1, TypeFrames, Zenon DEF TypeOK, TurnOutput, QueueType
<1>2. CASE TurnMergesInterjections(id)
  <2>1. buffer' \in Seq(Interjections)
    BY <1>2 DEF TurnMergesInterjections
  <2>2. reply' \in [Ids -> Replies]
    BY <1>2, AnswerType, Tags DEF TypeOK, GhostType, TurnMergesInterjections
  <2> QED BY <1>2, <2>1, <2>2, TypeFrames, Zenon DEF TypeOK, TurnMergesInterjections, GhostType
<1>3. CASE TurnGoalRound(id)
  <2>1. goalGate' \in BOOLEAN
    BY <1>3, Zenon DEF TurnGoalRound
  <2> QED BY <1>3, <2>1, TypeFrames, Zenon DEF TypeOK, TurnGoalRound, GateType
<1>4. CASE TurnEntersWait(id)
  <2>1. waitDepth' \in Nat /\ waiters' \in SUBSET Ids /\ waited' \in SUBSET Ids
    BY <1>4 DEF TypeOK, GateType, TurnEntersWait
  <2> QED BY <1>4, <2>1, TypeFrames, Zenon DEF TypeOK, TurnEntersWait, GateType
<1>5. CASE DropWaitGuard(id)
  <2>1. waitDepth' \in Nat /\ waiters' \in SUBSET Ids
    BY <1>5 DEF TypeOK, GateType, DropWaitGuard
  <2> QED BY <1>5, <2>1, TypeFrames, Zenon DEF TypeOK, DropWaitGuard, GateType
<1>6. ASSUME NEW w \in WakePrompts, TurnConsumesCompletion(id, w) PROVE TypeOK'
  <2>1. pending' \in Seq(Ids)
    BY <1>6, SweepFacts DEF TypeOK, QueueType, TurnConsumesCompletion
  <2>2. reply' \in [Ids -> Replies]
    BY <1>6, AnswerType, Tags DEF TypeOK, GhostType, TurnConsumesCompletion
  <2> QED BY <1>6, <2>1, <2>2, TypeFrames, Zenon DEF TypeOK, TurnConsumesCompletion, QueueType, GhostType
<1>7. CASE TurnUnpins(id)
  <2>1. task' \in [Ids -> TaskStates]
    BY <1>7, Tags DEF TypeOK, TurnType, TurnUnpins
  <2>2. pin' \in Ids \cup {None}
    BY <1>7, UnpinType DEF TypeOK, TurnType, TurnUnpins
  <2> QED BY <1>7, <2>1, <2>2, TypeFrames, Zenon DEF TypeOK, TurnUnpins, TurnType
<1>8. CASE TurnFinishes(id)
  <2>1. task' \in [Ids -> TaskStates]
    BY <1>8, Tags DEF TypeOK, TurnType, TurnFinishes
  <2>2. completions' \in Seq(Ids)
    BY <1>8, QueueElements DEF TypeOK, QueueType, ActorType, TurnFinishes
  <2> QED BY <1>8, <2>1, <2>2, TypeFrames, Zenon DEF TypeOK, TurnFinishes, TurnType, ActorType
<1>9. CASE DropAborted(id)
  <2>1. task' \in [Ids -> TaskStates]
    BY <1>9, Tags DEF TypeOK, TurnType, DropAborted
  <2>2. pin' \in Ids \cup {None}
    BY <1>9, UnpinType DEF TypeOK, TurnType, DropAborted
  <2> QED BY <1>9, <2>1, <2>2, TypeFrames, Zenon DEF TypeOK, DropAborted, TurnType
<1>10. CASE TurnReturnsEarly(id)
  <2>1. task' \in [Ids -> TaskStates]
    BY <1>10, Tags DEF TypeOK, TurnType, TurnReturnsEarly
  <2>2. completions' \in Seq(Ids)
    BY <1>10, QueueElements DEF TypeOK, QueueType, ActorType, TurnReturnsEarly
  <2> QED BY <1>10, <2>1, <2>2, TypeFrames, Zenon DEF TypeOK, TurnReturnsEarly, TurnType, ActorType
<1> QED BY <1>1, <1>2, <1>3, <1>4, <1>5, <1>6, <1>7, <1>8, <1>9, <1>10 DEF TurnStep

\* The detached tasks keep the types.
LEMMA DetachedStepType == TypeOK /\ DetachedStep => TypeOK'
<1> SUFFICES ASSUME TypeOK, DetachedStep PROVE TypeOK'
  OBVIOUS
<1>1. CASE McpInitialized
  <2>1. /\ running' \in Ids \cup {None} /\ pin' \in Ids \cup {None} /\ rewindable' \in BOOLEAN
        /\ task' \in [Ids -> TaskStates] /\ started' \in [Ids -> Nat]
    BY <1>1, StartFrontType DEF McpInitialized
  <2>2. mcpPending' \in BOOLEAN
    BY <1>1 DEF McpInitialized
  <2> QED BY <1>1, <2>1, <2>2, TypeFrames, Zenon DEF TypeOK, McpInitialized, QueueType, TurnType, EnvType
<1>2. ASSUME NEW p \in PlanPrompts, PlanResume(p) PROVE TypeOK'
  <2>1. p \in Ids
    BY <1>2, IdFacts
  <2>2. /\ unsent' \in SUBSET Ids /\ pending' \in Seq(Ids) /\ sendNow' \in SUBSET Ids
        /\ reply' \in [Ids -> Replies]
    BY <1>2, <2>1, QueueInputType DEF PlanResume
  <2>3. planKick' \in SUBSET Ids
    BY <1>2, <2>1 DEF TypeOK, EnvType, PlanResume
  <2> QED BY <1>2, <2>1, <2>2, <2>3, TypeFrames, Zenon DEF TypeOK, PlanResume, QueueType, EnvType, GhostType
<1>3. ASSUME NEW p \in PlanPrompts, PlanStart(p) PROVE TypeOK'
  <2>1. /\ running' \in Ids \cup {None} /\ pin' \in Ids \cup {None} /\ rewindable' \in BOOLEAN
        /\ task' \in [Ids -> TaskStates] /\ started' \in [Ids -> Nat]
    BY <1>3, StartFrontType DEF PlanStart
  <2>2. planKick' \in SUBSET Ids
    BY <1>3 DEF TypeOK, EnvType, PlanStart
  <2> QED BY <1>3, <2>1, <2>2, TypeFrames, Zenon DEF TypeOK, PlanStart, QueueType, TurnType, EnvType
<1> QED BY <1>1, <1>2, <1>3 DEF DetachedStep

\* Every step keeps the types.
LEMMA TypeStep == TypeOK /\ [Next]_vars => TypeOK'
<1> SUFFICES ASSUME TypeOK, [Next]_vars PROVE TypeOK'
  OBVIOUS
<1>1. CASE UNCHANGED vars
  BY <1>1, TypeFrames DEF TypeOK, vars, queueVars, turnVars, gateVars, envVars, actorVars, ghostVars
<1>2. CASE Next
  <2>1. CASE Parked
    BY <1>1, <2>1 DEF Parked
  <2> QED BY <1>2, <2>1, CommandType, ActorStepType, TurnStepType, DetachedStepType DEF Next
<1> QED BY <1>1, <1>2

\* Every variable of the scheduler keeps its type, in every run of a session.
THEOREM TypeCorrect == Spec => []TypeOK
<1>1. Init => TypeOK
  <2> SUFFICES ASSUME Init PROVE TypeOK
    OBVIOUS
  <2>1. cancel \in CancelRecords
    BY Tags DEF Init, NoCancel, CancelRecords
  <2>2. /\ task \in [Ids -> TaskStates] /\ reply \in [Ids -> Replies]
        /\ started \in [Ids -> Nat] /\ terminals \in [Ids -> Nat]
    BY Tags DEF Init
  <2>3. /\ pending \in Seq(Ids) /\ buffer \in Seq(Interjections) /\ completions \in Seq(Ids)
        /\ flushing \in Seq(Interjections) /\ pc \in ActorPoints /\ waitDepth \in Nat
    BY Tags DEF Init
  <2> QED BY <2>1, <2>2, <2>3, Zenon DEF Init, TypeOK, QueueType, TurnType, GateType, EnvType, ActorType, GhostType
<1> QED BY <1>1, TypeStep, PTL DEF Spec

-----------------------------------------------------------------------------
\* A handler that leaves the running task alone must leave its slot alone.
LEMMA FrontKept ==
  ASSUME FrontIsRunning, pc # "stopped", running' = running,
         FrontIs(pending, running) => FrontIs(pending', running)
  PROVE  FrontIsRunning'
BY DEF FrontIsRunning

\* Starting the front makes the front the running turn.
LEMMA FrontStarted ==
  ASSUME FrontIsRunning, pc # "stopped", StartFront, pending' = pending
  PROVE  FrontIsRunning'
BY DEF FrontIsRunning, StartFront, FrontIs

\* Appending never disturbs the front.
LEMMA FrontAppend ==
  ASSUME NEW q \in Seq(Ids), NEW id \in Ids, FrontIs(q, running)
  PROVE  FrontIs(Append(q, id), running)
BY DEF FrontIs

\* queue_input keeps the running front: its sweep exempts it, a send-now prompt
\* goes behind it.
LEMMA FrontQueueInput ==
  ASSUME TypeOK, NEW id \in Ids, NEW requested \in BOOLEAN, QueueInput(id, requested),
         FrontIs(pending, running)
  PROVE  FrontIs(pending', running)
<1> DEFINE kept == QueueAfterPreempt(id)
<1>1. kept \in Seq(Ids) /\ FrontIs(kept, running)
  BY SweepFacts DEF TypeOK, QueueType, QueueAfterPreempt
<1>2. pending' = IF RunsNext(id, requested) THEN InsertSendNow(kept, running, sendNow, id)
                 ELSE Append(kept, id)
  BY DEF QueueInput
<1> HIDE DEF kept
<1>3. FrontIs(InsertSendNow(kept, running, sendNow, id), running)
  BY <1>1, InsertFacts
<1>4. FrontIs(Append(kept, id), running)
  BY <1>1, FrontAppend
<1> QED BY <1>2, <1>3, <1>4

\* A command handler keeps the running turn at the front of the queue.
LEMMA CommandFront == TypeOK /\ FrontIsRunning /\ Command => FrontIsRunning'
<1> SUFFICES ASSUME TypeOK, FrontIsRunning, Command PROVE FrontIsRunning'
  OBVIOUS
<1>0. pending \in Seq(Ids)
  BY DEF TypeOK, QueueType
<1>1. ASSUME NEW id \in Ids, NEW requested \in BOOLEAN, Prompt(id, requested)
      PROVE  FrontIsRunning'
  BY <1>1, FrontQueueInput, FrontKept DEF Prompt, AtSelect
<1>2. ASSUME NEW id \in UserPrompts, NEW c \in Clients \cup {None}, RemoveQueued(id, c)
      PROVE  FrontIsRunning'
  <2>1. id # running /\ pending' = Kept(pending, Ids \ {id}) /\ running' = running /\ pc = "loop"
    BY <1>2 DEF RemoveQueued, AtSelect
  <2>2. FrontIs(pending, running) => FrontIs(pending', running)
    <3>1. FrontIs(pending, running) => running \in Ids
      BY <1>0 DEF FrontIs
    <3> QED BY <1>0, <2>1, <3>1, KeptFront
  <2> QED BY <2>1, <2>2, FrontKept
<1>3. ASSUME NEW id \in UserPrompts, NEW c \in Clients \cup {None}, InterjectQueued(id, c)
      PROVE  FrontIsRunning'
  <2> DEFINE kept == Kept(pending, Ids \ {id})
  <2>1. /\ id # running /\ running' = running /\ pc = "loop"
        /\ pending' = InsertSendNow(kept, running, sendNow, id)
    BY <1>3 DEF InterjectQueued, AtSelect
  <2>2. kept \in Seq(Ids) /\ (FrontIs(pending, running) => FrontIs(kept, running))
    <3>1. FrontIs(pending, running) => running \in Ids
      BY <1>0 DEF FrontIs
    <3>2. kept \in Seq(Ids)
      BY <1>0, KeptFacts
    <3> QED BY <1>0, <2>1, <3>1, <3>2, KeptFront
  <2> HIDE DEF kept
  <2>3. FrontIs(pending, running) => FrontIs(pending', running)
    BY <2>1, <2>2, InsertFacts, IdFacts
  <2> QED BY <2>1, <2>3, FrontKept
<1>4. ASSUME NEW c \in Clients \cup {None}, ClearQueue(c) PROVE FrontIsRunning'
  BY <1>0, <1>4, SweepFacts, FrontKept DEF ClearQueue, AtSelect
<1>5. ASSUME NEW order \in Orders, ReorderQueue(order) PROVE FrontIsRunning'
  BY <1>0, <1>5, OrderType, ReorderedFacts, FrontKept DEF ReorderQueue, AtSelect
<1>6. ASSUME NEW i \in Interjections, Interject(i) PROVE FrontIsRunning'
  <2>1. FrontIs(pending, running) => FrontIs(InsertFallback(pending, running, i), running)
    BY <1>0, InsertFacts, IdFacts
  <2> QED BY <1>6, <2>1, FrontKept DEF Interject, AtSelect
<1>7. ASSUME NEW g \in GoalPrompts, GoalSummary(g) PROVE FrontIsRunning'
  BY <1>0, <1>7, FrontAppend, FrontKept, IdFacts DEF GoalSummary, AtSelect
<1>8. ASSUME NEW mode \in CancelModes, CancelCommand(mode) PROVE FrontIsRunning'
  BY <1>8, FrontKept DEF CancelCommand, BeginCancel, AtSelect, queueVars
<1>9. CASE InjectNotification
  BY <1>9, FrontKept DEF InjectNotification, AtSelect, queueVars
<1>10. CASE Shutdown
  BY <1>10 DEF Shutdown, FrontIsRunning
<1> QED BY <1>1, <1>2, <1>3, <1>4, <1>5, <1>6, <1>7, <1>8, <1>9, <1>10 DEF Command

\* The actor's own steps keep the running turn at the front: whoever pops the
\* front also takes the running task.
LEMMA ActorStepFront == TypeOK /\ FrontIsRunning /\ ActorStep => FrontIsRunning'
<1> SUFFICES ASSUME TypeOK, FrontIsRunning, ActorStep PROVE FrontIsRunning'
  OBVIOUS
<1>0. pending \in Seq(Ids)
  BY DEF TypeOK, QueueType
<1>1. CASE Start
  BY <1>1, FrontStarted DEF Start
<1>2. CASE CancelForSendNow
  BY <1>2, FrontKept DEF CancelForSendNow, BeginCancel, queueVars
<1>3. CASE CancelLock
  BY <1>3 DEF CancelLock, FrontIsRunning
<1>4. CASE CancelGate
  BY <1>4, FrontKept DEF CancelGate, queueVars
<1>5. CASE CancelAbort
  BY <1>5, FrontKept DEF CancelAbort, queueVars
<1>6. CASE CancelEnd
  BY <1>6, FrontKept DEF CancelEnd
<1>7. CASE TakeCompletion
  BY <1>7, FrontKept DEF TakeCompletion, queueVars
<1>8. CASE CompletionGate
  BY <1>8, FrontKept DEF CompletionGate, queueVars
<1>9. CASE CompletionLock
  <2>1. CASE FrontIs(pending, completing)
    BY <1>9, <2>1 DEF CompletionLock, CompletionOwned, TaskAfterCompletion, FrontIsRunning
  <2>2. CASE ~FrontIs(pending, completing)
    BY <1>9, <2>2 DEF CompletionLock, CompletionOwned, TaskAfterCompletion, FrontIsRunning
  <2> QED BY <2>1, <2>2
<1>10. CASE TurnEnd
  <2>1. \/ pending' = pending
        \/ \E g \in GoalPrompts : pending' = Append(pending, g)
    BY <1>10 DEF TurnEnd
  <2>2. FrontIs(pending, running) => FrontIs(pending', running)
    BY <1>0, <2>1, FrontAppend, IdFacts
  <2> QED BY <1>10, <2>2, FrontKept DEF TurnEnd
<1>11. CASE Strand
  BY <1>11, FrontKept DEF Strand, queueVars
<1>12. CASE Flush
  <2>1. flushing[Len(flushing)] \in Ids
    BY <1>12, IdFacts DEF Flush, TypeOK, ActorType
  <2>2. FrontIs(pending, running) => FrontIs(pending', running)
    BY <1>0, <1>12, <2>1, InsertFacts DEF Flush
  <2> QED BY <1>12, <2>2, FrontKept DEF Flush
<1>13. CASE StartAfterTurn
  BY <1>13, FrontStarted DEF StartAfterTurn
<1>14. CASE Drain
  <2>1. \/ pending' = pending
        \/ \E d \in DrainPrompts : pending' = Append(pending, d)
    BY <1>14 DEF Drain
  <2>2. FrontIs(pending, running) => FrontIs(pending', running)
    BY <1>0, <2>1, FrontAppend, IdFacts
  <2> QED BY <1>14, <2>2, FrontKept DEF Drain
<1> QED BY <1>1, <1>2, <1>3, <1>4, <1>5, <1>6, <1>7, <1>8, <1>9, <1>10, <1>11, <1>12, <1>13,
          <1>14 DEF ActorStep

\* A turn's steps and the detached tasks keep the running turn at the front.
LEMMA TaskStepFront ==
  ASSUME TypeOK, FrontIsRunning, pc # "stopped",
         (\E id \in Ids : TurnStep(id)) \/ DetachedStep
  PROVE  FrontIsRunning'
<1>0. pending \in Seq(Ids)
  BY DEF TypeOK, QueueType
<1>1. ASSUME NEW id \in Ids, TurnStep(id) PROVE FrontIsRunning'
  <2>1. ASSUME NEW w \in WakePrompts, TurnConsumesCompletion(id, w) PROVE FrontIsRunning'
    BY <1>0, <2>1, SweepFacts, FrontKept DEF TurnConsumesCompletion
  <2>2. CASE ~ \E w \in WakePrompts : TurnConsumesCompletion(id, w)
    <3>1. pending' = pending /\ running' = running
      BY <1>1, <2>2 DEF TurnStep, TurnOutput, TurnMergesInterjections, TurnGoalRound,
         TurnEntersWait, DropWaitGuard, TurnUnpins, TurnFinishes, TurnReturnsEarly,
         DropAborted, queueVars
    <3> QED BY <3>1, FrontKept
  <2> QED BY <2>1, <2>2
<1>2. CASE McpInitialized
  BY <1>2, FrontStarted DEF McpInitialized
<1>3. ASSUME NEW p \in PlanPrompts, PlanResume(p) PROVE FrontIsRunning'
  BY <1>3, FrontQueueInput, FrontKept, IdFacts DEF PlanResume
<1>4. ASSUME NEW p \in PlanPrompts, PlanStart(p) PROVE FrontIsRunning'
  BY <1>4, FrontStarted DEF PlanStart
<1> QED BY <1>1, <1>2, <1>3, <1>4 DEF DetachedStep

\* The in-flight turn is always the front of the queue, whatever is submitted,
\* swept, reordered, removed, promoted, cancelled or completed, and in whatever
\* order: cancel and handle_completion rely on it when they pop the front.
THEOREM RunningTurnIsFront == Spec => []FrontIsRunning
<1>1. Init => FrontIsRunning
  BY DEF Init, FrontIsRunning
<1>2. TypeOK /\ FrontIsRunning /\ [Next]_vars => FrontIsRunning'
  <2> SUFFICES ASSUME TypeOK, FrontIsRunning, [Next]_vars PROVE FrontIsRunning'
    OBVIOUS
  <2>1. CASE UNCHANGED vars
    BY <2>1 DEF vars, FrontIsRunning
  <2>2. CASE Parked
    BY <2>1, <2>2 DEF Parked
  <2>3. CASE DetachedStep
    <3>1. pc # "stopped"
      BY <2>3 DEF DetachedStep, McpInitialized, PlanResume, PlanStart
    <3> QED BY <2>3, <3>1, TaskStepFront
  <2> QED BY <2>1, <2>2, <2>3, CommandFront, ActorStepFront, TaskStepFront DEF Next
<1> QED BY <1>1, <1>2, TypeCorrect, PTL DEF Spec
-----------------------------------------------------------------------------
\* Answering a set of items drops nobody's text unless it says "dropped" of it.
LEMMA AnswerKeepsText ==
  ASSUME NEW S, NEW r, UserTextNeverDropped, Answer(S, r),
         r # "dropped" \/ S \cap (UserPrompts \cup Interjections) = {}
  PROVE  UserTextNeverDropped'
BY IdFacts DEF Answer, UserTextNeverDropped

\* The sweep of queue_input drops synthetic prompts only.
LEMMA QueueInputKeepsText ==
  ASSUME TypeOK, UserTextNeverDropped, NEW id, NEW requested, QueueInput(id, requested)
  PROVE  UserTextNeverDropped'
<1>1. ToSet(pending) \ ToSet(QueueAfterPreempt(id)) \subseteq Synthetic
  BY SweepFacts DEF TypeOK, QueueType, QueueAfterPreempt
<1>2. (ToSet(pending) \ ToSet(QueueAfterPreempt(id))) \cap (UserPrompts \cup Interjections) = {}
  BY <1>1
<1> QED BY <1>2, AnswerKeepsText DEF QueueInput

\* No step loses a text that a user typed.
LEMMA TextStep == TypeOK /\ UserTextNeverDropped /\ [Next]_vars => UserTextNeverDropped'
<1> SUFFICES ASSUME TypeOK, UserTextNeverDropped, [Next]_vars PROVE UserTextNeverDropped'
  OBVIOUS
<1>1. ASSUME reply' = reply PROVE UserTextNeverDropped'
  BY <1>1 DEF UserTextNeverDropped
<1>2. CASE Command
  <2>1. ASSUME NEW id \in Ids, NEW requested \in BOOLEAN, Prompt(id, requested)
        PROVE  UserTextNeverDropped'
    BY <2>1, QueueInputKeepsText DEF Prompt
  <2>2. ASSUME NEW id \in UserPrompts, NEW c \in Clients \cup {None}, RemoveQueued(id, c)
        PROVE  UserTextNeverDropped'
    BY <2>2, AnswerKeepsText DEF RemoveQueued
  <2>3. ASSUME NEW c \in Clients \cup {None}, ClearQueue(c) PROVE UserTextNeverDropped'
    BY <2>3, AnswerKeepsText DEF ClearQueue
  <2>4. ASSUME NEW mode \in CancelModes, CancelCommand(mode) PROVE UserTextNeverDropped'
    BY <2>4, AnswerKeepsText DEF CancelCommand, BeginCancel
  <2>5. CASE Shutdown
    <3>1. (ToSet(pending) \cap Synthetic) \cap (UserPrompts \cup Interjections) = {}
      OBVIOUS
    <3> QED BY <2>5, <3>1, AnswerKeepsText DEF Shutdown
  <2>6. ASSUME NEW id \in UserPrompts, NEW c \in Clients \cup {None}, InterjectQueued(id, c)
        PROVE  UserTextNeverDropped'
    BY <1>1, <2>6 DEF InterjectQueued, ghostVars
  <2>7. ASSUME NEW order \in Orders, ReorderQueue(order) PROVE UserTextNeverDropped'
    BY <1>1, <2>7 DEF ReorderQueue, ghostVars
  <2>8. ASSUME NEW i \in Interjections, Interject(i) PROVE UserTextNeverDropped'
    BY <1>1, <2>8 DEF Interject, ghostVars
  <2>9. ASSUME NEW g \in GoalPrompts, GoalSummary(g) PROVE UserTextNeverDropped'
    BY <1>1, <2>9 DEF GoalSummary, ghostVars
  <2>10. CASE InjectNotification
    BY <1>1, <2>10 DEF InjectNotification, ghostVars
  <2> QED BY <1>2, <2>1, <2>2, <2>3, <2>4, <2>5, <2>6, <2>7, <2>8, <2>9, <2>10 DEF Command
<1>3. CASE ActorStep
  <2>1. CASE CancelForSendNow
    BY <2>1, AnswerKeepsText DEF CancelForSendNow, BeginCancel
  <2>2. CASE CancelEnd
    BY <2>2, AnswerKeepsText DEF CancelEnd
  <2>3. CASE CompletionLock
    BY <2>3, AnswerKeepsText DEF CompletionLock
  <2>4. CASE ~(CancelForSendNow \/ CancelEnd \/ CompletionLock)
    BY <1>1, <1>3, <2>4 DEF ActorStep, Start, CancelLock, CancelGate, CancelAbort,
       TakeCompletion, CompletionGate, TurnEnd, Strand, Flush, StartAfterTurn, Drain, ghostVars
  <2> QED BY <2>1, <2>2, <2>3, <2>4
<1>4. ASSUME NEW id \in Ids, TurnStep(id) PROVE UserTextNeverDropped'
  <2>1. CASE TurnMergesInterjections(id)
    BY <2>1, AnswerKeepsText DEF TurnMergesInterjections
  <2>2. ASSUME NEW w \in WakePrompts, TurnConsumesCompletion(id, w) PROVE UserTextNeverDropped'
    <3>1. ToSet(pending) \ ToSet(pending') \subseteq {w}
      BY <2>2, SweepFacts DEF TypeOK, QueueType, TurnConsumesCompletion
    <3>2. (ToSet(pending) \ ToSet(pending')) \cap (UserPrompts \cup Interjections) = {}
      BY <3>1 DEF Synthetic
    <3> QED BY <2>2, <3>2, AnswerKeepsText DEF TurnConsumesCompletion
  <2>3. CASE ~ \/ TurnMergesInterjections(id)
               \/ \E w \in WakePrompts : TurnConsumesCompletion(id, w)
    BY <1>1, <1>4, <2>3 DEF TurnStep, TurnOutput, TurnGoalRound, TurnEntersWait, DropWaitGuard,
       TurnUnpins, TurnFinishes, TurnReturnsEarly, DropAborted, ghostVars
  <2> QED BY <2>1, <2>2, <2>3
<1>5. CASE McpInitialized
  BY <1>1, <1>5 DEF McpInitialized, ghostVars
<1>6. ASSUME NEW p \in PlanPrompts, PlanResume(p) PROVE UserTextNeverDropped'
  BY <1>6, QueueInputKeepsText DEF PlanResume
<1>7. ASSUME NEW p \in PlanPrompts, PlanStart(p) PROVE UserTextNeverDropped'
  BY <1>1, <1>7 DEF PlanStart, ghostVars
<1>8. CASE Parked \/ UNCHANGED vars
  BY <1>1, <1>8 DEF Parked, vars
<1> QED BY <1>2, <1>3, <1>4, <1>5, <1>6, <1>7, <1>8 DEF Next, DetachedStep

\* No sweep, cancel, completion or shutdown ever drops a prompt or an
\* interjection a user typed: the items dropped unanswered are synthetic.
THEOREM UserTextSurvives == Spec => []UserTextNeverDropped
<1>1. Init => UserTextNeverDropped
  BY IdFacts DEF Init, UserTextNeverDropped, Answers
<1> QED BY <1>1, TypeCorrect, TextStep, PTL DEF Spec

-----------------------------------------------------------------------------
(* The inductive invariant, in parts.                                      *)

Queued   == ToSet(pending)
Held     == ToSet(cancel.items)
Buffered == ToSet(buffer)
Flushed  == ToSet(flushing)
Answered == {id \in Ids : reply[id] # None}

\* An item is unsent or in exactly one of the places of a submitted item.
OnePlace(id) ==
    /\ id \in unsent \/ id \in Queued \/ id \in Held \/ id \in Buffered \/ id \in Flushed
          \/ id \in Answered
    /\ id \in unsent => id \notin Queued /\ id \notin Held /\ id \notin Buffered
                          /\ id \notin Flushed /\ id \notin Answered
    /\ id \in Queued => id \notin Held /\ id \notin Buffered /\ id \notin Flushed
                          /\ id \notin Answered
    /\ id \in Held => id \notin Buffered /\ id \notin Flushed /\ id \notin Answered
    /\ id \in Buffered => id \notin Flushed /\ id \notin Answered
    /\ id \in Flushed => id \notin Answered

\* The locals of a handler are empty outside it.
Locals ==
    /\ cancel.items # <<>> => InCancel
    /\ flushing # <<>> => pc = "flush"

Placed == /\ \A id \in Ids : OnePlace(id)
          /\ Distinct(pending) /\ Distinct(buffer) /\ Distinct(flushing)
          /\ Locals

\* Of the items not yet held or answered only the in-flight turn's was started.
NotYetRun ==
    \A id \in Ids :
        /\ started[id] <= 1
        /\ (id \notin Held \cup Answered /\ id # running) => started[id] = 0
        /\ id = running => started[id] = 1

\* A completion is sent, and handled, for a turn that was started.
CompletionsStarted ==
    /\ \A id \in Ids : task[id] # "none" => started[id] = 1
    /\ \A id \in ToSet(completions) : started[id] = 1
    /\ completing # None => started[completing] = 1

\* Outside a cancel the pin names the running turn or nobody, and the turn whose
\* completion is being handled no longer has it.
PinOwner ==
    /\ InCancel \/ pin \in {None, running}
    /\ pc = "cancelLock" => cancel.pinned \in {None, running}
    /\ pc \in {"completionGate", "completionLock"} => pin = None \/ pin # completing

\* Interjections are buffered behind a turn, until its completion flushes them.
BufferOwner ==
    /\ (running = None /\ pc \notin {"turnEnd", "strand"}) => buffer = <<>>
    /\ (InCancel \/ pc = "cancelLock") => buffer = <<>>

\* A turn's terminal goes with the answer of its item.
Published ==
    \A id \in Ids :
        /\ terminals[id] <= 1
        /\ terminals[id] = 1 => started[id] = 1 /\ id \in Answered /\ reply[id] # "rewound"
        /\ (pc # "stopped" /\ started[id] = 1 /\ id \in Answered /\ reply[id] # "rewound")
              => terminals[id] = 1

\* A cancel publishes for the one item it holds that was started.
Victim ==
    InCancel /\ ~cancel.rewound =>
        /\ cancel.victim # None => cancel.victim \in Held
        /\ \A id \in Held : started[id] = 1 <=> id = cancel.victim

TurnInv == NotYetRun /\ CompletionsStarted /\ PinOwner /\ BufferOwner /\ Published /\ Victim

\* Only submitted texts of users are marked send-now.
SendNowTexts == sendNow \cap (Synthetic \cup unsent) = {}

\* From the moment a send-now cancel is due until it takes the turn, a send-now
\* prompt is next in line.
CancelDue == pc = "cancel" \/ (pc = "cancelLock" /\ cancel.mode = "send_now")

SendNowNext == CancelDue => running # None /\ Len(pending) >= 2 /\ pending[2] \in sendNow

-----------------------------------------------------------------------------
(* Where an item is.                                                       *)

\* Jumping the queue and sweeping it keep it without repetitions.
LEMMA QueueDistinct ==
  ASSUME NEW q \in Seq(Ids), Distinct(q)
  PROVE  /\ \A r, s : \A id \in Ids : id \notin ToSet(q) =>
               Distinct(InsertSendNow(q, r, s, id)) /\ Distinct(InsertFallback(q, r, id))
         /\ \A r, drop : Distinct(Sweep(q, r, drop))
<1>1. ASSUME NEW r, NEW s, NEW id \in Ids, id \notin ToSet(q)
      PROVE  Distinct(InsertSendNow(q, r, s, id)) /\ Distinct(InsertFallback(q, r, id))
  <2>1. SendNowSlot(q, r, s) + 1 \in 1..(Len(q) + 1)
    BY SendNowSlotFacts
  <2>2. (IF FrontIs(q, r) THEN 2 ELSE 1) \in 1..(Len(q) + 1)
    BY DEF FrontIs
  <2>3. \A i \in 1..(Len(q) + 1) : Distinct(InsertAt(q, i, id))
    BY <1>1, InsertAtDistinct
  <2> QED BY <2>1, <2>2, <2>3 DEF InsertSendNow, InsertFallback
<1>2. ASSUME NEW r, NEW drop PROVE Distinct(Sweep(q, r, drop))
  BY KeptDistinct DEF Sweep
<1> QED BY <1>1, <1>2

\* An interjection's fallback prompt joins the items of the queue.
LEMMA FallbackItems ==
  ASSUME NEW q \in Seq(Ids), NEW r, NEW id \in Ids
  PROVE  ToSet(InsertFallback(q, r, id)) = ToSet(q) \cup {id}
<1>1. /\ ToSet(InsertSendNow(q, r, {}, id)) = ToSet(q) \cup {id}
      /\ ToSet(InsertFallback(q, r, id)) = ToSet(q) \cup {id}
  BY InsertFacts
<1> QED BY <1>1

\* A place that a step leaves alone holds the same items.
LEMMA PlaceFrames ==
  /\ pending' = pending => Queued' = Queued
  /\ cancel' = cancel => Held' = Held
  /\ buffer' = buffer => Buffered' = Buffered
  /\ flushing' = flushing => Flushed' = Flushed
  /\ reply' = reply => Answered' = Answered
BY DEF Queued, Held, Buffered, Flushed, Answered

\* Resolving respond_to adds to the answered items.
LEMMA AnsweredGrow ==
  ASSUME NEW S, NEW r \in Answers, reply \in [Ids -> Replies], Answer(S, r)
  PROVE  Answered' = Answered \cup (S \cap Ids)
<1>1. r # None
  OBVIOUS
<1> QED BY <1>1 DEF Answer, Answered

\* queue_input moves one item into the queue, and answers those it sweeps.
LEMMA QueueInputPlaces ==
  ASSUME TypeOK, Placed, NEW id \in unsent, NEW requested \in BOOLEAN, QueueInput(id, requested)
  PROVE  /\ unsent' = unsent \ {id} /\ Distinct(pending')
         /\ \E S \in SUBSET Queued : /\ Queued' = S \cup {id} /\ Answered' = Answered \cup (Queued \ S)
                                     /\ running \in Queued => running \in S
<1> DEFINE kept == QueueAfterPreempt(id)
<1>1. pending \in Seq(Ids) /\ Queued \subseteq Ids /\ id \in Ids /\ Distinct(pending)
  BY QueueElements DEF TypeOK, QueueType, EnvType, Queued, Placed
<1>2. kept \in Seq(Ids) /\ ToSet(kept) \subseteq Queued /\ Distinct(kept)
  BY <1>1, SweepFacts, QueueDistinct DEF QueueAfterPreempt, Queued
<1>3. /\ unsent' = unsent \ {id} /\ Answer(Queued \ ToSet(kept), "dropped")
      /\ pending' = IF RunsNext(id, requested) THEN InsertSendNow(kept, running, sendNow, id)
                    ELSE Append(kept, id)
  BY DEF QueueInput, Queued
<1>7. running \in Queued => running \in ToSet(kept)
  BY <1>1, KeptFacts DEF QueueAfterPreempt, Sweep, Queued
<1> HIDE DEF kept
<1>4. id \notin ToSet(kept)
  BY <1>1, <1>2 DEF Placed, OnePlace
<1>5. Queued' = ToSet(kept) \cup {id} /\ Distinct(pending')
  <2>1. CASE RunsNext(id, requested)
    BY <1>1, <1>2, <1>3, <1>4, <2>1, InsertFacts, QueueDistinct DEF Queued
  <2>2. CASE ~RunsNext(id, requested)
    <3>1. ToSet(Append(kept, id)) = ToSet(kept) \cup {id} /\ Distinct(Append(kept, id))
      BY <1>1, <1>2, <1>4, AppendFacts
    <3> QED BY <1>3, <2>2, <3>1 DEF Queued
  <2> QED BY <2>1, <2>2
<1>6. Answered' = Answered \cup (Queued \ ToSet(kept))
  <2>1. "dropped" \in Answers /\ reply \in [Ids -> Replies]
    BY DEF Answers, TypeOK, GhostType
  <2>2. Answered' = Answered \cup ((Queued \ ToSet(kept)) \cap Ids)
    BY <1>3, <2>1, AnsweredGrow
  <2> QED BY <1>1, <2>2
<1> QED BY <1>2, <1>3, <1>5, <1>6, <1>7

\* A step that leaves every place alone keeps Placed, if the handlers' locals
\* are empty afterwards where they must be.
LEMMA PlacesKept ==
  ASSUME Placed, unsent' = unsent, pending' = pending, cancel' = cancel, buffer' = buffer,
         flushing' = flushing, reply' = reply, Locals'
  PROVE  Placed'
<1>1. \A id \in Ids : OnePlace(id)'
  BY PlaceFrames DEF Placed, OnePlace
<1> QED BY <1>1 DEF Placed

\* The first step of a cancel answers the buffered interjections.
LEMMA BeginCancelPlaced ==
  ASSUME TypeOK, Placed, NEW mode \in CancelModes, BeginCancel(mode),
         pc \in {"loop", "cancel"}
  PROVE  Placed'
<1>1. /\ buffer' = <<>> /\ Answer(Buffered, "cleared") /\ pc' = "cancelLock"
      /\ cancel' = [NoCancel EXCEPT !.mode = mode, !.pinned = pin]
      /\ unsent' = unsent /\ pending' = pending /\ flushing' = flushing
  BY DEF BeginCancel, Buffered, queueVars, envVars
<1>2. Held = {} /\ Held' = {} /\ Buffered' = {} /\ cancel'.items = <<>>
  BY <1>1 DEF Held, Buffered, Placed, Locals, ToSet, NoCancel, InCancel
<1>3. Answered' = Answered \cup Buffered
  <2>1. "cleared" \in Answers /\ reply \in [Ids -> Replies] /\ Buffered \subseteq Ids
    BY QueueElements, IdFacts DEF Answers, TypeOK, GhostType, Buffered
  <2>2. Answered' = Answered \cup (Buffered \cap Ids)
    BY <1>1, <2>1, AnsweredGrow
  <2> QED BY <2>1, <2>2
<1>4. Queued' = Queued /\ Flushed' = Flushed
  BY <1>1, PlaceFrames
<1>5. \A id \in Ids : OnePlace(id)'
  BY <1>1, <1>2, <1>3, <1>4 DEF Placed, OnePlace
<1>6. Locals'
  <2>1. flushing = <<>> \/ pc = "flush"
    BY DEF Placed, Locals
  <2>2. flushing = <<>>
    BY <2>1
  <2> QED BY <1>1, <1>2, <2>2 DEF Locals
<1>7. Distinct(pending') /\ Distinct(buffer') /\ Distinct(flushing')
  BY <1>1 DEF Placed, Distinct
<1> QED BY <1>5, <1>6, <1>7 DEF Placed

\* Submitting the items U and answering the queued items D, in one step.
LEMMA QueueStepPlaced ==
  ASSUME Placed, cancel' = cancel, buffer' = buffer, flushing' = flushing, Distinct(pending'),
         (cancel.items = <<>> /\ flushing = <<>>) \/ pc' = pc,
         NEW U \in SUBSET unsent, NEW D \in SUBSET Queued, unsent' = unsent \ U,
         Queued' = (Queued \ D) \cup U, Answered' = Answered \cup D
  PROVE  Placed'
<1>1. Held' = Held /\ Buffered' = Buffered /\ Flushed' = Flushed
  BY PlaceFrames
<1>2. \A id \in Ids : OnePlace(id)'
  BY <1>1 DEF Placed, OnePlace
<1>3. Locals'
  BY DEF Locals, Placed, InCancel
<1> QED BY <1>2, <1>3 DEF Placed

\* At the select! loop the handlers' locals are empty.
LEMMA LoopLocals ==
  ASSUME Placed, pc \notin {"flush", "cancelGate", "cancelAbort", "cancelEnd"}
  PROVE  cancel.items = <<>> /\ flushing = <<>>
BY DEF Placed, Locals, InCancel

\* The queue holds ids, each once.
LEMMA QueueFacts ==
  ASSUME TypeOK, Placed
  PROVE  /\ pending \in Seq(Ids) /\ Queued = ToSet(pending) /\ Queued \subseteq Ids
         /\ Distinct(pending) /\ unsent \subseteq Ids /\ unsent \cap Queued = {}
         /\ reply \in [Ids -> Replies]
<1>1. pending \in Seq(Ids) /\ Queued = ToSet(pending) /\ Queued \subseteq Ids
  BY QueueElements DEF TypeOK, QueueType, Queued
<1>2. Distinct(pending) /\ unsent \subseteq Ids /\ reply \in [Ids -> Replies]
  BY DEF Placed, TypeOK, EnvType, GhostType
<1>3. unsent \cap Queued = {}
  BY <1>2 DEF Placed, OnePlace
<1> QED BY <1>1, <1>2, <1>3

\* Every answer is one.
LEMMA AnswerTags ==
  {"done", "cancelled", "removed", "rewound", "dropped", "merged", "cleared"} \subseteq Answers
BY DEF Answers

\* An order a client asks for names every prompt once.
LEMMA OrderDistinct == \A order \in Orders : order \in Seq(Ids) /\ Distinct(order)
<1> SUFFICES ASSUME NEW order \in Orders PROVE Distinct(order)
  BY OrderType
<1>1. PICK n \in 0..Cardinality(UserPrompts) :
         /\ order \in [1..n -> UserPrompts]
         /\ \A i, j \in 1..n : order[i] = order[j] => i = j
  BY Zenon DEF Orders
<1> QED BY <1>1 DEF Distinct

\* A command handler leaves every item in one place.
LEMMA CommandPlaced == TypeOK /\ Placed /\ Command => Placed'
<1> SUFFICES ASSUME TypeOK, Placed, Command PROVE Placed'
  OBVIOUS
<1>0. /\ pending \in Seq(Ids) /\ Queued = ToSet(pending) /\ Queued \subseteq Ids
      /\ Distinct(pending) /\ unsent \subseteq Ids /\ unsent \cap Queued = {}
      /\ reply \in [Ids -> Replies]
  BY QueueFacts
<1>1. ASSUME NEW id \in Ids, NEW requested \in BOOLEAN, Prompt(id, requested) PROVE Placed'
  <2>1. /\ pc = "loop" /\ id \in unsent /\ QueueInput(id, requested) /\ cancel' = cancel
        /\ buffer' = buffer /\ flushing' = flushing
    BY <1>1 DEF Prompt, AtSelect, actorVars
  <2>2. /\ unsent' = unsent \ {id} /\ Distinct(pending')
        /\ \E S \in SUBSET Queued : Queued' = S \cup {id} /\ Answered' = Answered \cup (Queued \ S)
    BY <2>1, QueueInputPlaces
  <2>3. PICK S \in SUBSET Queued : Queued' = S \cup {id} /\ Answered' = Answered \cup (Queued \ S)
    BY <2>2
  <2>4. Queued' = (Queued \ (Queued \ S)) \cup {id} /\ {id} \subseteq unsent
    BY <2>1, <2>3
  <2> QED BY <2>1, <2>2, <2>3, <2>4, LoopLocals, QueueStepPlaced
<1>2. ASSUME NEW id \in UserPrompts, NEW c \in Clients \cup {None}, RemoveQueued(id, c)
      PROVE  Placed'
  <2>1. /\ pc = "loop" /\ id \in Queued /\ pending' = Kept(pending, Ids \ {id})
        /\ Answer({id}, "removed") /\ cancel' = cancel /\ buffer' = buffer /\ flushing' = flushing
        /\ unsent' = unsent
    BY <1>2 DEF RemoveQueued, AtSelect, Queued, actorVars
  <2>2. Queued' = Queued \cap (Ids \ {id}) /\ Distinct(pending')
    BY <1>0, <2>1, KeptFacts, KeptDistinct DEF Queued
  <2>3. Answered' = Answered \cup ({id} \cap Ids)
    BY <1>0, <2>1, AnswerTags, AnsweredGrow
  <2>4. Queued' = (Queued \ {id}) \cup {} /\ Answered' = Answered \cup {id} /\ unsent' = unsent \ {}
    BY <1>0, <2>1, <2>2, <2>3
  <2> QED BY <2>1, <2>2, <2>4, LoopLocals, QueueStepPlaced
<1>3. ASSUME NEW id \in UserPrompts, NEW c \in Clients \cup {None}, InterjectQueued(id, c)
      PROVE  Placed'
  <2> DEFINE kept == Kept(pending, Ids \ {id})
  <2>1. /\ pc = "loop" /\ id \in Queued /\ id \in Ids
        /\ pending' = InsertSendNow(kept, running, sendNow, id)
        /\ cancel' = cancel /\ buffer' = buffer /\ flushing' = flushing
        /\ unsent' = unsent /\ reply' = reply
    BY <1>3, IdFacts DEF InterjectQueued, AtSelect, Queued, actorVars, ghostVars
  <2>2. kept \in Seq(Ids) /\ ToSet(kept) = Queued \cap (Ids \ {id}) /\ Distinct(kept)
    BY <1>0, KeptFacts, KeptDistinct
  <2> HIDE DEF kept
  <2>3. ToSet(pending') = ToSet(kept) \cup {id}
    BY <2>1, <2>2, InsertFacts
  <2>4. Distinct(pending')
    BY <2>1, <2>2, QueueDistinct
  <2>5. /\ Queued' = (Queued \ {}) \cup {} /\ Answered' = Answered \cup {} /\ unsent' = unsent \ {}
        /\ {} \in SUBSET Queued /\ {} \in SUBSET unsent
    BY <1>0, <2>1, <2>2, <2>3, PlaceFrames DEF Queued
  <2> QED BY <2>1, <2>4, <2>5, LoopLocals, QueueStepPlaced
<1>4. ASSUME NEW c \in Clients \cup {None}, ClearQueue(c) PROVE Placed'
  <2> DEFINE mine == {u \in ToSet(pending) \cap UserPrompts : c \in {None, Owner[u]}}
  <2>1. /\ pc = "loop" /\ pending' = Sweep(pending, running, mine)
        /\ Answer(mine \ {running}, "removed") /\ cancel' = cancel /\ buffer' = buffer
        /\ flushing' = flushing /\ unsent' = unsent
    BY <1>4 DEF ClearQueue, AtSelect, actorVars
  <2>2. mine \subseteq Queued
    BY <1>0
  <2> HIDE DEF mine
  <2>3. Queued' = Queued \cap ((Queued \ mine) \cup {running})
    BY <1>0, <2>1, KeptFacts DEF Queued, Sweep
  <2>4. Distinct(pending')
    BY <1>0, <2>1, QueueDistinct
  <2>5. Answered' = Answered \cup ((mine \ {running}) \cap Ids)
    BY <1>0, <2>1, AnswerTags, AnsweredGrow
  <2>6. /\ Queued' = (Queued \ (mine \ {running})) \cup {} /\ unsent' = unsent \ {}
        /\ Answered' = Answered \cup (mine \ {running})
    BY <1>0, <2>1, <2>2, <2>3, <2>5
  <2> QED BY <2>1, <2>2, <2>4, <2>6, LoopLocals, QueueStepPlaced
<1>5. ASSUME NEW order \in Orders, ReorderQueue(order) PROVE Placed'
  <2>1. /\ pc = "loop" /\ pending' = Reordered(pending, running, UserPrompts, order)
        /\ cancel' = cancel /\ buffer' = buffer /\ flushing' = flushing
        /\ unsent' = unsent /\ reply' = reply
    BY <1>5 DEF ReorderQueue, AtSelect, actorVars, ghostVars
  <2>2. order \in Seq(Ids) /\ Distinct(order)
    BY OrderDistinct
  <2>3. ToSet(pending') = Queued /\ Distinct(pending')
    BY <1>0, <2>1, <2>2, ReorderedItems
  <2>4. /\ Queued' = (Queued \ {}) \cup {} /\ Answered' = Answered \cup {} /\ unsent' = unsent \ {}
        /\ {} \in SUBSET Queued /\ {} \in SUBSET unsent
    BY <2>1, <2>3, PlaceFrames DEF Queued
  <2> QED BY <2>1, <2>3, <2>4, LoopLocals, QueueStepPlaced
<1>6. ASSUME NEW i \in Interjections, Interject(i) PROVE Placed'
  <2>1. /\ pc = "loop" /\ i \in unsent /\ unsent' = unsent \ {i} /\ i \in Ids
        /\ cancel' = cancel /\ flushing' = flushing /\ reply' = reply
    BY <1>6, IdFacts DEF Interject, AtSelect, actorVars, ghostVars
  <2>2. CASE pin # None
    <3>1. buffer' = Append(buffer, i) /\ pending' = pending
      BY <1>6, <2>2 DEF Interject
    <3>2. buffer \in Seq(Interjections) /\ i \notin Buffered /\ Distinct(buffer)
      BY <2>1 DEF TypeOK, Placed, OnePlace
    <3>3. Buffered' = Buffered \cup {i} /\ Distinct(buffer')
      BY <3>1, <3>2, AppendFacts DEF Buffered
    <3>4. /\ Queued' = Queued /\ Held' = Held /\ Flushed' = Flushed /\ Answered' = Answered
      BY <2>1, <3>1, PlaceFrames
    <3>5. \A id \in Ids : OnePlace(id)'
      BY <2>1, <3>3, <3>4 DEF Placed, OnePlace
    <3>6. Locals'
      BY <2>1, LoopLocals DEF Locals
    <3> QED BY <2>1, <3>1, <3>3, <3>5, <3>6 DEF Placed
  <2>3. CASE pin = None
    <3>1. buffer' = buffer /\ pending' = InsertFallback(pending, running, i)
      BY <1>6, <2>3 DEF Interject
    <3>2. ToSet(pending') = Queued \cup {i}
      <4>1. ToSet(InsertFallback(pending, running, i)) = ToSet(pending) \cup {i}
        BY <1>0, <2>1, FallbackItems
      <4> QED BY <1>0, <3>1, <4>1
    <3>3. Distinct(pending')
      BY <1>0, <2>1, <3>1, QueueDistinct
    <3>4. /\ Queued' = (Queued \ {}) \cup {i} /\ Answered' = Answered \cup {}
          /\ {} \in SUBSET Queued /\ {i} \in SUBSET unsent
      BY <2>1, <3>2, PlaceFrames DEF Queued
    <3> QED BY <2>1, <3>1, <3>3, <3>4, LoopLocals, QueueStepPlaced
  <2> QED BY <2>2, <2>3
<1>7. ASSUME NEW g \in GoalPrompts, GoalSummary(g) PROVE Placed'
  <2>1. /\ pc = "loop" /\ g \in unsent /\ unsent' = unsent \ {g} /\ g \in Ids
        /\ pending' = Append(pending, g) /\ buffer' = buffer
        /\ cancel' = cancel /\ flushing' = flushing /\ reply' = reply
    BY <1>7, IdFacts DEF GoalSummary, AtSelect, actorVars, ghostVars
  <2>2. ToSet(pending') = Queued \cup {g} /\ Distinct(pending')
    BY <1>0, <2>1, AppendFacts
  <2>3. /\ Queued' = (Queued \ {}) \cup {g} /\ Answered' = Answered \cup {}
        /\ {} \in SUBSET Queued /\ {g} \in SUBSET unsent
    BY <2>1, <2>2, PlaceFrames DEF Queued
  <2> QED BY <2>1, <2>2, <2>3, LoopLocals, QueueStepPlaced
<1>8. ASSUME NEW mode \in CancelModes, CancelCommand(mode) PROVE Placed'
  BY <1>8, BeginCancelPlaced DEF CancelCommand, AtSelect
<1>9. CASE InjectNotification
  <2>1. /\ pc = "loop" /\ unsent' = unsent /\ pending' = pending /\ cancel' = cancel
        /\ buffer' = buffer /\ flushing' = flushing /\ reply' = reply
    BY <1>9 DEF InjectNotification, AtSelect, queueVars, envVars, actorVars, ghostVars
  <2>2. Locals'
    BY <2>1, LoopLocals DEF Locals
  <2> QED BY <2>1, <2>2, PlacesKept
<1>10. CASE Shutdown
  <2>1. /\ pc = "loop" /\ pending' = Kept(pending, Ids \ Synthetic)
        /\ Answer(Queued \cap Synthetic, "dropped") /\ cancel' = cancel /\ buffer' = buffer
        /\ flushing' = flushing /\ unsent' = unsent
    BY <1>10 DEF Shutdown, AtSelect, Queued, actorVars, envVars
  <2>2. Queued' = Queued \cap (Ids \ Synthetic) /\ Distinct(pending')
    BY <1>0, <2>1, KeptFacts, KeptDistinct DEF Queued
  <2>3. Answered' = Answered \cup ((Queued \cap Synthetic) \cap Ids)
    BY <1>0, <2>1, AnswerTags, AnsweredGrow
  <2>4. /\ Queued' = (Queued \ (Queued \cap Synthetic)) \cup {} /\ unsent' = unsent \ {}
        /\ Answered' = Answered \cup (Queued \cap Synthetic)
    BY <1>0, <2>1, <2>2, <2>3
  <2> QED BY <2>1, <2>2, <2>4, LoopLocals, QueueStepPlaced
<1> QED BY <1>1, <1>2, <1>3, <1>4, <1>5, <1>6, <1>7, <1>8, <1>9, <1>10 DEF Command

\* The section of a cancel under the lock moves the front, or the whole queue,
\* out of the queue.
LEMMA CancelTakes ==
  ASSUME TypeOK, Placed, CancelLock
  PROVE  /\ Distinct(pending') /\ Queued' \cap Held' = {} /\ Queued' \cup Held' = Queued
         /\ pending # <<>> => Head(pending) \in Held'
<1>0. pending \in Seq(Ids) /\ Queued = ToSet(pending) /\ Distinct(pending)
  BY QueueFacts
<1>1. CASE pending # <<>> /\ (CancelRewinds \/ cancel.mode # "kill")
  <2>1. pending' = Tail(pending) /\ cancel'.items = <<Head(pending)>>
    <3>1. CASE CancelRewinds
      BY <3>1 DEF CancelLock, TypeOK, ActorType, CancelRecords
    <3>2. CASE ~CancelRewinds
      BY <1>1, <3>2 DEF CancelLock, CancelledItems, QueueAfterCancel, TypeOK, ActorType,
         CancelRecords
    <3> QED BY <3>1, <3>2
  <2>2. Held' = {Head(pending)}
    BY <2>1 DEF Held, ToSet
  <2>3. /\ Distinct(Tail(pending)) /\ Head(pending) \in Queued
        /\ ToSet(Tail(pending)) = Queued \ {Head(pending)}
    BY <1>0, <1>1, TailFacts
  <2> QED BY <2>1, <2>2, <2>3 DEF Queued
<1>2. CASE ~(pending # <<>> /\ (CancelRewinds \/ cancel.mode # "kill"))
  <2>1. ~CancelRewinds
    BY <1>2 DEF CancelRewinds
  <2>2. pending' = <<>> /\ cancel'.items = pending
    BY <1>2, <2>1 DEF CancelLock, CancelledItems, QueueAfterCancel, TypeOK, ActorType,
       CancelRecords
  <2>3. Held' = Queued /\ Queued' = {} /\ Distinct(pending')
    BY <1>0, <2>2 DEF Held, Queued, ToSet, Distinct
  <2>4. pending # <<>> => Head(pending) \in Queued
    BY <1>0, TailFacts
  <2> QED BY <2>3, <2>4
<1> QED BY <1>1, <1>2

\* The actor's own steps leave every item in one place: a cancel takes items out
\* of the queue and holds them until it answers, a completion answers the front,
\* a flush moves interjections from the buffer to the queue.
LEMMA ActorStepPlaced == TypeOK /\ Placed /\ ActorStep => Placed'
<1> SUFFICES ASSUME TypeOK, Placed, ActorStep PROVE Placed'
  OBVIOUS
<1>0. /\ pending \in Seq(Ids) /\ Queued = ToSet(pending) /\ Queued \subseteq Ids
      /\ Distinct(pending) /\ unsent \subseteq Ids /\ unsent \cap Queued = {}
      /\ reply \in [Ids -> Replies]
  BY QueueFacts
<1>1. ASSUME Start \/ StartAfterTurn PROVE Placed'
  <2>1. /\ pc \in {"start", "startAfterTurn"} /\ unsent' = unsent /\ pending' = pending
        /\ cancel' = cancel /\ buffer' = buffer /\ flushing' = flushing /\ reply' = reply
    BY <1>1 DEF Start, StartAfterTurn, envVars, actorVars, ghostVars
  <2>2. Locals'
    BY <2>1, LoopLocals DEF Locals
  <2> QED BY <2>1, <2>2, PlacesKept
<1>2. CASE CancelForSendNow
  BY <1>2, BeginCancelPlaced, Tags DEF CancelForSendNow
<1>3. CASE CancelLock
  <2>1. /\ pc = "cancelLock" /\ pc' = "cancelGate" /\ unsent' = unsent /\ buffer' = buffer
        /\ flushing' = flushing /\ reply' = reply
    BY <1>3 DEF CancelLock, envVars, ghostVars
  <2>2. Held = {} /\ flushing = <<>>
    BY <2>1, LoopLocals DEF Held, ToSet
  <2>3. Distinct(pending') /\ Queued' \cap Held' = {} /\ Queued' \cup Held' = Queued
    BY <1>3, CancelTakes
  <2>4. Buffered' = Buffered /\ Flushed' = Flushed /\ Answered' = Answered
    BY <2>1, PlaceFrames
  <2>5. \A id \in Ids : OnePlace(id)'
    BY <2>1, <2>2, <2>3, <2>4 DEF Placed, OnePlace
  <2>6. Locals'
    BY <2>1, <2>2 DEF Locals, InCancel
  <2> QED BY <2>1, <2>3, <2>5, <2>6 DEF Placed
<1>4. ASSUME CancelGate \/ CancelAbort PROVE Placed'
  <2>1. /\ pc \in {"cancelGate", "cancelAbort"} /\ pc' \in {"cancelAbort", "cancelEnd"}
        /\ unsent' = unsent /\ pending' = pending
        /\ cancel' = cancel /\ buffer' = buffer /\ flushing' = flushing /\ reply' = reply
    BY <1>4 DEF CancelGate, CancelAbort, queueVars, envVars, actorVars, ghostVars
  <2>2. Locals'
    BY <2>1 DEF Locals, Placed, InCancel
  <2> QED BY <2>1, <2>2, PlacesKept
<1>5. CASE CancelEnd
  <2>1. /\ pc = "cancelEnd" /\ cancel' = NoCancel /\ pending' = pending /\ unsent' = unsent
        /\ buffer' = buffer /\ flushing' = flushing
        /\ Answer(Held, IF cancel.rewound THEN "rewound" ELSE "cancelled")
    BY <1>5 DEF CancelEnd, Held, envVars
  <2>2. Held' = {} /\ cancel'.items = <<>>
    BY <2>1 DEF Held, NoCancel, ToSet
  <2>3. Held \subseteq Ids
    BY QueueElements DEF Held, TypeOK, ActorType, CancelRecords
  <2>4. Answered' = Answered \cup (Held \cap Ids)
    BY <1>0, <2>1, AnswerTags, AnsweredGrow
  <2>5. Queued' = Queued /\ Buffered' = Buffered /\ Flushed' = Flushed
    BY <2>1, PlaceFrames
  <2>6. \A id \in Ids : OnePlace(id)'
    BY <2>1, <2>2, <2>3, <2>4, <2>5 DEF Placed, OnePlace
  <2>7. Locals'
    BY <2>1, <2>2 DEF Locals, Placed
  <2> QED BY <2>1, <2>6, <2>7 DEF Placed
<1>6. ASSUME TakeCompletion \/ CompletionGate PROVE Placed'
  <2>1. /\ pc \in {"loop", "completionGate"} /\ unsent' = unsent /\ pending' = pending
        /\ cancel' = cancel /\ buffer' = buffer /\ flushing' = flushing /\ reply' = reply
    BY <1>6 DEF TakeCompletion, CompletionGate, queueVars, envVars, actorVars, ghostVars
  <2>2. Locals'
    BY <2>1, LoopLocals DEF Locals
  <2> QED BY <2>1, <2>2, PlacesKept
<1>7. CASE CompletionLock
  <2>1. /\ pc = "completionLock" /\ cancel' = cancel /\ buffer' = buffer /\ flushing' = flushing
        /\ unsent' = unsent
        /\ Answer(IF CompletionOwned THEN {completing} ELSE {}, "done")
        /\ pending' = IF CompletionOwned THEN Tail(pending) ELSE pending
    BY <1>7 DEF CompletionLock, envVars
  <2>2. CASE CompletionOwned
    <3>1. pending # <<>> /\ Head(pending) = completing
      BY <2>2 DEF CompletionOwned, FrontIs
    <3>2. /\ Distinct(Tail(pending)) /\ completing \in Queued
          /\ ToSet(Tail(pending)) = Queued \ {completing}
      BY <1>0, <3>1, TailFacts
    <3>3. Answered' = Answered \cup ({completing} \cap Ids)
      BY <1>0, <2>1, <2>2, AnswerTags, AnsweredGrow
    <3>4. /\ Queued' = (Queued \ {completing}) \cup {} /\ unsent' = unsent \ {}
          /\ Answered' = Answered \cup {completing} /\ Distinct(pending')
      BY <1>0, <2>1, <2>2, <3>2, <3>3 DEF Queued
    <3> QED BY <2>1, <3>2, <3>4, LoopLocals, QueueStepPlaced
  <2>3. CASE ~CompletionOwned
    <3>1. Answered' = Answered \cup ({} \cap Ids)
      BY <1>0, <2>1, <2>3, AnswerTags, AnsweredGrow
    <3>2. /\ Queued' = (Queued \ {}) \cup {} /\ Answered' = Answered \cup {} /\ unsent' = unsent \ {}
          /\ {} \in SUBSET Queued /\ {} \in SUBSET unsent /\ Distinct(pending')
      BY <1>0, <2>1, <2>3, <3>1 DEF Queued
    <3> QED BY <2>1, <3>2, LoopLocals, QueueStepPlaced
  <2> QED BY <2>2, <2>3
<1>8. ASSUME TurnEnd \/ Drain PROVE Placed'
  <2>1. /\ pc \in {"turnEnd", "drain"} /\ cancel' = cancel /\ buffer' = buffer
        /\ flushing' = flushing /\ reply' = reply
        /\ \/ unsent' = unsent /\ pending' = pending
           \/ \E g \in unsent : unsent' = unsent \ {g} /\ pending' = Append(pending, g)
    BY <1>8 DEF TurnEnd, Drain, actorVars, ghostVars
  <2>2. CASE unsent' = unsent /\ pending' = pending
    <3>1. Locals'
      BY <2>1, LoopLocals DEF Locals
    <3> QED BY <2>1, <2>2, <3>1, PlacesKept
  <2>3. ASSUME NEW g \in unsent, unsent' = unsent \ {g}, pending' = Append(pending, g) PROVE Placed'
    <3>1. ToSet(pending') = Queued \cup {g} /\ Distinct(pending')
      BY <1>0, <2>3, AppendFacts
    <3>2. /\ Queued' = (Queued \ {}) \cup {g} /\ Answered' = Answered \cup {}
          /\ {} \in SUBSET Queued /\ {g} \in SUBSET unsent
      BY <2>1, <3>1, PlaceFrames DEF Queued
    <3> QED BY <2>1, <2>3, <3>1, <3>2, LoopLocals, QueueStepPlaced
  <2> QED BY <2>1, <2>2, <2>3
<1>9. CASE Strand
  <2>1. /\ pc = "strand" /\ flushing' = buffer /\ buffer' = <<>> /\ cancel' = cancel
        /\ pc' = (IF buffer = <<>> THEN "startAfterTurn" ELSE "flush")
        /\ unsent' = unsent /\ pending' = pending /\ reply' = reply
    BY <1>9 DEF Strand, queueVars, envVars, ghostVars
  <2>2. /\ Flushed = {} /\ Flushed' = Buffered /\ Buffered' = {} /\ cancel.items = <<>>
        /\ Distinct(buffer') /\ Distinct(flushing')
    BY <2>1, LoopLocals DEF Flushed, Buffered, ToSet, Distinct, Placed
  <2>3. Queued' = Queued /\ Held' = Held /\ Answered' = Answered
    BY <2>1, PlaceFrames
  <2>4. \A id \in Ids : OnePlace(id)'
    BY <2>1, <2>2, <2>3 DEF Placed, OnePlace
  <2>5. Locals'
    BY <2>1, <2>2 DEF Locals
  <2> QED BY <1>0, <2>1, <2>2, <2>4, <2>5 DEF Placed
<1>10. CASE Flush
  <2> DEFINE i == flushing[Len(flushing)]
  <2>1. /\ pc = "flush" /\ flushing # <<>> /\ pending' = InsertFallback(pending, running, i)
        /\ flushing' = SubSeq(flushing, 1, Len(flushing) - 1)
        /\ pc' = (IF Len(flushing) = 1 THEN "startAfterTurn" ELSE "flush")
        /\ unsent' = unsent /\ buffer' = buffer /\ cancel' = cancel /\ reply' = reply
    BY <1>10 DEF Flush, envVars, ghostVars
  <2>2. /\ flushing \in Seq(Interjections) /\ Distinct(flushing) /\ cancel.items = <<>>
    BY <2>1 DEF TypeOK, ActorType, Placed, Locals, InCancel
  <2>3. /\ Distinct(flushing') /\ i \in Flushed /\ Flushed' = Flushed \ {i}
    BY <2>1, <2>2, ButLastFacts DEF Flushed
  <2>4. i \in Ids /\ Flushed \subseteq Ids
    BY <2>2, <2>3, IdFacts, QueueElements DEF Flushed
  <2>5. Len(flushing) = 1 => flushing' = <<>>
    BY <2>1, <2>2
  <2> HIDE DEF i
  <2>6. i \notin Queued
    BY <2>3, <2>4 DEF Placed, OnePlace
  <2>7. ToSet(InsertFallback(pending, running, i)) = ToSet(pending) \cup {i}
    BY <1>0, <2>4, FallbackItems
  <2>8. Distinct(pending')
    BY <1>0, <2>1, <2>4, <2>6, QueueDistinct
  <2>9. Queued' = Queued \cup {i}
    BY <1>0, <2>1, <2>7 DEF Queued
  <2>10. Buffered' = Buffered /\ Held' = Held /\ Answered' = Answered
    BY <2>1, PlaceFrames
  <2>11. \A id \in Ids : OnePlace(id)'
    BY <2>1, <2>3, <2>6, <2>9, <2>10 DEF Placed, OnePlace
  <2>12. Locals'
    BY <2>1, <2>2, <2>5 DEF Locals
  <2> QED BY <2>1, <2>3, <2>8, <2>11, <2>12 DEF Placed
<1> QED BY <1>1, <1>2, <1>3, <1>4, <1>5, <1>6, <1>7, <1>8, <1>9, <1>10 DEF ActorStep

\* A turn's steps and the detached tasks leave every item in one place.
LEMMA TaskStepPlaced ==
  ASSUME TypeOK, Placed, (\E id \in Ids : TurnStep(id)) \/ DetachedStep
  PROVE  Placed'
<1>0. /\ pending \in Seq(Ids) /\ Queued = ToSet(pending) /\ Queued \subseteq Ids
      /\ Distinct(pending) /\ unsent \subseteq Ids /\ unsent \cap Queued = {}
      /\ reply \in [Ids -> Replies]
  BY QueueFacts
<1>1. ASSUME NEW id \in Ids, NEW w \in WakePrompts, TurnConsumesCompletion(id, w) PROVE Placed'
  <2>1. /\ pending' = Sweep(pending, running, {w}) /\ Answer(Queued \ ToSet(pending'), "dropped")
        /\ cancel' = cancel /\ buffer' = buffer /\ flushing' = flushing /\ unsent' = unsent
        /\ pc' = pc
    BY <1>1 DEF TurnConsumesCompletion, Queued, envVars, actorVars
  <2>2. Queued' \subseteq Queued /\ Queued' = ToSet(pending')
    BY <1>0, <2>1, SweepFacts DEF Queued
  <2>3. Distinct(pending')
    BY <1>0, <2>1, QueueDistinct
  <2> DEFINE D == Queued \ Queued'
  <2>4. Answered' = Answered \cup (D \cap Ids)
    BY <1>0, <2>1, <2>2, AnswerTags, AnsweredGrow
  <2>5. /\ Queued' = (Queued \ D) \cup {} /\ Answered' = Answered \cup D /\ unsent' = unsent \ {}
        /\ D \subseteq Queued
    BY <1>0, <2>1, <2>2, <2>4
  <2> HIDE DEF D
  <2> QED BY <2>1, <2>3, <2>5, QueueStepPlaced
<1>2. ASSUME NEW id \in Ids, TurnMergesInterjections(id) PROVE Placed'
  <2>1. /\ buffer' = <<>> /\ Answer(Buffered, "merged") /\ pending' = pending
        /\ cancel' = cancel /\ flushing' = flushing /\ unsent' = unsent /\ pc' = pc
    BY <1>2 DEF TurnMergesInterjections, Buffered, queueVars, envVars, actorVars
  <2>2. Buffered \subseteq Ids /\ Buffered' = {} /\ Distinct(buffer')
    BY <2>1, QueueElements, IdFacts DEF TypeOK, Buffered, ToSet, Distinct
  <2>3. Answered' = Answered \cup (Buffered \cap Ids)
    BY <1>0, <2>1, AnswerTags, AnsweredGrow
  <2>4. Queued' = Queued /\ Held' = Held /\ Flushed' = Flushed
    BY <2>1, PlaceFrames
  <2>5. \A i \in Ids : OnePlace(i)'
    BY <2>1, <2>2, <2>3, <2>4 DEF Placed, OnePlace
  <2>6. Locals'
    BY <2>1 DEF Locals, Placed, InCancel
  <2> QED BY <1>0, <2>1, <2>2, <2>5, <2>6 DEF Placed
<1>3. ASSUME NEW p \in PlanPrompts, PlanResume(p) PROVE Placed'
  <2>1. /\ p \in unsent /\ QueueInput(p, FALSE) /\ cancel' = cancel
        /\ buffer' = buffer /\ flushing' = flushing /\ pc' = pc
    BY <1>3 DEF PlanResume, actorVars
  <2>2. /\ unsent' = unsent \ {p} /\ Distinct(pending')
        /\ \E S \in SUBSET Queued : Queued' = S \cup {p} /\ Answered' = Answered \cup (Queued \ S)
    BY <2>1, QueueInputPlaces
  <2>3. PICK S \in SUBSET Queued : Queued' = S \cup {p} /\ Answered' = Answered \cup (Queued \ S)
    BY <2>2
  <2>4. Queued' = (Queued \ (Queued \ S)) \cup {p} /\ {p} \subseteq unsent
    BY <2>1, <2>3
  <2> QED BY <2>1, <2>2, <2>3, <2>4, QueueStepPlaced
<1>4. ASSUME unsent' = unsent, pending' = pending, cancel' = cancel, buffer' = buffer,
             flushing' = flushing, reply' = reply, pc' = pc
      PROVE  Placed'
  <2>1. Locals'
    BY <1>4 DEF Locals, Placed, InCancel
  <2> QED BY <1>4, <2>1, PlacesKept
<1>5. ASSUME NEW id \in Ids, TurnStep(id),
             ~TurnMergesInterjections(id), ~\E w \in WakePrompts : TurnConsumesCompletion(id, w)
      PROVE  Placed'
  BY <1>4, <1>5 DEF TurnStep, TurnOutput, TurnGoalRound, TurnEntersWait, DropWaitGuard,
     TurnUnpins, TurnFinishes, TurnReturnsEarly, DropAborted, queueVars, envVars, actorVars,
     ghostVars
<1>6. CASE McpInitialized
  BY <1>4, <1>6 DEF McpInitialized, actorVars, ghostVars
<1>7. ASSUME NEW p \in PlanPrompts, PlanStart(p) PROVE Placed'
  BY <1>4, <1>7 DEF PlanStart, actorVars, ghostVars
<1> QED BY <1>1, <1>2, <1>3, <1>5, <1>6, <1>7 DEF DetachedStep

\* Every step leaves every item in one place.
LEMMA PlacedInvariant == Spec => []Placed
<1>1. Init => Placed
  <2> SUFFICES ASSUME Init PROVE Placed
    OBVIOUS
  <2>1. /\ Queued = {} /\ Held = {} /\ Buffered = {} /\ Flushed = {} /\ Answered = {}
        /\ unsent = Ids
    BY DEF Init, NoCancel, Queued, Held, Buffered, Flushed, Answered, ToSet
  <2>2. Locals /\ Distinct(pending) /\ Distinct(buffer) /\ Distinct(flushing)
    BY DEF Init, NoCancel, Locals, Distinct
  <2> QED BY <2>1, <2>2 DEF Placed, OnePlace
<1>2. TypeOK /\ Placed /\ [Next]_vars => Placed'
  <2> SUFFICES ASSUME TypeOK, Placed, [Next]_vars PROVE Placed'
    OBVIOUS
  <2>1. CASE UNCHANGED vars
    <3>1. Locals'
      BY <2>1 DEF Locals, Placed, InCancel, vars
    <3> QED BY <2>1, <3>1, PlacesKept DEF vars
  <2>2. CASE Parked
    BY <2>1, <2>2 DEF Parked
  <2> QED BY <2>1, <2>2, CommandPlaced, ActorStepPlaced, TaskStepPlaced DEF Next
<1> QED BY <1>1, <1>2, TypeCorrect, PTL DEF Spec

\* Every submitted item is queued once, held by a cancel, buffered, being flushed
\* or answered, and in one of these only, whatever the actor, the turns and the
\* detached tasks do: no prompt is lost, and none is answered and run as well.
THEOREM ItemsHaveOnePlace == Spec => []ExactlyOnePlace
<1>1. TypeOK /\ Placed => ExactlyOnePlace
  <2> SUFFICES ASSUME TypeOK, Placed PROVE ExactlyOnePlace
    OBVIOUS
  <2>1. ASSUME NEW id \in Ids
        PROVE  /\ id \in unsent => Places(id) = {}
               /\ id \notin unsent => \E p : Places(id) = {p}
    <3>1. OnePlace(id)
      BY DEF Placed
    <3>2. /\ id \in ToSet(pending) <=> id \in Queued
          /\ id \in ToSet(cancel.items) <=> id \in Held
          /\ id \in ToSet(buffer) <=> id \in Buffered
          /\ id \in ToSet(flushing) <=> id \in Flushed
          /\ reply[id] # None <=> id \in Answered
      BY DEF Queued, Held, Buffered, Flushed, Answered
    <3>3. Places(id) = {p \in {"queued", "held", "buffered", "flushing", "answered"} :
                          \/ p = "queued" /\ id \in Queued
                          \/ p = "held" /\ id \in Held
                          \/ p = "buffered" /\ id \in Buffered
                          \/ p = "flushing" /\ id \in Flushed
                          \/ p = "answered" /\ id \in Answered}
      BY <3>2 DEF Places
    <3>4. CASE id \in unsent
      BY <3>1, <3>3, <3>4 DEF OnePlace
    <3>5. CASE id \in Queued
      <4>1. Places(id) = {"queued"}
        BY <3>1, <3>3, <3>5 DEF OnePlace
      <4> QED BY <3>1, <3>5, <4>1 DEF OnePlace
    <3>6. CASE id \in Held
      <4>1. Places(id) = {"held"}
        BY <3>1, <3>3, <3>6 DEF OnePlace
      <4> QED BY <3>1, <3>6, <4>1 DEF OnePlace
    <3>7. CASE id \in Buffered
      <4>1. Places(id) = {"buffered"}
        BY <3>1, <3>3, <3>7 DEF OnePlace
      <4> QED BY <3>1, <3>7, <4>1 DEF OnePlace
    <3>8. CASE id \in Flushed
      <4>1. Places(id) = {"flushing"}
        BY <3>1, <3>3, <3>8 DEF OnePlace
      <4> QED BY <3>1, <3>8, <4>1 DEF OnePlace
    <3>9. CASE id \in Answered
      <4>1. Places(id) = {"answered"}
        BY <3>1, <3>3, <3>9 DEF OnePlace
      <4> QED BY <3>1, <3>9, <4>1 DEF OnePlace
    <3> QED BY <3>1, <3>4, <3>5, <3>6, <3>7, <3>8, <3>9 DEF OnePlace
  <2>2. ASSUME NEW id \in Ids \ unsent PROVE Cardinality(Places(id)) = 1
    <3>1. PICK p : Places(id) = {p}
      BY <2>1
    <3> QED BY <3>1, FS_Singleton
  <2>3. unsent \subseteq Ids
    BY DEF TypeOK, EnvType
  <2> QED BY <2>1, <2>2, <2>3 DEF ExactlyOnePlace, Placed, Distinct
<1> QED BY <1>1, TypeCorrect, PlacedInvariant, PTL

-----------------------------------------------------------------------------
(* How often an item is run.                                               *)

\* The steps that may promote the front.
Kick == Start \/ StartAfterTurn \/ McpInitialized \/ \E p \in PlanPrompts : PlanStart(p)

\* A kick that finds a queued prompt and no turn starts the prompt; any other
\* leaves the turns alone.
LEMMA KickEffect ==
  ASSUME TypeOK, Placed, Kick
  PROVE  /\ pending' = pending /\ sendNow' = sendNow /\ buffer' = buffer /\ cancel' = cancel
         /\ reply' = reply /\ terminals' = terminals /\ unsent' = unsent /\ flushing' = flushing
         /\ completions' = completions /\ completing' = completing
         /\ \/ pc' = pc /\ pc # "stopped"
            \/ pc = "start" /\ pc' = "loop"
            \/ pc = "startAfterTurn" /\ pc' = "drain"
         /\ \/ /\ running' = running /\ pin' = pin /\ task' = task /\ started' = started
            \/ \E id \in Queued :
                  /\ running = None /\ running' = id /\ pin' = id /\ id \in Ids
                  /\ task' = [task EXCEPT ![id] = "live"]
                  /\ started' = [started EXCEPT ![id] = @ + 1]
                  /\ id \notin Held \cup Answered
<1>1. /\ pending' = pending /\ sendNow' = sendNow /\ buffer' = buffer /\ cancel' = cancel
      /\ reply' = reply /\ terminals' = terminals /\ unsent' = unsent /\ flushing' = flushing
      /\ completions' = completions /\ completing' = completing
      /\ \/ pc' = pc /\ pc # "stopped"
         \/ pc = "start" /\ pc' = "loop"
         \/ pc = "startAfterTurn" /\ pc' = "drain"
      /\ StartFront
  BY DEF Kick, Start, StartAfterTurn, McpInitialized, PlanStart, envVars, actorVars, ghostVars
<1>2. CASE running = None /\ pending # <<>>
  <2>1. /\ running' = Head(pending) /\ pin' = Head(pending)
        /\ task' = [task EXCEPT ![Head(pending)] = "live"]
        /\ started' = [started EXCEPT ![Head(pending)] = @ + 1]
    BY <1>1, <1>2 DEF StartFront
  <2>2. Head(pending) \in Queued /\ Head(pending) \in Ids
    BY <1>2, TailFacts, QueueFacts
  <2>3. Head(pending) \notin Held \cup Answered
    BY <2>2 DEF Placed, OnePlace
  <2> QED BY <1>1, <1>2, <2>1, <2>2, <2>3
<1>3. CASE ~(running = None /\ pending # <<>>)
  <2>1. running' = running /\ pin' = pin /\ task' = task /\ started' = started
    BY <1>1, <1>3 DEF StartFront
  <2> QED BY <1>1, <2>1
<1> QED BY <1>2, <1>3

\* Every other step but the two that take the task leaves the running turn.
LEMMA RunningKept ==
  ASSUME [Next]_vars, ~Kick, ~CancelLock, ~CompletionLock
  PROVE  running' = running /\ started' = started
<1>1. CASE Command
  BY <1>1 DEF Command, Prompt, RemoveQueued, InterjectQueued, ClearQueue, ReorderQueue, Interject,
     GoalSummary, CancelCommand, BeginCancel, InjectNotification, Shutdown, queueVars, turnVars
<1>2. CASE ActorStep
  BY <1>2 DEF ActorStep, Kick, CancelForSendNow, BeginCancel, CancelGate, CancelAbort, CancelEnd,
     TakeCompletion, CompletionGate, TurnEnd, Strand, Flush, Drain, queueVars, turnVars
<1>3. ASSUME NEW id \in Ids, TurnStep(id) PROVE running' = running /\ started' = started
  BY <1>3 DEF TurnStep, TurnOutput, TurnMergesInterjections, TurnGoalRound, TurnEntersWait,
     DropWaitGuard, TurnConsumesCompletion, TurnUnpins, TurnFinishes, TurnReturnsEarly,
     DropAborted, queueVars, turnVars
<1>4. CASE DetachedStep
  BY <1>4 DEF DetachedStep, Kick, PlanResume, turnVars
<1>5. CASE Parked \/ UNCHANGED vars
  BY <1>5 DEF Parked, vars
<1> QED BY <1>1, <1>2, <1>3, <1>4, <1>5 DEF Next

\* respond_to is resolved once: an answer is never changed.
LEMMA AnswersStay ==
  ASSUME TypeOK, [Next]_vars, NEW id \in Ids, reply[id] # None
  PROVE  reply'[id] = reply[id]
<1>0. ASSUME NEW S, NEW r, Answer(S, r) PROVE reply'[id] = reply[id]
  BY <1>0 DEF Answer
<1>1. CASE Command
  BY <1>0, <1>1 DEF Command, Prompt, RemoveQueued, InterjectQueued, ClearQueue, ReorderQueue,
     Interject, GoalSummary, CancelCommand, BeginCancel, InjectNotification, Shutdown, QueueInput,
     ghostVars
<1>2. CASE ActorStep
  BY <1>0, <1>2 DEF ActorStep, Start, CancelForSendNow, BeginCancel, CancelLock, CancelGate,
     CancelAbort, CancelEnd, TakeCompletion, CompletionGate, CompletionLock, TurnEnd, Strand,
     Flush, StartAfterTurn, Drain, ghostVars
<1>3. ASSUME NEW t \in Ids, TurnStep(t) PROVE reply'[id] = reply[id]
  BY <1>0, <1>3 DEF TurnStep, TurnOutput, TurnMergesInterjections, TurnGoalRound, TurnEntersWait,
     DropWaitGuard, TurnConsumesCompletion, TurnUnpins, TurnFinishes, TurnReturnsEarly,
     DropAborted, ghostVars
<1>4. CASE DetachedStep
  BY <1>0, <1>4 DEF DetachedStep, McpInitialized, PlanResume, PlanStart, QueueInput, ghostVars
<1>5. CASE Parked \/ UNCHANGED vars
  BY <1>5 DEF Parked, vars
<1> QED BY <1>1, <1>2, <1>3, <1>4, <1>5 DEF Next

\* Only cancel_running_task changes what a cancel holds, and it answers it.
LEMMA HeldKept ==
  ASSUME [Next]_vars, ~CancelLock, ~CancelEnd, ~CancelForSendNow,
         ~\E mode \in CancelModes : CancelCommand(mode)
  PROVE  cancel' = cancel
<1>1. CASE Command
  BY <1>1 DEF Command, Prompt, RemoveQueued, InterjectQueued, ClearQueue, ReorderQueue, Interject,
     GoalSummary, InjectNotification, Shutdown, actorVars
<1>2. CASE ActorStep
  BY <1>2 DEF ActorStep, Start, CancelGate, CancelAbort,
     TakeCompletion, CompletionGate, CompletionLock, TurnEnd, Strand, Flush, StartAfterTurn,
     Drain, actorVars
<1>3. ASSUME NEW id \in Ids, TurnStep(id) PROVE cancel' = cancel
  BY <1>3 DEF TurnStep, TurnOutput, TurnMergesInterjections, TurnGoalRound, TurnEntersWait,
     DropWaitGuard, TurnConsumesCompletion, TurnUnpins, TurnFinishes, TurnReturnsEarly,
     DropAborted, actorVars
<1>4. CASE DetachedStep
  BY <1>4 DEF DetachedStep, McpInitialized, PlanResume, PlanStart, actorVars
<1>5. CASE Parked \/ UNCHANGED vars
  BY <1>5 DEF Parked, vars
<1> QED BY <1>1, <1>2, <1>3, <1>4, <1>5 DEF Next

\* What a cancel holds it answers; what is answered stays so.
LEMMA SettledGrow ==
  ASSUME TypeOK, Placed, [Next]_vars
  PROVE  Held \cup Answered \subseteq Held' \cup Answered'
<1>1. Answered \subseteq Answered'
  BY AnswersStay DEF Answered
<1>2. Held \subseteq Held' \cup Answered'
  <2>1. CASE CancelLock \/ CancelForSendNow \/ \E mode \in CancelModes : CancelCommand(mode)
    <3>1. pc \in {"loop", "cancel", "cancelLock"}
      BY <2>1 DEF CancelLock, CancelForSendNow, CancelCommand, AtSelect
    <3> QED BY <3>1, LoopLocals DEF Held, ToSet
  <2>2. CASE CancelEnd
    <3>1. Answer(Held, IF cancel.rewound THEN "rewound" ELSE "cancelled")
      BY <2>2 DEF CancelEnd, Held
    <3>2. reply \in [Ids -> Replies] /\ Held \subseteq Ids
      BY QueueElements DEF Held, TypeOK, GhostType, ActorType, CancelRecords
    <3>3. Answered' = Answered \cup (Held \cap Ids)
      BY <3>1, <3>2, AnswerTags, AnsweredGrow
    <3> QED BY <3>2, <3>3
  <2>3. CASE ~(CancelLock \/ CancelEnd \/ CancelForSendNow
                 \/ \E mode \in CancelModes : CancelCommand(mode))
    BY <2>3, HeldKept, PlaceFrames
  <2> QED BY <2>1, <2>2, <2>3
<1> QED BY <1>1, <1>2

\* handle_completion pops the front exactly when the turn it is told of is the
\* one in flight, and otherwise leaves the running turn alone.
LEMMA CompletionMeans ==
  ASSUME TypeOK, Placed, FrontIsRunning, NotYetRun, CompletionsStarted, CompletionLock
  PROVE  /\ started' = started
         /\ CompletionOwned => /\ running = completing /\ running' = None /\ completing \in Queued
                               /\ completing \in Ids /\ completing \notin Held \cup Answered
         /\ ~CompletionOwned => running' = running
<1>1. started' = started /\ running' = TaskAfterCompletion /\ pc = "completionLock"
  BY DEF CompletionLock, turnVars
<1>2. ASSUME CompletionOwned
      PROVE  /\ running = completing /\ running' = None /\ completing \in Queued
             /\ completing \in Ids /\ completing \notin Held \cup Answered
  <2>1. pending # <<>> /\ Head(pending) = completing
    BY <1>2 DEF CompletionOwned, FrontIs
  <2>2. completing \in Queued /\ completing \in Ids
    BY <2>1, TailFacts, QueueFacts
  <2>3. completing \notin Held \cup Answered
    BY <2>2 DEF Placed, OnePlace
  <2>4. started[completing] = 1
    BY <2>2 DEF CompletionsStarted
  <2>5. running = completing
    BY <2>2, <2>3, <2>4 DEF NotYetRun
  <2> QED BY <1>1, <1>2, <2>2, <2>3, <2>5 DEF TaskAfterCompletion
<1>3. ASSUME ~CompletionOwned PROVE running' = running
  BY <1>1, <1>3 DEF TaskAfterCompletion, FrontIsRunning, CompletionOwned
<1> QED BY <1>1, <1>2, <1>3

\* No step starts a prompt that was started before.
LEMMA NotYetRunStep ==
  ASSUME TypeOK, TypeOK', Placed, FrontIsRunning, NotYetRun, CompletionsStarted, [Next]_vars
  PROVE  NotYetRun'
<1>0. Held \cup Answered \subseteq Held' \cup Answered'
  BY SettledGrow
<1>1. CASE Kick
  <2>1. Held' = Held /\ Answered' = Answered
    BY <1>1, KickEffect, PlaceFrames
  <2>2. CASE running' = running /\ started' = started
    BY <2>1, <2>2 DEF NotYetRun
  <2>3. ASSUME NEW id \in Ids, running = None, running' = id, id \notin Held \cup Answered,
               started' = [started EXCEPT ![id] = @ + 1]
        PROVE  NotYetRun'
    <3>1. started[id] = 0 /\ started \in [Ids -> Nat]
      BY <2>3 DEF NotYetRun, TypeOK, TurnType
    <3> QED BY <2>1, <2>3, <3>1 DEF NotYetRun
  <2> QED BY <1>1, <2>2, <2>3, KickEffect
<1>2. CASE CancelLock
  <2>1. running' = None /\ started' = started /\ pc = "cancelLock"
    BY <1>2 DEF CancelLock
  <2>2. running # None => running \in Held'
    BY <1>2, <2>1, CancelTakes DEF FrontIsRunning, FrontIs
  <2> QED BY <1>0, <2>1, <2>2 DEF NotYetRun
<1>3. CASE CompletionLock
  <2>1. CASE CompletionOwned
    <3>1. running = completing /\ running' = None /\ started' = started /\ completing \in Ids
      BY <1>3, <2>1, CompletionMeans
    <3>2. Answer({completing}, "done") /\ reply \in [Ids -> Replies]
      BY <1>3, <2>1 DEF CompletionLock, TypeOK, GhostType
    <3>3. completing \in Answered'
      BY <3>1, <3>2, AnswerTags, AnsweredGrow
    <3> QED BY <1>0, <3>1, <3>3 DEF NotYetRun
  <2>2. CASE ~CompletionOwned
    BY <1>0, <1>3, <2>2, CompletionMeans DEF NotYetRun
  <2> QED BY <2>1, <2>2
<1>4. CASE ~Kick /\ ~CancelLock /\ ~CompletionLock
  BY <1>0, <1>4, RunningKept DEF NotYetRun
<1> QED BY <1>1, <1>2, <1>3, <1>4

\* A started prompt stays started, once.
LEMMA StartedStays ==
  ASSUME TypeOK, Placed, FrontIsRunning, NotYetRun, CompletionsStarted, [Next]_vars,
         NEW id \in Ids, started[id] = 1
  PROVE  started'[id] = 1
<1>1. CASE Kick
  <2>1. ASSUME NEW i \in Ids, running = None, i \notin Held \cup Answered,
               started' = [started EXCEPT ![i] = @ + 1]
        PROVE  started'[id] = 1
    <3>1. started[i] = 0 /\ started \in [Ids -> Nat]
      BY <2>1 DEF NotYetRun, TypeOK, TurnType
    <3> QED BY <2>1, <3>1
  <2> QED BY <1>1, <2>1, KickEffect
<1>2. CASE CancelLock
  BY <1>2 DEF CancelLock
<1>3. CASE CompletionLock
  BY <1>3, CompletionMeans
<1>4. CASE ~Kick /\ ~CancelLock /\ ~CompletionLock
  BY <1>4, RunningKept
<1> QED BY <1>1, <1>2, <1>3, <1>4

\* A task that exists was spawned by a kick.
LEMMA TaskOrigin ==
  ASSUME TypeOK, [Next]_vars, ~Kick, NEW id \in Ids, task'[id] # "none"
  PROVE  task[id] # "none"
<1>0. task \in [Ids -> TaskStates]
  BY DEF TypeOK, TurnType
<1>1. CASE Command
  BY <1>1 DEF Command, Prompt, RemoveQueued, InterjectQueued, ClearQueue, ReorderQueue, Interject,
     GoalSummary, CancelCommand, BeginCancel, InjectNotification, Shutdown, turnVars
<1>2. CASE ActorStep
  <2>1. ASSUME NEW a, Abort(a) PROVE task[id] # "none"
    BY <2>1 DEF Abort
  <2>2. CASE CancelLock \/ CancelAbort
    BY <2>1, <2>2 DEF CancelLock, CancelAbort
  <2>3. CASE ~(CancelLock \/ CancelAbort)
    BY <1>2, <2>3 DEF ActorStep, Kick, CancelForSendNow, BeginCancel, CancelGate, CancelEnd,
       TakeCompletion, CompletionGate, CompletionLock, TurnEnd, Strand, Flush, Drain, turnVars
  <2> QED BY <2>2, <2>3
<1>3. ASSUME NEW t \in Ids, TurnStep(t) PROVE task[id] # "none"
  <2>1. CASE TurnUnpins(t) \/ TurnFinishes(t) \/ TurnReturnsEarly(t) \/ DropAborted(t)
    BY <1>0, <2>1 DEF TurnUnpins, TurnFinishes, TurnReturnsEarly, DropAborted
  <2>2. CASE ~(TurnUnpins(t) \/ TurnFinishes(t) \/ TurnReturnsEarly(t) \/ DropAborted(t))
    BY <1>3, <2>2 DEF TurnStep, TurnOutput, TurnMergesInterjections, TurnGoalRound,
       TurnEntersWait, DropWaitGuard, TurnConsumesCompletion, turnVars
  <2> QED BY <2>1, <2>2
<1>4. CASE DetachedStep
  BY <1>4 DEF DetachedStep, Kick, PlanResume, turnVars
<1>5. CASE Parked \/ UNCHANGED vars
  BY <1>5 DEF Parked, vars
<1> QED BY <1>1, <1>2, <1>3, <1>4, <1>5 DEF Next

\* A completion in the channel was there, or is sent by a task that exists.
LEMMA CompletionOrigin ==
  ASSUME TypeOK, [Next]_vars
  PROVE  /\ \A id \in ToSet(completions') : id \in ToSet(completions) \/ task[id] # "none"
         /\ completing' \in {None, completing} \cup ToSet(completions)
<1>0. completions \in Seq(Ids)
  BY DEF TypeOK, ActorType
<1>1. CASE TakeCompletion
  <2>1. completions # <<>> /\ completing' = Head(completions) /\ completions' = Tail(completions)
    BY <1>1 DEF TakeCompletion
  <2>2. Head(completions) \in ToSet(completions)
    <3>1. Head(completions) = completions[1] /\ 1 \in 1..Len(completions)
      BY <1>0, <2>1
    <3> QED BY <1>0, <3>1, Elements
  <2>3. ASSUME NEW x \in ToSet(Tail(completions)) PROVE x \in ToSet(completions)
    <3> DEFINE t == Tail(completions)
    <3>1. /\ t \in Seq(Ids) /\ x \in ToSet(t)
          /\ \A k \in 1..Len(t) : k + 1 \in 1..Len(completions) /\ t[k] = completions[k + 1]
      BY <1>0, <2>1
    <3> HIDE DEF t
    <3>2. PICK k \in 1..Len(t) : x = t[k]
      BY <3>1, Elements
    <3> QED BY <1>0, <3>1, <3>2, Elements
  <2> QED BY <2>1, <2>2, <2>3
<1>2. ASSUME NEW t \in Ids, TurnFinishes(t) \/ TurnReturnsEarly(t)
      PROVE  /\ \A id \in ToSet(completions') : id \in ToSet(completions) \/ task[id] # "none"
             /\ completing' = completing
  <2>1. completions' = Append(completions, t) /\ task[t] # "none" /\ completing' = completing
    BY <1>2 DEF TurnFinishes, TurnReturnsEarly
  <2>2. ToSet(Append(completions, t)) = ToSet(completions) \cup {t}
    BY <1>0, AppendFacts
  <2> QED BY <2>1, <2>2
<1>3. CASE CompletionLock
  BY <1>3 DEF CompletionLock
<1>4. ASSUME completions' = completions, completing' = completing
      PROVE  /\ \A id \in ToSet(completions') : id \in ToSet(completions) \/ task[id] # "none"
             /\ completing' = completing
  BY <1>4
<1>5. CASE Command
  BY <1>4, <1>5 DEF Command, Prompt, RemoveQueued, InterjectQueued, ClearQueue, ReorderQueue,
     Interject, GoalSummary, CancelCommand, BeginCancel, InjectNotification, Shutdown, actorVars
<1>6. CASE ActorStep
  BY <1>1, <1>3, <1>4, <1>6 DEF ActorStep, Start, CancelForSendNow, BeginCancel, CancelLock,
     CancelGate, CancelAbort, CancelEnd, CompletionGate, TurnEnd, Strand, Flush, StartAfterTurn,
     Drain, actorVars
<1>7. ASSUME NEW t \in Ids, TurnStep(t)
      PROVE  /\ \A id \in ToSet(completions') : id \in ToSet(completions) \/ task[id] # "none"
             /\ completing' = completing
  BY <1>2, <1>4, <1>7 DEF TurnStep, TurnOutput, TurnMergesInterjections, TurnGoalRound,
     TurnEntersWait, DropWaitGuard, TurnConsumesCompletion, TurnUnpins, DropAborted, actorVars
<1>8. CASE DetachedStep
  BY <1>4, <1>8 DEF DetachedStep, McpInitialized, PlanResume, PlanStart, actorVars
<1>9. CASE Parked \/ UNCHANGED vars
  BY <1>4, <1>9 DEF Parked, vars
<1> QED BY <1>5, <1>6, <1>7, <1>8, <1>9 DEF Next

\* Completions only ever tell of turns that were started.
LEMMA CompletionsStartedStep ==
  ASSUME TypeOK, Placed, FrontIsRunning, NotYetRun, CompletionsStarted, [Next]_vars
  PROVE  CompletionsStarted'
<1>1. ASSUME NEW id \in Ids, task'[id] # "none" PROVE started'[id] = 1
  <2>1. CASE task[id] # "none"
    <3>1. started[id] = 1
      BY <2>1 DEF CompletionsStarted
    <3> QED BY <3>1, StartedStays
  <2>2. CASE task[id] = "none"
    <3>1. Kick
      BY <1>1, <2>2, TaskOrigin
    <3>2. ASSUME NEW i \in Ids, running = None, i \notin Held \cup Answered,
                 task' = [task EXCEPT ![i] = "live"], started' = [started EXCEPT ![i] = @ + 1]
          PROVE  started'[id] = 1
      <4>1. started[i] = 0 /\ started \in [Ids -> Nat] /\ task \in [Ids -> TaskStates]
        BY <3>2 DEF NotYetRun, TypeOK, TurnType
      <4>2. id = i
        BY <1>1, <2>2, <3>2, <4>1
      <4> QED BY <3>2, <4>1, <4>2
    <3> QED BY <1>1, <2>2, <3>1, <3>2, KickEffect
  <2> QED BY <2>1, <2>2
<1>2. ToSet(completions) \subseteq Ids
  BY QueueElements DEF TypeOK, ActorType
<1>3. ASSUME NEW id \in ToSet(completions) PROVE started'[id] = 1
  BY <1>2, StartedStays DEF CompletionsStarted
<1>4. ToSet(completions') \subseteq Ids
  BY TypeStep, QueueElements DEF TypeOK, ActorType
<1>5. ASSUME NEW id \in ToSet(completions') PROVE started'[id] = 1
  <2>1. CASE id \in ToSet(completions)
    BY <1>3, <2>1
  <2>2. CASE task[id] # "none"
    <3>1. started[id] = 1
      BY <1>4, <2>2 DEF CompletionsStarted
    <3> QED BY <1>4, <3>1, StartedStays
  <2> QED BY <2>1, <2>2, CompletionOrigin
<1>6. ASSUME completing' # None PROVE started'[completing'] = 1
  <2>1. CASE completing' \in ToSet(completions)
    BY <1>3, <2>1
  <2>2. CASE completing' = completing
    <3>1. completing \in Ids /\ started[completing] = 1
      BY <1>6, <2>2 DEF TypeOK, ActorType, CompletionsStarted
    <3>2. started'[completing] = 1
      BY <3>1, StartedStays
    <3> QED BY <2>2, <3>2
  <2> QED BY <1>6, <2>1, <2>2, CompletionOrigin
<1> QED BY <1>1, <1>5, <1>6 DEF CompletionsStarted

-----------------------------------------------------------------------------
(* Who owns the pin and the interjection buffer, and who publishes.        *)

\* The steps that touch neither the turns nor the buffer nor a cancel.
Quiet ==
    \/ \E id \in Ids, requested \in BOOLEAN : Prompt(id, requested)
    \/ \E id \in UserPrompts, c \in Clients \cup {None} : RemoveQueued(id, c) \/ InterjectQueued(id, c)
    \/ \E c \in Clients \cup {None} : ClearQueue(c)
    \/ \E order \in Orders : ReorderQueue(order)
    \/ \E g \in GoalPrompts : GoalSummary(g)
    \/ InjectNotification \/ Shutdown \/ TurnEnd \/ Flush \/ Drain
    \/ \E p \in PlanPrompts : PlanResume(p)
    \/ Parked \/ UNCHANGED vars

CancelBegins == CancelForSendNow \/ \E mode \in CancelModes : CancelCommand(mode)

\* The steps by which a cancel or a completion goes on.
Settling == CancelLock \/ CancelGate \/ CancelAbort \/ CancelEnd
              \/ TakeCompletion \/ CompletionGate \/ CompletionLock

\* Every step is one of these.
LEMMA StepKinds ==
  ASSUME [Next]_vars
  PROVE  \/ Quiet \/ Kick \/ CancelBegins \/ Settling \/ Strand
         \/ \E i \in Interjections : Interject(i)
         \/ pc # "stopped" /\ \E id \in Ids : TurnStep(id)
<1>1. Command => \/ Quiet \/ CancelBegins \/ \E i \in Interjections : Interject(i)
  BY Zenon DEF Command, Quiet, CancelBegins
<1>2. ActorStep => Quiet \/ Kick \/ CancelBegins \/ Settling \/ Strand
  BY Zenon DEF ActorStep, Quiet, Kick, CancelBegins, Settling
<1>3. DetachedStep => Quiet \/ Kick
  BY Zenon DEF DetachedStep, Quiet, Kick
<1>4. Parked \/ UNCHANGED vars => Quiet
  BY Zenon DEF Quiet
<1> QED BY <1>1, <1>2, <1>3, <1>4, Zenon DEF Next

\* What the quiet steps leave alone, and where they take the actor.
LEMMA QuietEffect ==
  ASSUME Quiet
  PROVE  /\ running' = running /\ pin' = pin /\ started' = started /\ terminals' = terminals
         /\ task' = task /\ buffer' = buffer /\ cancel' = cancel /\ completing' = completing
         /\ \/ pc' = pc
            \/ pc = "turnEnd" /\ pc' = "strand"
            \/ /\ pc \in {"loop", "flush", "drain"}
               /\ pc' \in {"cancel", "start", "drain", "stopped", "startAfterTurn", "flush", "loop"}
<1>1. CASE \E id \in Ids, requested \in BOOLEAN : Prompt(id, requested)
  BY <1>1 DEF Prompt, AtSelect, turnVars, actorVars
<1>2. CASE \E id \in UserPrompts, c \in Clients \cup {None} :
              RemoveQueued(id, c) \/ InterjectQueued(id, c)
  BY <1>2 DEF RemoveQueued, InterjectQueued, AtSelect, turnVars, actorVars, ghostVars
<1>3. CASE \/ \E c \in Clients \cup {None} : ClearQueue(c)
           \/ \E order \in Orders : ReorderQueue(order)
           \/ \E g \in GoalPrompts : GoalSummary(g)
  BY <1>3 DEF ClearQueue, ReorderQueue, GoalSummary, AtSelect, turnVars, actorVars, ghostVars
<1>4. CASE InjectNotification \/ Shutdown
  BY <1>4 DEF InjectNotification, Shutdown, AtSelect, queueVars, turnVars, actorVars, ghostVars
<1>5. CASE TurnEnd \/ Flush \/ Drain
  BY <1>5 DEF TurnEnd, Flush, Drain, queueVars, turnVars, actorVars, ghostVars
<1>6. CASE \E p \in PlanPrompts : PlanResume(p)
  BY <1>6 DEF PlanResume, turnVars, actorVars
<1>7. CASE Parked \/ UNCHANGED vars
  BY <1>7 DEF Parked, vars
<1> QED BY <1>1, <1>2, <1>3, <1>4, <1>5, <1>6, <1>7 DEF Quiet

\* The first step of a cancel, whoever asks for it.
LEMMA CancelBeginsEffect ==
  ASSUME CancelBegins
  PROVE  /\ \E mode \in CancelModes : cancel' = [NoCancel EXCEPT !.mode = mode, !.pinned = pin]
         /\ pc \in {"loop", "cancel"} /\ pc' = "cancelLock" /\ buffer' = <<>>
         /\ Answer(Buffered, "cleared")
         /\ running' = running /\ pin' = pin /\ started' = started /\ terminals' = terminals
         /\ task' = task /\ completing' = completing /\ pending' = pending /\ sendNow' = sendNow
         /\ unsent' = unsent
<1>1. PICK mode \in CancelModes : BeginCancel(mode)
  BY Tags DEF CancelBegins, CancelForSendNow, CancelCommand
<1>2. pc \in {"loop", "cancel"}
  BY DEF CancelBegins, CancelForSendNow, CancelCommand, AtSelect
<1> QED BY <1>1, <1>2 DEF BeginCancel, Buffered, queueVars, turnVars, envVars

\* What a turn's own steps leave alone.
LEMMA TurnStepEffect ==
  ASSUME NEW id \in Ids, TurnStep(id)
  PROVE  /\ running' = running /\ pin' \in {None, pin} /\ started' = started
         /\ terminals' = terminals /\ cancel' = cancel /\ completing' = completing /\ pc' = pc
         /\ buffer' \in {<<>>, buffer} /\ sendNow' = sendNow /\ unsent' = unsent
<1>1. CASE TurnUnpins(id) \/ TurnFinishes(id) \/ TurnReturnsEarly(id) \/ DropAborted(id)
  BY <1>1 DEF TurnUnpins, TurnFinishes, TurnReturnsEarly, DropAborted, Unpin, queueVars, envVars,
     actorVars, ghostVars
<1>2. CASE ~(TurnUnpins(id) \/ TurnFinishes(id) \/ TurnReturnsEarly(id) \/ DropAborted(id))
  BY <1>2 DEF TurnStep, TurnOutput, TurnMergesInterjections, TurnGoalRound, TurnEntersWait,
     DropWaitGuard, TurnConsumesCompletion, queueVars, turnVars, envVars, actorVars, ghostVars
<1> QED BY <1>1, <1>2

\* Outside a cancel nobody but the running turn holds the pin, after every step.
LEMMA PinOwnerStep ==
  ASSUME TypeOK, Placed, FrontIsRunning, NotYetRun, CompletionsStarted, PinOwner, [Next]_vars
  PROVE  PinOwner'
<1>1. CASE Quiet
  BY <1>1, QuietEffect DEF PinOwner, InCancel
<1>2. CASE Kick
  <2>1. CASE running' = running /\ pin' = pin
    BY <1>2, <2>1, KickEffect DEF PinOwner, InCancel
  <2>2. ASSUME NEW id \in Ids, running = None, running' = id, pin' = id,
               id \notin Held \cup Answered
        PROVE  PinOwner'
    <3>1. started[id] = 0
      BY <2>2 DEF NotYetRun
    <3>2. id # completing
      BY <3>1 DEF CompletionsStarted
    <3>3. completing' = completing /\ cancel' = cancel /\ (pc' = pc \/ pc' \in {"loop", "drain"})
      BY <1>2, KickEffect
    <3> QED BY <2>2, <3>2, <3>3 DEF PinOwner, InCancel
  <2> QED BY <1>2, <2>1, <2>2, KickEffect
<1>3. CASE CancelBegins
  <2>1. cancel'.pinned = pin
    BY <1>3, CancelBeginsEffect DEF NoCancel
  <2> QED BY <1>3, <2>1, CancelBeginsEffect DEF PinOwner, InCancel
<1>4. CASE CancelLock \/ CancelGate \/ CancelAbort
  <2>1. pc' \in {"cancelGate", "cancelAbort", "cancelEnd"}
    BY <1>4 DEF CancelLock, CancelGate, CancelAbort
  <2> QED BY <2>1 DEF PinOwner, InCancel
<1>5. CASE CancelEnd
  BY <1>5 DEF CancelEnd, PinOwner, InCancel
<1>6. CASE TakeCompletion
  BY <1>6 DEF TakeCompletion, Unpin, PinOwner, InCancel, queueVars
<1>7. CASE CompletionGate
  BY <1>7 DEF CompletionGate, PinOwner, InCancel, queueVars, turnVars, actorVars
<1>8. CASE CompletionLock
  <2>1. pc = "completionLock" /\ pc' = "turnEnd" /\ pin' = pin
    BY <1>8 DEF CompletionLock, turnVars
  <2>2. CASE CompletionOwned
    BY <1>8, <2>1, <2>2, CompletionMeans DEF PinOwner, InCancel
  <2>3. CASE ~CompletionOwned
    BY <1>8, <2>1, <2>3, CompletionMeans DEF PinOwner, InCancel
  <2> QED BY <2>2, <2>3
<1>9. CASE Strand
  BY <1>9 DEF Strand, PinOwner, InCancel, queueVars, turnVars
<1>10. ASSUME NEW i \in Interjections, Interject(i) PROVE PinOwner'
  BY <1>10 DEF Interject, AtSelect, PinOwner, InCancel, turnVars
<1>11. ASSUME NEW id \in Ids, TurnStep(id) PROVE PinOwner'
  BY <1>11, TurnStepEffect DEF PinOwner, InCancel
<1> QED BY <1>1, <1>2, <1>3, <1>4, <1>5, <1>6, <1>7, <1>8, <1>9, <1>10, <1>11, StepKinds
     DEF Settling

\* Interjections stay buffered only behind a turn or until its flush.
LEMMA BufferOwnerStep ==
  ASSUME PinOwner, BufferOwner, [Next]_vars, TypeOK, Placed
  PROVE  BufferOwner'
<1>1. CASE Quiet
  BY <1>1, QuietEffect DEF BufferOwner, InCancel
<1>2. CASE Kick
  BY <1>2, KickEffect DEF BufferOwner, InCancel
<1>3. CASE CancelBegins
  BY <1>3, CancelBeginsEffect DEF BufferOwner
<1>4. CASE CancelLock \/ CancelGate \/ CancelAbort \/ CancelEnd
  <2>1. buffer' = buffer /\ (pc = "cancelLock" \/ InCancel)
    BY <1>4 DEF CancelLock, CancelGate, CancelAbort, CancelEnd, InCancel
  <2> QED BY <2>1 DEF BufferOwner
<1>5. CASE TakeCompletion \/ CompletionGate \/ CompletionLock
  BY <1>5 DEF TakeCompletion, CompletionGate, CompletionLock, BufferOwner, InCancel, queueVars
<1>6. CASE Strand
  BY <1>6 DEF Strand, BufferOwner
<1>7. ASSUME NEW i \in Interjections, Interject(i) PROVE BufferOwner'
  <2>1. pc = "loop" /\ running' = running /\ pc' \in {pc, "start"}
    BY <1>7 DEF Interject, AtSelect
  <2>2. CASE pin # None
    BY <2>1, <2>2 DEF BufferOwner, PinOwner, InCancel
  <2>3. CASE pin = None
    BY <1>7, <2>1, <2>3 DEF Interject, BufferOwner, InCancel
  <2> QED BY <2>2, <2>3
<1>8. ASSUME NEW id \in Ids, TurnStep(id) PROVE BufferOwner'
  BY <1>8, TurnStepEffect DEF BufferOwner, InCancel
<1> QED BY <1>1, <1>2, <1>3, <1>4, <1>5, <1>6, <1>7, <1>8, StepKinds DEF Settling

\* A cancel knows which of the items it holds had a turn.
LEMMA VictimStep ==
  ASSUME TypeOK, Placed, FrontIsRunning, NotYetRun, PinOwner, Victim, [Next]_vars
  PROVE  Victim'
<1>0. ASSUME cancel' = cancel, InCancel' => InCancel, \A id \in Held : started'[id] = started[id]
      PROVE  Victim'
  <2>1. Held' = Held
    BY <1>0, PlaceFrames
  <2> QED BY <1>0, <2>1 DEF Victim
<1>1. CASE Quiet
  BY <1>0, <1>1, QuietEffect DEF InCancel
<1>2. CASE Kick
  <2>1. ASSUME NEW i \in Ids, i \notin Held, started' = [started EXCEPT ![i] = @ + 1]
        PROVE  \A id \in Held : started'[id] = started[id]
    BY <2>1 DEF TypeOK, TurnType
  <2>2. \A id \in Held : started'[id] = started[id]
    BY <1>2, <2>1, KickEffect
  <2> QED BY <1>0, <1>2, <2>2, KickEffect DEF InCancel
<1>3. CASE CancelLock
  <2>1. pc = "cancelLock" /\ started' = started
    BY <1>3 DEF CancelLock
  <2>2. CASE CancelRewinds
    <3>1. cancel'.rewound = TRUE
      BY <1>3, <2>2 DEF CancelLock, TypeOK, ActorType, CancelRecords
    <3> QED BY <3>1 DEF Victim
  <2>3. CASE ~CancelRewinds
    <3>1. cancel'.victim = IF running # None THEN running ELSE cancel.pinned
      BY <1>3, <2>3 DEF CancelLock, TypeOK, ActorType, CancelRecords
    <3>2. cancel'.victim = running
      BY <2>1, <3>1 DEF PinOwner
    <3>3. running # None => running \in Held'
      BY <1>3, <2>1, CancelTakes DEF FrontIsRunning, FrontIs
    <3>4. Held' \subseteq Queued
      BY <1>3, CancelTakes
    <3>5. ASSUME NEW id \in Held' PROVE started'[id] = 1 <=> id = running
      <4>1. id \in Ids /\ id \notin Held \cup Answered
        BY <3>4, QueueFacts DEF Placed, OnePlace
      <4> QED BY <2>1, <4>1 DEF NotYetRun
    <3> QED BY <3>2, <3>3, <3>5 DEF Victim
  <2> QED BY <2>2, <2>3
<1>4. CASE CancelGate \/ CancelAbort
  BY <1>0, <1>4 DEF CancelGate, CancelAbort, InCancel, turnVars, actorVars
<1>5. CASE CancelBegins \/ CancelEnd \/ TakeCompletion \/ CompletionGate \/ CompletionLock \/ Strand
  <2>1. ~InCancel'
    BY <1>5, CancelBeginsEffect DEF CancelEnd, TakeCompletion, CompletionGate, CompletionLock,
       Strand, InCancel
  <2> QED BY <2>1 DEF Victim
<1>6. ASSUME NEW i \in Interjections, Interject(i) PROVE Victim'
  BY <1>0, <1>6 DEF Interject, AtSelect, InCancel, turnVars, actorVars
<1>7. ASSUME NEW id \in Ids, TurnStep(id) PROVE Victim'
  BY <1>0, <1>7, TurnStepEffect DEF InCancel
<1> QED BY <1>1, <1>2, <1>3, <1>4, <1>5, <1>6, <1>7, StepKinds DEF Settling

\* An item waiting in the queue or the buffer has not had its turn yet.
LEMMA Unstarted ==
  ASSUME TypeOK, Placed, FrontIsRunning, NotYetRun, pc # "stopped",
         NEW id \in Ids, (id \in Queued /\ id # running) \/ id \in Buffered
  PROVE  started[id] = 0
<1>1. id \notin Held \cup Answered
  BY DEF Placed, OnePlace
<1>2. id # running
  <2>1. ASSUME id = running, id \in Buffered PROVE FALSE
    <3>1. pending # <<>> /\ Head(pending) = running
      BY <2>1 DEF FrontIsRunning, FrontIs
    <3>2. running \in Queued
      BY <3>1, TailFacts, QueueFacts
    <3> QED BY <2>1, <3>2 DEF Placed, OnePlace
  <2> QED BY <2>1
<1> QED BY <1>1, <1>2 DEF NotYetRun

\* Answering items that had no turn publishes nothing.
LEMMA PublishedKept ==
  ASSUME TypeOK, Placed, FrontIsRunning, NotYetRun, Published, [Next]_vars,
         terminals' = terminals, started' = started, pc' # "stopped" => pc # "stopped",
         NEW D, Answered' \subseteq Answered \cup D, pc' = "stopped" \/ \A id \in D \cap Ids : started[id] = 0
  PROVE  Published'
<1> SUFFICES ASSUME NEW id \in Ids
             PROVE  /\ terminals'[id] <= 1
                    /\ terminals'[id] = 1 =>
                          started'[id] = 1 /\ id \in Answered' /\ reply'[id] # "rewound"
                    /\ (pc' # "stopped" /\ started'[id] = 1 /\ id \in Answered' /\ reply'[id] # "rewound")
                          => terminals'[id] = 1
  BY DEF Published
<1>1. CASE id \in Answered
  <2>1. reply'[id] = reply[id] /\ id \in Answered'
    BY <1>1, AnswersStay DEF Answered
  <2> QED BY <1>1, <2>1 DEF Published
<1>2. CASE id \notin Answered
  <2>1. terminals[id] # 1
    BY <1>2 DEF Published
  <2>2. terminals[id] <= 1
    BY DEF Published
  <2> QED BY <1>2, <2>1, <2>2
<1> QED BY <1>1, <1>2

\* A turn's end is published with the answer of its item, and only then.
LEMMA PublishedStep ==
  ASSUME TypeOK, Placed, FrontIsRunning, NotYetRun, CompletionsStarted, Victim, Published,
         [Next]_vars
  PROVE  Published'
<1>0. /\ pending \in Seq(Ids) /\ Queued = ToSet(pending) /\ Queued \subseteq Ids
      /\ reply \in [Ids -> Replies] /\ terminals \in [Ids -> Nat] /\ started \in [Ids -> Nat]
  BY QueueFacts DEF TypeOK, GhostType, TurnType
<1>1. ASSUME reply' = reply, terminals' = terminals, started' = started,
             pc' # "stopped" => pc # "stopped"
      PROVE  Published'
  <2>1. Answered' \subseteq Answered \cup {}
    BY <1>1, PlaceFrames
  <2> QED BY <1>1, <2>1, PublishedKept
<1>2. ASSUME terminals' = terminals, started' = started, pc # "stopped",
             NEW D \in SUBSET Queued, running \notin D, Answered' = Answered \cup D
      PROVE  Published'
  <2>1. \A id \in D \cap Ids : started[id] = 0
    BY <1>2, Unstarted
  <2> QED BY <1>2, <2>1, PublishedKept
<1>3. ASSUME terminals' = terminals, started' = started, pc # "stopped",
             Answered' = Answered \cup (Buffered \cap Ids)
      PROVE  Published'
  <2>1. \A id \in Buffered \cap Ids : started[id] = 0
    BY <1>3, Unstarted
  <2> QED BY <1>3, <2>1, PublishedKept
<1>4. ASSUME NEW id \in unsent, NEW requested \in BOOLEAN, QueueInput(id, requested),
             terminals' = terminals, started' = started, pc # "stopped"
      PROVE  Published'
  <2>1. PICK S \in SUBSET Queued : /\ Queued' = S \cup {id} /\ Answered' = Answered \cup (Queued \ S)
                                   /\ running \in Queued => running \in S
    BY <1>4, QueueInputPlaces
  <2> DEFINE D == Queued \ S
  <2>2. D \subseteq Queued /\ running \notin D /\ Answered' = Answered \cup D
    BY <2>1
  <2> HIDE DEF D
  <2> QED BY <1>2, <1>4, <2>2
<1>5. CASE Quiet
  <2>0. terminals' = terminals /\ started' = started /\ (pc' # "stopped" => pc # "stopped")
    BY <1>5, QuietEffect
  <2>1. ASSUME NEW id \in Ids, NEW requested \in BOOLEAN, Prompt(id, requested) PROVE Published'
    BY <1>4, <2>0, <2>1 DEF Prompt, AtSelect
  <2>2. ASSUME NEW id \in UserPrompts, NEW c \in Clients \cup {None}, RemoveQueued(id, c)
        PROVE  Published'
    <3>1. pc = "loop" /\ id \in Queued /\ id # running /\ Answer({id}, "removed")
      BY <2>2 DEF RemoveQueued, AtSelect, Queued
    <3>2. Answered' = Answered \cup ({id} \cap Ids)
      BY <1>0, <3>1, AnswerTags, AnsweredGrow
    <3>3. Answered' = Answered \cup {id}
      BY <1>0, <3>1, <3>2
    <3> QED BY <1>2, <2>0, <3>1, <3>3
  <2>3. ASSUME NEW c \in Clients \cup {None}, ClearQueue(c) PROVE Published'
    <3> DEFINE mine == {u \in ToSet(pending) \cap UserPrompts : c \in {None, Owner[u]}}
    <3>1. pc = "loop" /\ Answer(mine \ {running}, "removed") /\ mine \subseteq Queued
      BY <1>0, <2>3 DEF ClearQueue, AtSelect
    <3> HIDE DEF mine
    <3>2. Answered' = Answered \cup ((mine \ {running}) \cap Ids)
      BY <1>0, <3>1, AnswerTags, AnsweredGrow
    <3>3. Answered' = Answered \cup (mine \ {running})
      BY <1>0, <3>1, <3>2
    <3> QED BY <1>2, <2>0, <3>1, <3>3
  <2>4. CASE Shutdown
    <3>1. pc' = "stopped" /\ Answered' \subseteq Answered \cup Ids
      BY <2>4 DEF Shutdown, Answered
    <3> QED BY <2>0, <3>1, PublishedKept
  <2>5. ASSUME NEW p \in PlanPrompts, PlanResume(p) PROVE Published'
    BY <1>4, <2>0, <2>5 DEF PlanResume
  <2>6. ASSUME NEW id \in UserPrompts, NEW c \in Clients \cup {None}, InterjectQueued(id, c)
        PROVE  Published'
    BY <1>1, <2>0, <2>6 DEF InterjectQueued, ghostVars
  <2>7. CASE \/ \E order \in Orders : ReorderQueue(order)
             \/ \E g \in GoalPrompts : GoalSummary(g)
             \/ InjectNotification \/ TurnEnd \/ Flush \/ Drain \/ Parked \/ UNCHANGED vars
    BY <1>1, <2>0, <2>7 DEF ReorderQueue, GoalSummary, InjectNotification, TurnEnd, Flush, Drain,
       Parked, vars, ghostVars
  <2> QED BY <1>5, <2>1, <2>2, <2>3, <2>4, <2>5, <2>6, <2>7 DEF Quiet
<1>6. CASE Kick
  <2>1. Answered' = Answered /\ terminals' = terminals /\ reply' = reply /\ pc # "stopped"
    BY <1>6, KickEffect, PlaceFrames
  <2>2. ASSUME NEW i \in Ids, i \notin Answered, started' = [started EXCEPT ![i] = @ + 1]
        PROVE  Published'
    <3>1. \A id \in Ids : id # i => started'[id] = started[id]
      BY <1>0, <2>2
    <3> QED BY <2>1, <2>2, <3>1 DEF Published
  <2> QED BY <1>1, <1>6, <2>1, <2>2, KickEffect
<1>7. CASE CancelBegins
  <2>1. "cleared" \in Answers
    BY AnswerTags
  <2>2. Answered' = Answered \cup (Buffered \cap Ids)
    BY <1>0, <1>7, <2>1, CancelBeginsEffect, AnsweredGrow
  <2> QED BY <1>3, <1>7, <2>2, CancelBeginsEffect
<1>8. CASE CancelLock \/ CancelGate \/ CancelAbort \/ TakeCompletion \/ CompletionGate \/ Strand
  BY <1>1, <1>8 DEF CancelLock, CancelGate, CancelAbort, TakeCompletion, CompletionGate, Strand,
     turnVars, ghostVars
<1>9. CASE CancelEnd
  <2> DEFINE r == IF cancel.rewound THEN "rewound" ELSE "cancelled"
  <2>1. /\ Answer(Held, r) /\ started' = started /\ pc = "cancelEnd"
        /\ terminals' = IF CancelPublishes THEN [terminals EXCEPT ![cancel.victim] = @ + 1]
                        ELSE terminals
    BY <1>9 DEF CancelEnd, Held
  <2>2. Held \subseteq Ids /\ Held \cap Answered = {}
    BY QueueElements DEF Held, TypeOK, ActorType, CancelRecords, Placed, OnePlace
  <2>3. Answered' = Answered \cup (Held \cap Ids)
    BY <1>0, <2>1, AnswerTags, AnsweredGrow
  <2>4. ASSUME NEW id \in Held PROVE reply'[id] = r /\ terminals[id] = 0 /\ id \in Answered'
    <3>1. reply[id] = None /\ id \in Ids
      BY <2>2 DEF Answered
    <3>2. reply'[id] = r
      BY <2>1, <3>1 DEF Answer
    <3>3. terminals[id] = 0
      BY <1>0, <2>2, <3>1 DEF Published
    <3> QED BY <2>2, <2>3, <3>2, <3>3
  <2>5. ASSUME NEW id \in Ids, id \notin Held
        PROVE  reply'[id] = reply[id] /\ (id \in Answered' <=> id \in Answered)
    BY <2>1, <2>3, <2>5 DEF Answer
  <2>6. CASE cancel.rewound
    <3>1. terminals' = terminals /\ r = "rewound"
      BY <2>1, <2>6 DEF CancelPublishes
    <3>2. ASSUME NEW id \in Ids
          PROVE  /\ terminals'[id] <= 1
                 /\ terminals'[id] = 1 =>
                       started'[id] = 1 /\ id \in Answered' /\ reply'[id] # "rewound"
                 /\ (started'[id] = 1 /\ id \in Answered' /\ reply'[id] # "rewound")
                       => terminals'[id] = 1
      <4> HIDE DEF r
      <4>1. CASE id \in Held
        BY <2>4, <3>1, <4>1
      <4>2. CASE id \notin Held
        BY <2>1, <2>5, <3>1, <4>2 DEF Published
      <4> QED BY <4>1, <4>2
    <3> QED BY <3>2 DEF Published
  <2>7. CASE ~cancel.rewound
    <3>0. r = "cancelled"
      BY <2>7
    <3>1. /\ cancel.victim # None => cancel.victim \in Held
          /\ \A id \in Held : started[id] = 1 <=> id = cancel.victim
      BY <2>1, <2>7 DEF Victim, InCancel
    <3>2. ASSUME NEW id \in Ids, id = cancel.victim PROVE terminals'[id] = terminals[id] + 1
      BY <1>0, <2>1, <2>7, <3>2 DEF CancelPublishes
    <3>3. ASSUME NEW id \in Ids, id # cancel.victim PROVE terminals'[id] = terminals[id]
      BY <1>0, <2>1, <3>3
    <3>4. ASSUME NEW id \in Ids
          PROVE  /\ terminals'[id] <= 1
                 /\ terminals'[id] = 1 =>
                       started'[id] = 1 /\ id \in Answered' /\ reply'[id] # "rewound"
                 /\ (started'[id] = 1 /\ id \in Answered' /\ reply'[id] # "rewound")
                       => terminals'[id] = 1
      <4> HIDE DEF r
      <4>1. CASE id \in Held /\ id = cancel.victim
        BY <2>1, <2>4, <3>0, <3>1, <3>2, <4>1
      <4>2. CASE id \in Held /\ id # cancel.victim
        BY <2>1, <2>4, <3>0, <3>1, <3>3, <4>2
      <4>3. CASE id \notin Held
        <5>1. id # cancel.victim
          BY <3>1, <4>3
        <5> QED BY <2>1, <2>5, <3>3, <4>3, <5>1 DEF Published
      <4> QED BY <4>1, <4>2, <4>3
    <3> QED BY <3>4 DEF Published
  <2> QED BY <2>6, <2>7
<1>10. CASE CompletionLock
  <2>1. /\ pc = "completionLock" /\ started' = started
        /\ Answer(IF CompletionOwned THEN {completing} ELSE {}, "done")
        /\ terminals' = IF CompletionOwned THEN [terminals EXCEPT ![completing] = @ + 1]
                        ELSE terminals
    BY <1>10 DEF CompletionLock, turnVars
  <2>2. CASE ~CompletionOwned
    <3>1. Answered' = Answered \cup ({} \cap Ids)
      BY <1>0, <2>1, <2>2, AnswerTags, AnsweredGrow
    <3> QED BY <2>1, <2>2, <3>1, PublishedKept
  <2>3. CASE CompletionOwned
    <3>1. completing \in Ids /\ completing \notin Answered /\ started[completing] = 1
      BY <1>10, <2>3, CompletionMeans DEF CompletionsStarted
    <3>2. reply'[completing] = "done" /\ completing \in Answered'
      <4>1. reply[completing] = None
        BY <3>1 DEF Answered
      <4>2. reply'[completing] = "done"
        BY <2>1, <2>3, <3>1, <4>1 DEF Answer
      <4>3. "done" # None
        BY AnswerTags
      <4> QED BY <3>1, <4>2, <4>3 DEF Answered
    <3>3. terminals'[completing] = 1
      <4>1. terminals[completing] = 0
        BY <1>0, <3>1 DEF Published
      <4> QED BY <1>0, <2>1, <2>3, <3>1, <4>1
    <3>4. ASSUME NEW id \in Ids, id # completing
          PROVE  /\ reply'[id] = reply[id] /\ terminals'[id] = terminals[id]
                 /\ id \in Answered' <=> id \in Answered
      BY <1>0, <2>1, <2>3, <3>4 DEF Answer, Answered
    <3>5. ASSUME NEW id \in Ids
          PROVE  /\ terminals'[id] <= 1
                 /\ terminals'[id] = 1 =>
                       started'[id] = 1 /\ id \in Answered' /\ reply'[id] # "rewound"
                 /\ (started'[id] = 1 /\ id \in Answered' /\ reply'[id] # "rewound")
                       => terminals'[id] = 1
      <4>1. CASE id = completing
        BY <2>1, <3>1, <3>2, <3>3, <4>1
      <4>2. CASE id # completing
        BY <2>1, <3>4, <4>2 DEF Published
      <4> QED BY <4>1, <4>2
    <3> QED BY <3>5 DEF Published
  <2> QED BY <2>2, <2>3
<1>11. ASSUME NEW i \in Interjections, Interject(i) PROVE Published'
  BY <1>1, <1>11 DEF Interject, AtSelect, turnVars, ghostVars
<1>12. ASSUME pc # "stopped", NEW t \in Ids, TurnStep(t) PROVE Published'
  <2>0. terminals' = terminals /\ started' = started
    BY <1>12, TurnStepEffect
  <2>1. CASE TurnMergesInterjections(t)
    <3>1. Answer(Buffered, "merged")
      BY <2>1 DEF TurnMergesInterjections, Buffered
    <3>2. Answered' = Answered \cup (Buffered \cap Ids)
      BY <1>0, <3>1, AnswerTags, AnsweredGrow
    <3> QED BY <1>3, <1>12, <2>0, <3>2
  <2>2. ASSUME NEW w \in WakePrompts, TurnConsumesCompletion(t, w) PROVE Published'
    <3>1. pending' = Sweep(pending, running, {w}) /\ Answer(Queued \ ToSet(pending'), "dropped")
      BY <2>2 DEF TurnConsumesCompletion, Queued
    <3> DEFINE D == Queued \ ToSet(pending')
    <3>2. running \notin D
      BY <1>0, <3>1, KeptFacts DEF Sweep
    <3>3. Answered' = Answered \cup (D \cap Ids)
      BY <1>0, <3>1, AnswerTags, AnsweredGrow
    <3>4. Answered' = Answered \cup D /\ D \subseteq Queued
      BY <1>0, <3>3
    <3> HIDE DEF D
    <3> QED BY <1>2, <1>12, <2>0, <3>2, <3>4
  <2>3. CASE ~TurnMergesInterjections(t) /\ ~\E w \in WakePrompts : TurnConsumesCompletion(t, w)
    <3>1. reply' = reply
      BY <1>12, <2>3 DEF TurnStep, TurnOutput, TurnGoalRound, TurnEntersWait, DropWaitGuard,
         TurnUnpins, TurnFinishes, TurnReturnsEarly, DropAborted, ghostVars
    <3> QED BY <1>1, <1>12, <2>0, <3>1
  <2> QED BY <2>1, <2>2, <2>3
<1> QED BY <1>5, <1>6, <1>7, <1>8, <1>9, <1>10, <1>11, <1>12, StepKinds DEF Settling

-----------------------------------------------------------------------------
\* The bookkeeping of turns is an invariant.
LEMMA TurnInvariant == Spec => []TurnInv
<1>1. Init => TurnInv
  <2> SUFFICES ASSUME Init PROVE TurnInv
    OBVIOUS
  <2>1. Held = {} /\ Answered = {} /\ ToSet(completions) = {} /\ ~InCancel
    BY DEF Init, NoCancel, Held, Answered, ToSet, InCancel
  <2>2. NotYetRun
    BY DEF Init, NotYetRun
  <2>3. CompletionsStarted /\ Published
    BY <2>1 DEF Init, CompletionsStarted, Published
  <2>4. PinOwner /\ BufferOwner /\ Victim
    BY <2>1 DEF Init, PinOwner, BufferOwner, Victim
  <2> QED BY <2>2, <2>3, <2>4 DEF TurnInv
<1>2. TypeOK /\ Placed /\ FrontIsRunning /\ TurnInv /\ [Next]_vars => TurnInv'
  <2> SUFFICES ASSUME TypeOK, Placed, FrontIsRunning, TurnInv, [Next]_vars PROVE TurnInv'
    OBVIOUS
  <2>1. TypeOK'
    BY TypeStep
  <2> QED BY <2>1, NotYetRunStep, CompletionsStartedStep, PinOwnerStep, BufferOwnerStep,
             PublishedStep, VictimStep DEF TurnInv
<1> QED BY <1>1, <1>2, TypeCorrect, RunningTurnIsFront, PlacedInvariant, PTL DEF Spec

\* No prompt is run twice, however completions, cancels and the kicks of the
\* detached tasks interleave: maybe_start_running_task promotes the front while
\* no task is set, and by then the item that ran has left the queue.
THEOREM PromptsRunOnce == Spec => []NoDoubleRun
<1>1. TurnInv => NoDoubleRun
  BY DEF TurnInv, NotYetRun, NoDoubleRun
<1> QED BY <1>1, TurnInvariant, PTL

\* A turn publishes one TurnCompleted, a rewound one none, whether its
\* completion or its cancel comes first.
THEOREM TurnsEndOnce == Spec => []OneTerminalPerTurn
<1>1. TypeOK /\ Placed /\ TurnInv => OneTerminalPerTurn
  <2> SUFFICES ASSUME TypeOK, Placed, TurnInv, NEW id \in Ids
               PROVE  /\ terminals[id] <= started[id]
                      /\ terminals[id] <= 1
                      /\ reply[id] = "rewound" => terminals[id] = 0
                      /\ (AtSelect /\ started[id] > 0 /\ id # running /\ reply[id] # "rewound")
                            => terminals[id] = 1
    BY DEF OneTerminalPerTurn
  <2>1. /\ terminals[id] \in Nat /\ started[id] \in Nat /\ started[id] <= 1 /\ terminals[id] <= 1
        /\ terminals[id] = 1 => started[id] = 1 /\ id \in Answered /\ reply[id] # "rewound"
        /\ (pc # "stopped" /\ started[id] = 1 /\ id \in Answered /\ reply[id] # "rewound")
              => terminals[id] = 1
        /\ (id \notin Held \cup Answered /\ id # running) => started[id] = 0
    BY DEF TypeOK, TurnType, GhostType, TurnInv, NotYetRun, Published
  <2>2. AtSelect => pc = "loop" /\ id \notin Held
    BY LoopLocals DEF AtSelect, Held, ToSet
  <2> QED BY <2>1, <2>2
<1> QED BY <1>1, TypeCorrect, PlacedInvariant, TurnInvariant, PTL

\* No interjection stays in the buffer once no turn is there to drain or flush it.
THEOREM InterjectionsHaveATurn == Spec => []NoStrandedInterjection
<1>1. TurnInv => NoStrandedInterjection
  BY DEF TurnInv, BufferOwner, NoStrandedInterjection
<1> QED BY <1>1, TurnInvariant, PTL

\* The debug_assert of cancel_running_task holds: the pin read before the awaits
\* and the task found under the lock never name two different turns.
THEOREM CancelAssertHolds == Spec => []PinAgreesAtCancel
<1>1. TurnInv => PinAgreesAtCancel
  BY DEF TurnInv, PinOwner, PinAgreesAtCancel
<1> QED BY <1>1, TurnInvariant, PTL

-----------------------------------------------------------------------------
(* Send-now prompts.                                                       *)

\* A send-now prompt put behind a running front leaves a send-now prompt second.
LEMMA InsertNext ==
  ASSUME NEW q \in Seq(Ids), NEW r, NEW now, NEW id \in Ids, FrontIs(q, r)
  PROVE  /\ Len(InsertSendNow(q, r, now, id)) >= 2
         /\ InsertSendNow(q, r, now, id)[2] \in now \cup {id}
<1> DEFINE n == SendNowSlot(q, r, now)
           p == InsertAt(q, n + 1, id)
<1>1. n \in 0..Len(q) /\ n >= 1 /\ \A m \in 1..n : q[m] \in now \/ m = 1
  BY SendNowSlotFacts
<1>2. InsertSendNow(q, r, now, id) = p
  BY DEF InsertSendNow
<1> HIDE DEF n
<1>3. n + 1 \in 1..(Len(q) + 1) /\ (n + 1) - 1 = n
  BY <1>1
<1>4. Len(p) = Len(q) + 1 /\ (\A k \in 1..n : p[k] = q[k]) /\ p[n + 1] = id
  <2>1. /\ Len(p) = Len(q) + 1 /\ p[n + 1] = id
        /\ \A k \in 1..((n + 1) - 1) : p[k] = q[k]
    BY <1>3, InsertAtPositions
  <2> QED BY <1>3, <2>1
<1> HIDE DEF p
<1>5. CASE n = 1
  BY <1>1, <1>2, <1>4, <1>5
<1>6. CASE n >= 2
  <2>1. 2 \in 1..n /\ p[2] = q[2] /\ q[2] \in now
    BY <1>1, <1>4, <1>6
  <2> QED BY <1>1, <1>2, <1>4, <1>6, <2>1
<1> QED BY <1>1, <1>5, <1>6

\* A turn's step drops at most one auto-wake from the queue, and never its front.
LEMMA TurnStepQueue ==
  ASSUME TypeOK, NEW id \in Ids, TurnStep(id)
  PROVE  pending' = pending \/ \E w \in WakePrompts : pending' = Sweep(pending, running, {w})
BY DEF TurnStep, TurnOutput, TurnMergesInterjections, TurnGoalRound, TurnEntersWait,
   DropWaitGuard, TurnConsumesCompletion, TurnUnpins, TurnFinishes, TurnReturnsEarly,
   DropAborted, queueVars

\* A plan-approval follow-up is queued last, whatever is queued.
LEMMA PlanQueue ==
  ASSUME NEW p \in PlanPrompts, QueueInput(p, FALSE)
  PROVE  pending' = Append(pending, p) /\ sendNow' = sendNow
<1>1. p \in Synthetic
  BY DEF Synthetic
<1> QED BY <1>1 DEF QueueInput, QueueAfterPreempt, PreemptArmed, RunsNext

\* What a step by another actor than the session's does to the first items.
LEMMA FirstItems ==
  ASSUME TypeOK, sendNow \cap (Synthetic \cup unsent) = {},
         \/ pending' = pending
         \/ \E w \in WakePrompts : pending' = Sweep(pending, running, {w})
         \/ \E p \in PlanPrompts : pending' = Append(pending, p)
  PROVE  /\ (FrontIs(pending, running) /\ Len(pending) >= 2 /\ pending[2] \in sendNow)
               => Len(pending') >= 2 /\ pending'[2] \in sendNow
         /\ (pending # <<>> /\ Head(pending) \in sendNow)
               => pending' # <<>> /\ Head(pending') \in sendNow
<1>0. pending \in Seq(Ids)
  BY DEF TypeOK, QueueType
<1>1. CASE pending' = pending
  BY <1>1
<1>2. ASSUME NEW w \in WakePrompts, pending' = Sweep(pending, running, {w})
      PROVE  /\ (FrontIs(pending, running) /\ Len(pending) >= 2 /\ pending[2] \in sendNow)
                   => Len(pending') >= 2 /\ pending'[2] \in sendNow
             /\ (pending # <<>> /\ Head(pending) \in sendNow)
                   => pending' # <<>> /\ Head(pending') \in sendNow
  <2> DEFINE keep == (ToSet(pending) \ {w}) \cup {running}
  <2>1. pending' = Kept(pending, keep)
    BY <1>2 DEF Sweep
  <2>2. ASSUME NEW k \in 1..Len(pending), pending[k] \in sendNow PROVE pending[k] \in keep
    <3>1. pending[k] \in ToSet(pending)
      BY <1>0, Elements
    <3>2. w \notin sendNow
      BY DEF Synthetic
    <3> QED BY <2>2, <3>1, <3>2
  <2>4. FrontIs(pending, running) => pending[1] \in keep
    BY <1>0 DEF FrontIs
  <2> HIDE DEF keep
  <2>3. /\ Kept(pending, keep) \in Seq(Ids)
        /\ (pending # <<>> /\ pending[1] \in keep)
             => Kept(pending, keep) # <<>> /\ Kept(pending, keep)[1] = pending[1]
        /\ (Len(pending) >= 2 /\ pending[1] \in keep /\ pending[2] \in keep)
             => Len(Kept(pending, keep)) >= 2 /\ Kept(pending, keep)[2] = pending[2]
    BY <1>0, KeptFacts, KeptOrder
  <2>5. ASSUME FrontIs(pending, running), Len(pending) >= 2, pending[2] \in sendNow
        PROVE  Len(pending') >= 2 /\ pending'[2] \in sendNow
    <3>1. pending[2] \in keep
      BY <1>0, <2>2, <2>5
    <3> QED BY <2>1, <2>3, <2>4, <2>5, <3>1
  <2>6. ASSUME pending # <<>>, Head(pending) \in sendNow
        PROVE  pending' # <<>> /\ Head(pending') \in sendNow
    <3>1. 1 \in 1..Len(pending) /\ pending[1] = Head(pending)
      BY <1>0, <2>6
    <3>2. pending' \in Seq(Ids) /\ pending' # <<>> /\ pending'[1] = Head(pending)
      BY <2>1, <2>2, <2>3, <2>6, <3>1
    <3> QED BY <2>6, <3>2
  <2> QED BY <2>5, <2>6
<1>3. ASSUME NEW p \in PlanPrompts, pending' = Append(pending, p)
      PROVE  /\ Len(pending) >= 2 => Len(pending') >= 2 /\ pending'[2] = pending[2]
             /\ pending # <<>> => pending' # <<>> /\ Head(pending') = Head(pending)
  <2>1. p \in Ids
    BY IdFacts
  <2> QED BY <1>0, <1>3, <2>1
<1> QED BY <1>1, <1>2, <1>3

\* Only prompts and interjections that users have sent are ever marked.
LEMMA SendNowTextsStep ==
  ASSUME TypeOK, Placed, SendNowTexts, [Next]_vars
  PROVE  SendNowTexts'
<1>1. ASSUME sendNow' = sendNow, unsent' \subseteq unsent PROVE SendNowTexts'
  BY <1>1 DEF SendNowTexts
<1>2. ASSUME NEW id, id \notin Synthetic \cup unsent', sendNow' = sendNow \cup {id},
             unsent' \subseteq unsent
      PROVE  SendNowTexts'
  BY <1>2 DEF SendNowTexts
<1>3. ASSUME NEW id, NEW requested, QueueInput(id, requested) PROVE SendNowTexts'
  <2>1. CASE RunsNext(id, requested)
    BY <1>2, <1>3, <2>1 DEF QueueInput, RunsNext
  <2>2. CASE ~RunsNext(id, requested)
    BY <1>1, <1>3, <2>2 DEF QueueInput
  <2> QED BY <2>1, <2>2
<1>4. CASE Quiet
  <2>1. ASSUME NEW id \in Ids, NEW requested \in BOOLEAN, Prompt(id, requested)
        PROVE  SendNowTexts'
    BY <1>3, <2>1 DEF Prompt
  <2>2. ASSUME NEW id \in UserPrompts, NEW c \in Clients \cup {None}, InterjectQueued(id, c)
        PROVE  SendNowTexts'
    <3>1. id \in Queued /\ unsent' = unsent /\ sendNow' = sendNow \cup {id}
      BY <2>2 DEF InterjectQueued, Queued
    <3>2. id \notin Synthetic \cup unsent
      BY <3>1, QueueFacts
    <3> QED BY <1>2, <3>1, <3>2
  <2>3. ASSUME NEW p \in PlanPrompts, PlanResume(p) PROVE SendNowTexts'
    BY <1>3, <2>3 DEF PlanResume
  <2>4. CASE Flush
    <3> DEFINE i == flushing[Len(flushing)]
    <3>1. flushing # <<>> /\ unsent' = unsent /\ sendNow' = sendNow \cup {i}
      BY <2>4 DEF Flush, envVars
    <3>2. flushing \in Seq(Interjections) /\ Distinct(flushing)
      BY DEF TypeOK, ActorType, Placed
    <3>3. i \in Flushed /\ i \in Interjections /\ i \in Ids
      BY <3>1, <3>2, ButLastFacts, IdFacts DEF Flushed
    <3> HIDE DEF i
    <3>4. i \notin Synthetic \cup unsent
      BY <3>3 DEF Placed, OnePlace
    <3> QED BY <1>2, <3>1, <3>4
  <2>5. CASE \/ \E id \in UserPrompts, c \in Clients \cup {None} : RemoveQueued(id, c)
             \/ \E c \in Clients \cup {None} : ClearQueue(c)
             \/ \E order \in Orders : ReorderQueue(order)
             \/ \E g \in GoalPrompts : GoalSummary(g)
             \/ InjectNotification \/ Shutdown \/ TurnEnd \/ Drain \/ Parked \/ UNCHANGED vars
    BY <1>1, <2>5 DEF RemoveQueued, ClearQueue, ReorderQueue, GoalSummary, InjectNotification,
       Shutdown, TurnEnd, Drain, Parked, vars, queueVars, envVars
  <2> QED BY <1>4, <2>1, <2>2, <2>3, <2>4, <2>5 DEF Quiet
<1>5. CASE Kick
  BY <1>1, <1>5, KickEffect
<1>6. CASE CancelBegins
  BY <1>1, <1>6, CancelBeginsEffect
<1>7. CASE Settling \/ Strand
  BY <1>1, <1>7 DEF Settling, CancelLock, CancelGate, CancelAbort, CancelEnd, TakeCompletion,
     CompletionGate, CompletionLock, Strand, queueVars, envVars
<1>8. ASSUME NEW i \in Interjections, Interject(i) PROVE SendNowTexts'
  <2>1. i \notin Synthetic /\ unsent' = unsent \ {i} /\ sendNow' \in {sendNow, sendNow \cup {i}}
    BY <1>8 DEF Interject
  <2> QED BY <1>1, <1>2, <2>1
<1>9. ASSUME NEW id \in Ids, TurnStep(id) PROVE SendNowTexts'
  BY <1>1, <1>9, TurnStepEffect
<1> QED BY <1>4, <1>5, <1>6, <1>7, <1>8, <1>9, StepKinds

\* While a send-now cancel is due or under way the send-now prompt stays next.
LEMMA SendNowNextStep ==
  ASSUME TypeOK, Placed, FrontIsRunning, SendNowTexts, SendNowNext, SendNowSurvivesItsCancel,
         [Next]_vars
  PROVE  SendNowNext' /\ SendNowSurvivesItsCancel'
<1>0. pending \in Seq(Ids) /\ Distinct(pending) /\ Queued = ToSet(pending)
  BY QueueFacts
<1>1. ASSUME pc' \notin {"cancel", "cancelLock", "cancelGate", "cancelAbort", "cancelEnd"}
      PROVE  SendNowNext' /\ SendNowSurvivesItsCancel'
  BY <1>1 DEF SendNowNext, CancelDue, SendNowSurvivesItsCancel, InCancel
<1>2. ASSUME pc' = pc, pc # "stopped", cancel' = cancel, running' = running, sendNow' = sendNow,
             \/ pending' = pending
             \/ \E w \in WakePrompts : pending' = Sweep(pending, running, {w})
             \/ \E p \in PlanPrompts : pending' = Append(pending, p)
      PROVE  SendNowNext' /\ SendNowSurvivesItsCancel'
  <2>1. /\ (FrontIs(pending, running) /\ Len(pending) >= 2 /\ pending[2] \in sendNow)
              => Len(pending') >= 2 /\ pending'[2] \in sendNow
        /\ (pending # <<>> /\ Head(pending) \in sendNow)
              => pending' # <<>> /\ Head(pending') \in sendNow
    BY <1>2, FirstItems DEF SendNowTexts
  <2>2. running # None => FrontIs(pending, running)
    BY <1>2 DEF FrontIsRunning
  <2>3. SendNowNext'
    BY <1>2, <2>1, <2>2 DEF SendNowNext, CancelDue
  <2>4. SendNowSurvivesItsCancel'
    BY <1>2, <2>1 DEF SendNowSurvivesItsCancel, InCancel
  <2> QED BY <2>3, <2>4
<1>3. CASE Quiet
  <2>1. ASSUME NEW id \in Ids, NEW requested \in BOOLEAN, Prompt(id, requested)
        PROVE  SendNowNext' /\ SendNowSurvivesItsCancel'
    <3>1. /\ pc = "loop" /\ id \in unsent /\ QueueInput(id, requested) /\ running' = running
          /\ pc' = IF RunsNext(id, requested) /\ Cancellable THEN "cancel" ELSE "start"
      BY <2>1 DEF Prompt, AtSelect
    <3>2. CASE RunsNext(id, requested) /\ Cancellable
      <4> DEFINE kept == QueueAfterPreempt(id)
      <4>1. running # None /\ FrontIs(pending, running)
        BY <3>1, <3>2 DEF Cancellable, FrontIsRunning
      <4>2. kept \in Seq(Ids) /\ FrontIs(kept, running)
        BY <1>0, <4>1, SweepFacts DEF QueueAfterPreempt
      <4>3. pending' = InsertSendNow(kept, running, sendNow, id) /\ sendNow' = sendNow \cup {id}
        BY <3>1, <3>2 DEF QueueInput
      <4> HIDE DEF kept
      <4>4. Len(pending') >= 2 /\ pending'[2] \in sendNow'
        BY <4>2, <4>3, InsertNext
      <4> QED BY <3>1, <3>2, <4>1, <4>4 DEF SendNowNext, SendNowSurvivesItsCancel, InCancel
    <3>3. CASE ~(RunsNext(id, requested) /\ Cancellable)
      BY <1>1, <3>1, <3>3
    <3> QED BY <3>2, <3>3
  <2>2. ASSUME NEW id \in UserPrompts, NEW c \in Clients \cup {None}, InterjectQueued(id, c)
        PROVE  SendNowNext' /\ SendNowSurvivesItsCancel'
    <3> DEFINE kept == Kept(pending, Ids \ {id})
    <3>1. /\ pc = "loop" /\ running' = running /\ id # running /\ id \in Ids
          /\ pending' = InsertSendNow(kept, running, sendNow, id) /\ sendNow' = sendNow \cup {id}
          /\ pc' = IF Cancellable THEN "cancel" ELSE "start"
      BY <2>2, IdFacts DEF InterjectQueued, AtSelect
    <3>2. CASE Cancellable
      <4>1. running # None /\ FrontIs(pending, running) /\ running \in Ids
        BY <3>1, <3>2 DEF Cancellable, FrontIsRunning, TypeOK, QueueType
      <4>2. kept \in Seq(Ids) /\ FrontIs(kept, running)
        <5>1. kept \in Seq(Ids)
          BY <1>0, KeptFacts
        <5> QED BY <1>0, <3>1, <4>1, <5>1, KeptFront
      <4> HIDE DEF kept
      <4>3. Len(pending') >= 2 /\ pending'[2] \in sendNow'
        BY <3>1, <4>2, InsertNext
      <4> QED BY <3>1, <3>2, <4>1, <4>3 DEF SendNowNext, SendNowSurvivesItsCancel, InCancel
    <3>3. CASE ~Cancellable
      BY <1>1, <3>1, <3>3
    <3> QED BY <3>2, <3>3
  <2>3. ASSUME NEW p \in PlanPrompts, PlanResume(p)
        PROVE  SendNowNext' /\ SendNowSurvivesItsCancel'
    <3>1. /\ QueueInput(p, FALSE) /\ pc' = pc /\ pc # "stopped" /\ cancel' = cancel
          /\ running' = running
      BY <2>3 DEF PlanResume, actorVars
    <3> QED BY <1>2, <3>1, PlanQueue
  <2>4. CASE \/ \E id \in UserPrompts, c \in Clients \cup {None} : RemoveQueued(id, c)
             \/ \E c \in Clients \cup {None} : ClearQueue(c)
             \/ \E order \in Orders : ReorderQueue(order)
             \/ \E g \in GoalPrompts : GoalSummary(g)
             \/ InjectNotification \/ Shutdown \/ TurnEnd \/ Flush \/ Drain
    <3>1. pc' \notin {"cancel", "cancelLock", "cancelGate", "cancelAbort", "cancelEnd"}
      BY <2>4 DEF RemoveQueued, ClearQueue, ReorderQueue, GoalSummary, InjectNotification,
         Shutdown, TurnEnd, Flush, Drain, AtSelect
    <3> QED BY <1>1, <3>1
  <2>5. CASE Parked \/ UNCHANGED vars
    <3>1. UNCHANGED vars
      BY <2>5 DEF Parked
    <3> QED BY <3>1 DEF vars, SendNowNext, CancelDue, SendNowSurvivesItsCancel, InCancel
  <2> QED BY <1>3, <2>1, <2>2, <2>3, <2>4, <2>5 DEF Quiet
<1>4. CASE Kick
  <2>1. /\ pending' = pending /\ sendNow' = sendNow /\ cancel' = cancel
        /\ \/ pc' = pc /\ pc # "stopped"
           \/ pc' \in {"loop", "drain"}
        /\ running' = running \/ running = None
    BY <1>4, KickEffect
  <2>2. CASE pc' \in {"loop", "drain"}
    BY <1>1, <2>2
  <2>3. CASE pc' = pc /\ pc # "stopped"
    <3>1. SendNowNext'
      BY <2>1, <2>3 DEF SendNowNext, CancelDue
    <3>2. SendNowSurvivesItsCancel'
      BY <2>1, <2>3 DEF SendNowSurvivesItsCancel, InCancel
    <3> QED BY <3>1, <3>2
  <2> QED BY <2>1, <2>2, <2>3
<1>5. CASE CancelForSendNow
  BY <1>5 DEF CancelForSendNow, BeginCancel, SendNowNext, CancelDue, SendNowSurvivesItsCancel,
     InCancel, queueVars
<1>6. ASSUME NEW mode \in CancelModes, CancelCommand(mode)
      PROVE  SendNowNext' /\ SendNowSurvivesItsCancel'
  <2>1. pc' = "cancelLock" /\ cancel'.mode = mode /\ mode # "send_now"
    BY <1>6 DEF CancelCommand, BeginCancel, NoCancel
  <2> QED BY <2>1 DEF SendNowNext, CancelDue, SendNowSurvivesItsCancel, InCancel
<1>7. CASE CancelLock
  <2>1. pc = "cancelLock" /\ pc' = "cancelGate" /\ sendNow' = sendNow /\ cancel'.mode = cancel.mode
    BY <1>7 DEF CancelLock, TypeOK, ActorType, CancelRecords
  <2>2. ASSUME cancel.mode = "send_now" PROVE pending' # <<>> /\ Head(pending') \in sendNow'
    <3>1. Len(pending) >= 2 /\ pending[2] \in sendNow
      BY <2>1, <2>2 DEF SendNowNext, CancelDue
    <3>2. pending' = Tail(pending)
      BY <1>0, <1>7, <2>2, <3>1 DEF CancelLock, CancelRewinds, QueueAfterCancel
    <3>3. Tail(pending) # <<>> /\ Head(Tail(pending)) = pending[2]
      BY <1>0, <3>1
    <3> QED BY <2>1, <3>1, <3>2, <3>3
  <2> QED BY <2>1, <2>2 DEF SendNowNext, CancelDue, SendNowSurvivesItsCancel
<1>8. CASE CancelGate \/ CancelAbort
  BY <1>8 DEF CancelGate, CancelAbort, SendNowNext, CancelDue, SendNowSurvivesItsCancel, InCancel,
     queueVars, actorVars
<1>9. CASE CancelEnd \/ TakeCompletion \/ CompletionGate \/ CompletionLock \/ Strand
  <2>1. pc' \notin {"cancel", "cancelLock", "cancelGate", "cancelAbort", "cancelEnd"}
    BY <1>9 DEF CancelEnd, TakeCompletion, CompletionGate, CompletionLock, Strand
  <2> QED BY <1>1, <2>1
<1>10. ASSUME NEW i \in Interjections, Interject(i) PROVE SendNowNext' /\ SendNowSurvivesItsCancel'
  <2>1. pc' \in {"loop", "start"}
    BY <1>10 DEF Interject, AtSelect
  <2> QED BY <1>1, <2>1
<1>11. ASSUME pc # "stopped", NEW id \in Ids, TurnStep(id)
       PROVE  SendNowNext' /\ SendNowSurvivesItsCancel'
  BY <1>2, <1>11, TurnStepEffect, TurnStepQueue
<1> QED BY <1>3, <1>4, <1>5, <1>6, <1>7, <1>8, <1>9, <1>10, <1>11, StepKinds
     DEF Settling, CancelBegins

\* Send-now bookkeeping is an invariant.
LEMMA SendNowInvariant == Spec => [](SendNowTexts /\ SendNowNext /\ SendNowSurvivesItsCancel)
<1>1. Init => SendNowTexts /\ SendNowNext /\ SendNowSurvivesItsCancel
  BY DEF Init, SendNowTexts, SendNowNext, CancelDue, SendNowSurvivesItsCancel, InCancel
<1>2. /\ TypeOK /\ Placed /\ FrontIsRunning /\ [Next]_vars
      /\ SendNowTexts /\ SendNowNext /\ SendNowSurvivesItsCancel
      => (SendNowTexts /\ SendNowNext /\ SendNowSurvivesItsCancel)'
  BY SendNowTextsStep, SendNowNextStep
<1> QED BY <1>1, <1>2, TypeCorrect, RunningTurnIsFront, PlacedInvariant, PTL DEF Spec

\* The cancel that makes room for a send-now prompt leaves such a prompt at the
\* front, whatever the turn and the detached tasks did between queue_input and
\* the cancel's lock.
THEOREM SendNowOutlivesCancel == Spec => []SendNowSurvivesItsCancel
BY SendNowInvariant, PTL

-----------------------------------------------------------------------------
(* Nothing but a client's reorder puts an ordinary prompt before a send-now *)
(* one.                                                                    *)

\* In front of an item of now there are only items of now and the slot of r.
FirstIn(q, r, now) ==
    \A i, j \in DOMAIN q : (i < j /\ q[j] \in now /\ q[i] # r) => q[i] \in now

\* Dropping items changes nothing of the order of the others.
LEMMA FirstKept ==
  ASSUME NEW q \in Seq(Ids), NEW keep, NEW r, NEW now, FirstIn(q, r, now)
  PROVE  Kept(q, keep) \in Seq(Ids) /\ FirstIn(Kept(q, keep), r, now)
<1> DEFINE p == Kept(q, keep)
<1>1. p \in Seq(Ids) /\ DOMAIN p = 1..Len(p) /\ DOMAIN q = 1..Len(q)
  BY KeptFacts
<1>2. \A j, k \in 1..Len(p) : j < k => \E i, l \in 1..Len(q) : i < l /\ p[j] = q[i] /\ p[k] = q[l]
  BY KeptOrder
<1> HIDE DEF p
<1>3. FirstIn(p, r, now)
  BY <1>1, <1>2 DEF FirstIn
<1> QED BY <1>1, <1>3 DEF p

\* An ordinary item at the end is behind everything.
LEMMA FirstAppend ==
  ASSUME NEW q \in Seq(Ids), NEW r, NEW now, FirstIn(q, r, now), NEW e \in Ids, e \notin now
  PROVE  FirstIn(Append(q, e), r, now)
<1> DEFINE p == Append(q, e)
<1>1. /\ DOMAIN p = 1..(Len(q) + 1) /\ DOMAIN q = 1..Len(q) /\ Len(q) \in Nat
      /\ p[Len(q) + 1] = e /\ \A k \in 1..Len(q) : p[k] = q[k]
  OBVIOUS
<1> HIDE DEF p
<1>2. ASSUME NEW i \in DOMAIN p, NEW j \in DOMAIN p, i < j, p[j] \in now, p[i] # r
      PROVE  p[i] \in now
  <2>1. j \in 1..Len(q) /\ i \in 1..Len(q)
    BY <1>1, <1>2
  <2> QED BY <1>1, <1>2, <2>1 DEF FirstIn
<1>3. FirstIn(p, r, now)
  BY <1>2 DEF FirstIn
<1> QED BY <1>3 DEF p

\* A new send-now item goes behind others and the slot of r only.
LEMMA FirstInsertAt ==
  ASSUME NEW q \in Seq(Ids), NEW r, NEW now, FirstIn(q, r, now),
         NEW e \in Ids, e \notin ToSet(q),
         NEW n \in 0..Len(q), \A m \in 1..n : q[m] \in now \/ q[m] = r
  PROVE  FirstIn(InsertAt(q, n + 1, e), r, now \cup {e})
<1>0. PICK s \in 1..(Len(q) + 1) : s = n + 1
  OBVIOUS
<1> DEFINE p == InsertAt(q, s, e)
<1>1. s = n + 1 /\ s - 1 = n /\ Len(q) \in Nat /\ DOMAIN q = 1..Len(q)
  BY <1>0
<1>2. /\ p \in Seq(Ids) /\ Len(p) = Len(q) + 1
      /\ \A k \in 1..(s - 1) : p[k] = q[k]
      /\ p[s] = e
      /\ \A k \in s..Len(q) : p[k + 1] = q[k]
  BY InsertAtPositions
<1> HIDE DEF p
<1>3. DOMAIN p = 1..(Len(q) + 1)
  BY <1>2
<1>4. ASSUME NEW k \in DOMAIN p, k > n + 1
      PROVE  k - 1 \in DOMAIN q /\ p[k] = q[k - 1] /\ p[k] # e
  <2>1. k - 1 \in (n + 1)..Len(q) /\ (k - 1) + 1 = k /\ k - 1 \in 1..Len(q)
    BY <1>1, <1>3, <1>4
  <2>2. q[k - 1] # e
    BY <2>1, Elements
  <2> QED BY <1>1, <1>2, <2>1, <2>2
<1>5. ASSUME NEW i \in DOMAIN p, NEW j \in DOMAIN p, i < j, p[j] \in now \cup {e}, p[i] # r
      PROVE  p[i] \in now \cup {e}
  <2>1. CASE i <= n
    <3>1. i \in 1..n /\ p[i] = q[i]
      BY <1>1, <1>2, <1>3, <2>1
    <3> QED BY <1>5, <3>1
  <2>2. CASE i = n + 1
    BY <1>1, <1>2, <2>2
  <2>3. CASE i > n + 1
    <3>1. /\ i - 1 \in DOMAIN q /\ p[i] = q[i - 1]
          /\ j - 1 \in DOMAIN q /\ p[j] = q[j - 1] /\ p[j] # e
          /\ i - 1 < j - 1
      BY <1>3, <1>4, <1>5, <2>3
    <3> QED BY <1>5, <3>1 DEF FirstIn
  <2> QED BY <1>3, <2>1, <2>2, <2>3
<1>6. FirstIn(p, r, now \cup {e})
  BY <1>5 DEF FirstIn
<1> QED BY <1>1, <1>6 DEF p

\* Both ways of jumping the queue.
LEMMA FirstInsert ==
  ASSUME NEW q \in Seq(Ids), NEW r, NEW now, FirstIn(q, r, now), NEW e \in Ids, e \notin ToSet(q)
  PROVE  /\ FirstIn(InsertSendNow(q, r, now, e), r, now \cup {e})
         /\ FirstIn(InsertFallback(q, r, e), r, now \cup {e})
<1> DEFINE n == SendNowSlot(q, r, now)
           m == IF FrontIs(q, r) THEN 1 ELSE 0
<1>1. n \in 0..Len(q) /\ \A k \in 1..n : q[k] \in now \/ (k = 1 /\ FrontIs(q, r))
  BY SendNowSlotFacts
<1>2. m \in 0..Len(q) /\ \A k \in 1..m : q[k] = r
  BY DEF FrontIs
<1>3. FrontIs(q, r) => q[1] = r
  BY DEF FrontIs
<1>4. InsertSendNow(q, r, now, e) = InsertAt(q, n + 1, e)
  BY DEF InsertSendNow
<1>5. InsertFallback(q, r, e) = InsertAt(q, m + 1, e)
  BY DEF InsertFallback
<1> HIDE DEF n, m
<1>6. FirstIn(InsertAt(q, n + 1, e), r, now \cup {e})
  BY <1>1, <1>3, FirstInsertAt
<1>7. FirstIn(InsertAt(q, m + 1, e), r, now \cup {e})
  BY <1>2, FirstInsertAt
<1> QED BY <1>4, <1>5, <1>6, <1>7

\* The front leaves the queue and the turn it belonged to is over.
LEMMA FirstTail ==
  ASSUME NEW q \in Seq(Ids), Distinct(q), q # <<>>, NEW r, r # None => FrontIs(q, r), NEW now,
         FirstIn(q, r, now)
  PROVE  FirstIn(Tail(q), None, now)
<1> DEFINE t == Tail(q)
<1>1. /\ DOMAIN t = 1..(Len(q) - 1) /\ DOMAIN q = 1..Len(q) /\ Len(q) \in Nat
      /\ \A k \in 1..(Len(q) - 1) : t[k] = q[k + 1]
  OBVIOUS
<1>2. r # None => q[1] = r
  BY DEF FrontIs
<1> HIDE DEF t
<1>3. ASSUME NEW i \in DOMAIN t, NEW j \in DOMAIN t, i < j, t[j] \in now PROVE t[i] \in now
  <2>1. /\ i + 1 \in DOMAIN q /\ j + 1 \in DOMAIN q /\ i + 1 < j + 1 /\ 1 \in DOMAIN q
        /\ i + 1 # 1 /\ t[i] = q[i + 1] /\ t[j] = q[j + 1]
    BY <1>1, <1>3
  <2>2. q[i + 1] # q[1] /\ q[i + 1] # None
    BY <2>1, IdFacts DEF Distinct
  <2> QED BY <1>2, <1>3, <2>1, <2>2 DEF FirstIn
<1>4. FirstIn(t, None, now)
  BY <1>3 DEF FirstIn
<1> QED BY <1>4 DEF t


\* No step but a reorder puts an ordinary prompt before a send-now one.
LEMMA SendNowFirstStep ==
  ASSUME TypeOK, Placed, FrontIsRunning, NotYetRun, CompletionsStarted, SendNowTexts, [Next]_vars,
         SendNowFirst, ~ \E order \in Orders : ReorderQueue(order)
  PROVE  SendNowFirst'
<1>0. /\ pending \in Seq(Ids) /\ Distinct(pending) /\ unsent \subseteq Ids
      /\ unsent \cap ToSet(pending) = {} /\ unsent \cap sendNow = {}
      /\ FirstIn(pending, running, sendNow)
  BY QueueFacts DEF SendNowTexts, SendNowFirst, FirstIn
<1>1. ASSUME FirstIn(pending', running', sendNow') PROVE SendNowFirst'
  BY <1>1 DEF SendNowFirst, FirstIn
<1>2. ASSUME pending' = pending, running' = running, sendNow' = sendNow PROVE SendNowFirst'
  BY <1>0, <1>1, <1>2
<1>3. ASSUME NEW keep, pending' = Kept(pending, keep), running' = running, sendNow' = sendNow
      PROVE  SendNowFirst'
  BY <1>0, <1>1, <1>3, FirstKept
<1>4. ASSUME NEW e \in unsent, pending' = Append(pending, e), running' = running,
             sendNow' = sendNow
      PROVE  SendNowFirst'
  BY <1>0, <1>1, <1>4, FirstAppend
<1>5. ASSUME NEW e \in Ids, e \notin ToSet(pending), pending' = InsertFallback(pending, running, e),
             running' = running, sendNow' = sendNow \cup {e}
      PROVE  SendNowFirst'
  BY <1>0, <1>1, <1>5, FirstInsert
<1>6. ASSUME NEW id \in unsent, NEW requested, QueueInput(id, requested), running' = running
      PROVE  SendNowFirst'
  <2> DEFINE kept == QueueAfterPreempt(id)
  <2>1. kept \in Seq(Ids) /\ FirstIn(kept, running, sendNow) /\ ToSet(kept) \subseteq ToSet(pending)
    <3>1. CASE PreemptArmed(id)
      <4>1. kept = Sweep(pending, running, Synthetic)
        BY <3>1 DEF QueueAfterPreempt
      <4>2. ToSet(kept) \subseteq ToSet(pending)
        BY <1>0, <4>1, SweepFacts
      <4>3. PICK keep : kept = Kept(pending, keep)
        BY <4>1 DEF Sweep
      <4> QED BY <1>0, <4>2, <4>3, FirstKept
    <3>2. CASE ~PreemptArmed(id)
      BY <1>0, <3>2 DEF QueueAfterPreempt
    <3> QED BY <3>1, <3>2
  <2>2. /\ pending' = IF RunsNext(id, requested) THEN InsertSendNow(kept, running, sendNow, id)
                      ELSE Append(kept, id)
        /\ sendNow' = IF RunsNext(id, requested) THEN sendNow \cup {id} ELSE sendNow
    BY <1>6 DEF QueueInput
  <2> HIDE DEF kept
  <2>3. CASE RunsNext(id, requested)
    BY <1>0, <1>1, <1>6, <2>1, <2>2, <2>3, FirstInsert
  <2>4. CASE ~RunsNext(id, requested)
    BY <1>0, <1>1, <1>6, <2>1, <2>2, <2>4, FirstAppend
  <2> QED BY <2>3, <2>4
<1>7. CASE Quiet
  <2>0. running' = running
    BY <1>7, QuietEffect
  <2>1. ASSUME NEW id \in Ids, NEW requested \in BOOLEAN, Prompt(id, requested)
        PROVE  SendNowFirst'
    BY <1>6, <2>0, <2>1 DEF Prompt
  <2>2. ASSUME NEW id \in UserPrompts, NEW c \in Clients \cup {None}, RemoveQueued(id, c)
        PROVE  SendNowFirst'
    BY <1>3, <2>0, <2>2 DEF RemoveQueued
  <2>3. ASSUME NEW id \in UserPrompts, NEW c \in Clients \cup {None}, InterjectQueued(id, c)
        PROVE  SendNowFirst'
    <3> DEFINE kept == Kept(pending, Ids \ {id})
    <3>1. /\ pending' = InsertSendNow(kept, running, sendNow, id) /\ id \in Ids
          /\ sendNow' = sendNow \cup {id}
      BY <2>3, IdFacts DEF InterjectQueued
    <3>2. kept \in Seq(Ids) /\ FirstIn(kept, running, sendNow)
      BY <1>0, FirstKept
    <3>3. ToSet(kept) = ToSet(pending) \cap (Ids \ {id})
      BY <1>0, KeptFacts
    <3> HIDE DEF kept
    <3> QED BY <1>1, <2>0, <3>1, <3>2, <3>3, FirstInsert
  <2>4. ASSUME NEW c \in Clients \cup {None}, ClearQueue(c) PROVE SendNowFirst'
    <3>1. PICK drop : pending' = Sweep(pending, running, drop)
      BY <2>4 DEF ClearQueue
    <3>2. sendNow' = sendNow
      BY <2>4 DEF ClearQueue
    <3> QED BY <1>3, <2>0, <3>1, <3>2 DEF Sweep
  <2>5. ASSUME NEW g \in GoalPrompts, GoalSummary(g) PROVE SendNowFirst'
    BY <1>4, <2>0, <2>5 DEF GoalSummary
  <2>6. CASE InjectNotification \/ Parked \/ UNCHANGED vars
    BY <1>2, <2>0, <2>6 DEF InjectNotification, Parked, vars, queueVars
  <2>7. CASE Shutdown
    BY <1>3, <2>0, <2>7 DEF Shutdown
  <2>8. CASE TurnEnd
    <3>1. sendNow' = sendNow /\ (pending' = pending \/ \E g \in unsent : pending' = Append(pending, g))
      BY <2>8 DEF TurnEnd
    <3> QED BY <1>2, <1>4, <2>0, <3>1
  <2>9. CASE Drain
    <3>1. sendNow' = sendNow /\ (pending' = pending \/ \E d \in unsent : pending' = Append(pending, d))
      BY <2>9 DEF Drain
    <3> QED BY <1>2, <1>4, <2>0, <3>1
  <2>10. CASE Flush
    <3> DEFINE i == flushing[Len(flushing)]
    <3>1. /\ flushing # <<>> /\ sendNow' = sendNow \cup {i}
          /\ pending' = InsertFallback(pending, running, i)
      BY <2>10 DEF Flush
    <3>2. flushing \in Seq(Interjections) /\ Distinct(flushing)
      BY DEF TypeOK, ActorType, Placed
    <3>3. i \in Flushed /\ i \in Ids
      BY <3>1, <3>2, ButLastFacts, IdFacts DEF Flushed
    <3> HIDE DEF i
    <3>4. i \notin ToSet(pending)
      BY <3>3 DEF Placed, OnePlace, Queued
    <3> QED BY <1>5, <2>0, <3>1, <3>3, <3>4
  <2>11. ASSUME NEW p \in PlanPrompts, PlanResume(p) PROVE SendNowFirst'
    BY <1>6, <2>0, <2>11 DEF PlanResume
  <2> QED BY <1>7, <2>1, <2>2, <2>3, <2>4, <2>5, <2>6, <2>7, <2>8, <2>9, <2>10, <2>11 DEF Quiet
<1>8. CASE Kick
  <2>1. pending' = pending /\ sendNow' = sendNow /\ (running' = running \/ running = None)
    BY <1>8, KickEffect
  <2>2. CASE running' = running
    BY <1>2, <2>1, <2>2
  <2>3. CASE running = None
    <3>1. \A k \in DOMAIN pending : pending[k] # None
      BY <1>0
    <3>2. FirstIn(pending', running', sendNow')
      BY <1>0, <2>1, <2>3, <3>1 DEF FirstIn
    <3> QED BY <1>1, <3>2
  <2> QED BY <2>1, <2>2, <2>3
<1>9. CASE CancelBegins
  BY <1>2, <1>9, CancelBeginsEffect
<1>10. CASE CancelGate \/ CancelAbort \/ CancelEnd \/ TakeCompletion \/ CompletionGate \/ Strand
  BY <1>2, <1>10 DEF CancelGate, CancelAbort, CancelEnd, TakeCompletion, CompletionGate, Strand,
     queueVars
<1>11. CASE CancelLock
  <2>1. pc # "stopped" /\ running' = None /\ sendNow' = sendNow
    BY <1>11 DEF CancelLock
  <2>2. pending' = <<>> \/ (pending # <<>> /\ pending' = Tail(pending))
    BY <1>11 DEF CancelLock, CancelRewinds, QueueAfterCancel
  <2>3. CASE pending' = <<>>
    BY <1>1, <2>3 DEF FirstIn
  <2>4. CASE pending # <<>> /\ pending' = Tail(pending)
    <3>1. running # None => FrontIs(pending, running)
      BY <2>1 DEF FrontIsRunning
    <3> QED BY <1>0, <1>1, <2>1, <2>4, <3>1, FirstTail
  <2> QED BY <2>2, <2>3, <2>4
<1>12. CASE CompletionLock
  <2>1. pc # "stopped" /\ sendNow' = sendNow
        /\ pending' = IF CompletionOwned THEN Tail(pending) ELSE pending
    BY <1>12 DEF CompletionLock
  <2>2. CASE CompletionOwned
    <3>1. pending # <<>> /\ running' = None /\ (running # None => FrontIs(pending, running))
      BY <1>12, <2>1, <2>2, CompletionMeans DEF CompletionOwned, FrontIs, FrontIsRunning
    <3> QED BY <1>0, <1>1, <2>1, <2>2, <3>1, FirstTail
  <2>3. CASE ~CompletionOwned
    BY <1>2, <1>12, <2>1, <2>3, CompletionMeans
  <2> QED BY <2>2, <2>3
<1>13. ASSUME NEW i \in Interjections, Interject(i) PROVE SendNowFirst'
  <2>1. /\ i \in unsent /\ i \in Ids /\ running' = running
        /\ \/ pending' = pending /\ sendNow' = sendNow
           \/ pending' = InsertFallback(pending, running, i) /\ sendNow' = sendNow \cup {i}
    BY <1>13, IdFacts DEF Interject
  <2> QED BY <1>0, <1>2, <1>5, <2>1
<1>14. ASSUME NEW id \in Ids, TurnStep(id) PROVE SendNowFirst'
  <2>1. running' = running /\ sendNow' = sendNow
    BY <1>14, TurnStepEffect
  <2>2. pending' = pending \/ \E w \in WakePrompts : pending' = Sweep(pending, running, {w})
    BY <1>14, TurnStepQueue
  <2> QED BY <1>2, <1>3, <2>1, <2>2 DEF Sweep
<1> QED BY <1>7, <1>8, <1>9, <1>10, <1>11, <1>12, <1>13, <1>14, StepKinds DEF Settling

\* queue_input, a promoted row and an interjection's fallback wait behind the
\* running turn and other send-now prompts only, and no later step but a client's
\* reorder puts an ordinary prompt before one.
THEOREM SendNowKeepsItsPlace == Spec => SendNowStaysFirst
<1>1. /\ TypeOK /\ Placed /\ FrontIsRunning /\ TurnInv /\ SendNowTexts /\ [Next]_vars
      => [(SendNowFirst /\ ~ \E order \in Orders : ReorderQueue(order)) => SendNowFirst']_vars
  BY SendNowFirstStep DEF TurnInv
<1> QED BY <1>1, TypeCorrect, PlacedInvariant, RunningTurnIsFront, TurnInvariant, SendNowInvariant, PTL
     DEF Spec, SendNowStaysFirst
=============================================================================
