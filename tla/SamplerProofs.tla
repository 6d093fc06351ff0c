---------------------------- MODULE SamplerProofs ----------------------------
(***************************************************************************)
(* Theorems about the sampler actor: its type invariant, the two safety    *)
(* invariants of the active map, and that it implements RequestLifecycle.  *)
(***************************************************************************)
EXTENDS Sampler, SequenceTheorems, FiniteSetTheorems, WellFoundedInduction, TLAPS

USE SamplerAssumption

\* A finite, non-empty set of naturals has a largest element, the one Max names.
\* By the smallest size of a set that would have none.
LEMMA MaxFacts ==
  ASSUME NEW S \in SUBSET Nat, IsFiniteSet(S), S # {}
  PROVE  Max(S) \in S /\ \A y \in S : y <= Max(S)
<1> DEFINE HasMax(T) == \E x \in T : \A y \in T : x >= y
           Bad == {n \in Nat : \E T \in SUBSET Nat :
                      IsFiniteSet(T) /\ T # {} /\ Cardinality(T) = n /\ ~HasMax(T)}
<1>1. Bad = {}
  <2> SUFFICES ASSUME Bad # {} PROVE FALSE
    OBVIOUS
  <2>1. PICK n \in Bad : \A m \in Bad : ~ (<<m, n>> \in OpToRel(<, Nat))
    <3>1. Bad \subseteq Nat
      OBVIOUS
    <3> QED BY <3>1, NatLessThanWellFounded, WFMin
  <2>2. PICK T \in SUBSET Nat : IsFiniteSet(T) /\ T # {} /\ Cardinality(T) = n /\ ~HasMax(T)
    OBVIOUS
  <2>3. PICK x \in T : TRUE
    BY <2>2
  <2> DEFINE U == T \ {x}
  <2>4. IsFiniteSet(U) /\ Cardinality(U) = n - 1 /\ n - 1 \in Nat
    <3>1. IsFiniteSet(U) /\ Cardinality(U) = n - 1
      BY <2>2, <2>3, FS_RemoveElement
    <3> QED BY <3>1, FS_CardinalityType
  <2>5. U # {}
    BY <2>2, <2>3
  <2>6. HasMax(U)
    <3>1. n - 1 < n /\ n \in Nat
      BY <2>4
    <3>2. <<n - 1, n>> \in OpToRel(<, Nat)
      BY <3>1, <2>4 DEF OpToRel
    <3>3. n - 1 \notin Bad
      BY <2>1, <3>2
    <3> QED BY <3>3, <2>4, <2>5
  <2>7. PICK m \in U : \A y \in U : m >= y
    BY <2>6
  <2>8. m \in Nat /\ x \in Nat
    BY <2>7, <2>3
  <2>9. CASE m >= x
    BY <2>9, <2>7, <2>2
  <2>10. CASE x >= m
    BY <2>10, <2>7, <2>2, <2>8
  <2> QED BY <2>8, <2>9, <2>10
<1>2. Cardinality(S) \in Nat
  BY FS_CardinalityType
<1>3. HasMax(S)
  BY <1>1, <1>2
<1> HIDE DEF Bad
<1>4. Max(S) \in S /\ \A y \in S : Max(S) >= y
  BY <1>3 DEF Max
<1> QED BY <1>4

\* The budgets: every limit is a natural below the largest, and so is 1.
LEMMA LimitFacts ==
  /\ Limits \subseteq Nat /\ DefaultLimit \in Limits /\ OtherLimits \subseteq Limits
  /\ Max(Limits \cup {1}) \in Nat
  /\ 1 <= Max(Limits \cup {1}) /\ \A l \in Limits : l <= Max(Limits \cup {1})
<1>1. Limits \subseteq Nat /\ DefaultLimit \in Limits /\ OtherLimits \subseteq Limits
  BY DEF Limits
<1>2. IsFiniteSet(Limits \cup {1})
  BY FS_AddElement DEF Limits
<1>3. Limits \cup {1} \in SUBSET Nat /\ Limits \cup {1} # {}
  BY <1>1
<1> QED BY <1>1, <1>2, <1>3, MaxFacts
-----------------------------------------------------------------------------
(* The inductive invariant.                                                *)

\* A submission is in the channel at most once, and then its task is "sent".
Channel == \A m \in 1..Len(cmds) :
    cmds[m].op = "submit" =>
        /\ task[cmds[m].sub] = "sent"
        /\ \A n \in 1..Len(cmds) :
              cmds[n].op = "submit" /\ cmds[n].sub = cmds[m].sub => m = n

\* A task that has not started has spent nothing.
Unspent == \A s \in Subs : task[s] \in {"new", "sent"} => retries[s] = 0 /\ doom[s] = 0

\* The retries of a transport error stay below the limit; the image strip is the
\* only one beyond it, and it leaves its mark on the request.
InBudget == \A s \in Subs :
    retries[s] <= (IF limit[s] = 0 THEN 0 ELSE limit[s] - 1)
                  + (IF images[s] = "stripped" THEN 1 ELSE 0)

\* A caller that waits holds its guard, and a guard keeps the channel open.
Guarded ==
    /\ \A s \in Subs : answer[s] = "waiting" => s \in guard
    /\ ~handles => guard = {}

\* The loop ends with every handle gone, the channel empty and the map drained.
Ended == stopped => ~handles /\ cmds = <<>> /\ \A i \in Ids : active[i] = None

\* An entry is kept under the id of its own submission.
Keyed == \A i \in Ids : active[i] # None => id[active[i]] = i

\* Cancellable, and for a task that has returned as well: were it not so, its join
\* could remove the entry of another before any cancelled task is joined.
Routed == \A s \in Subs :
    task[s] \in Live \cup {"done"} /\ s \notin token => active[id[s]] = s \/ Overtaken(s)

IInv == TypeOK /\ Channel /\ Unspent /\ InBudget /\ Guarded /\ Ended /\ Keyed
             /\ OnlyPanicsLeaveEntries /\ Routed
-----------------------------------------------------------------------------
(* Callers append commands.                                                *)

\* The commands, by their tag.
LEMMA CommandTags ==
  /\ \A s \in Subs, l \in Limits \cup {None} :
        Submitting(s, l) \in Commands /\ Submitting(s, l).op = "submit" /\ Submitting(s, l).sub = s
  /\ \A i \in Ids : Cancelling(i) \in Commands /\ Cancelling(i).op = "cancel"
  /\ \A l \in Limits : Updating(l) \in Commands /\ Updating(l).op = "update"
<1>1. \A s \in Subs, l \in Limits \cup {None} :
        Submitting(s, l) \in Commands /\ Submitting(s, l).op = "submit" /\ Submitting(s, l).sub = s
  BY DEF Commands, Submitting
<1>2. \A i \in Ids : Cancelling(i) \in Commands /\ Cancelling(i).op = "cancel"
  BY DEF Commands, Cancelling
<1>3. \A l \in Limits : Updating(l) \in Commands /\ Updating(l).op = "update"
  BY DEF Commands, Updating
<1> QED BY <1>1, <1>2, <1>3

\* What a command of the channel carries.
LEMMA CommandFacts ==
  ASSUME NEW c \in Commands
  PROVE  /\ c.op = "submit" => c.sub \in Subs /\ c.limit \in Limits \cup {None}
         /\ c.op = "cancel" => c.id \in Ids
         /\ c.op = "update" => c.limit \in Limits
<1>1. CASE \E s \in Subs, l \in Limits \cup {None} : c = Submitting(s, l)
  BY <1>1 DEF Submitting
<1>2. CASE \E i \in Ids : c = Cancelling(i)
  BY <1>2 DEF Cancelling
<1>3. CASE \E l \in Limits : c = Updating(l)
  BY <1>3 DEF Updating
<1> QED BY <1>1, <1>2, <1>3 DEF Commands

\* A command other than a submission does not disturb the channel.
LEMMA ChannelAppend ==
  ASSUME TypeOK, Channel, NEW c \in Commands, c.op # "submit",
         cmds' = Append(cmds, c), UNCHANGED task
  PROVE  Channel' /\ cmds' \in Seq(Commands)
BY AppendProperties DEF TypeOK, Channel

\* Callers keep the invariant.
LEMMA CallerStep ==
  ASSUME IInv,
         \/ \E s \in Subs, l \in OtherLimits \cup {None} : Submit(s, l)
         \/ \E i \in Ids : Cancel(i)
         \/ \E l \in OtherLimits : UpdateConfig(l)
         \/ \E s \in Subs : CollectEnds(s)
         \/ DropHandles
  PROVE  IInv'
<1> USE LimitFacts
<1>1. ASSUME NEW s \in Subs, NEW l \in OtherLimits \cup {None}, Submit(s, l) PROVE IInv'
  <2>1. Submitting(s, l) \in Commands /\ Submitting(s, l).op = "submit" /\ Submitting(s, l).sub = s
    BY CommandTags
  <2> DEFINE c == Submitting(s, l)
  <2> HIDE DEF c
  <2>2. c \in Commands /\ c.op = "submit" /\ c.sub = s /\ cmds' = Append(cmds, c)
    BY <2>1, <1>1 DEF c, Submit
  <2>3. TypeOK'
    <3>1. cmds' \in Seq(Commands)
      BY <2>2, AppendProperties DEF IInv, TypeOK
    <3>2. /\ task' \in [Subs -> {"new", "sent"} \cup Live \cup Over] /\ guard' \subseteq Collected
          /\ answer' \in [Subs -> {"none", "waiting", "ok", "error", "left"}]
      BY <1>1 DEF IInv, TypeOK, Submit
    <3> QED BY <1>1, <3>1, <3>2 DEF IInv, TypeOK, Submit
  <2>4. Channel'
    <3>1. \A n \in 1..Len(cmds) : cmds[n] \in Commands
      BY DEF IInv, TypeOK
    <3>2. \A n \in 1..Len(cmds) : cmds[n].op = "submit" => cmds[n].sub \in Subs \ {s}
      <4>1. task[s] # "sent"
        BY <1>1 DEF Submit
      <4>2. ASSUME NEW n \in 1..Len(cmds), cmds[n].op = "submit" PROVE cmds[n].sub \in Subs \ {s}
        <5>1. cmds[n].sub \in Subs
          BY <3>1, <4>2, CommandFacts
        <5>2. task[cmds[n].sub] = "sent"
          BY <4>2 DEF IInv, Channel
        <5> QED BY <4>1, <5>1, <5>2
      <4> QED BY <4>2
    <3>3. /\ Len(cmds') = Len(cmds) + 1 /\ cmds'[Len(cmds) + 1] = c
          /\ \A n \in 1..Len(cmds) : cmds'[n] = cmds[n]
          /\ Len(cmds) \in Nat
      BY <2>2, AppendProperties DEF IInv, TypeOK
    <3>4. task' = [task EXCEPT ![s] = "sent"] /\ task \in [Subs -> {"new", "sent"} \cup Live \cup Over]
      BY <1>1 DEF Submit, IInv, TypeOK
    <3> QED BY SMTT(30), <2>2, <3>2, <3>3, <3>4 DEF IInv, Channel
  <2>5. Unspent' /\ InBudget'
    BY <1>1 DEF IInv, TypeOK, Submit, Unspent, InBudget
  <2>6. Guarded' /\ Ended' /\ Keyed'
    BY <1>1 DEF IInv, TypeOK, Submit, Guarded, Ended, Keyed
  <2>7. OnlyPanicsLeaveEntries' /\ Routed'
    BY <1>1 DEF IInv, TypeOK, Submit, OnlyPanicsLeaveEntries, Routed, Overtaken, Live, Over
  <2> QED BY <2>3, <2>4, <2>5, <2>6, <2>7 DEF IInv
<1>2. ASSUME NEW c \in Commands, c.op # "submit", cmds' = Append(cmds, c),
             asks' \in 0..MaxAsks, handles, UNCHANGED <<handles, guard, taskVars, stopped, config, active, token>>
      PROVE  IInv'
  <2>1. Channel' /\ cmds' \in Seq(Commands)
    BY <1>2, ChannelAppend DEF IInv, taskVars
  <2>2. TypeOK'
    BY <1>2, <2>1 DEF IInv, TypeOK, taskVars
  <2>3. Unspent' /\ InBudget' /\ Guarded' /\ Ended' /\ Keyed'
    BY <1>2 DEF IInv, Unspent, InBudget, Guarded, Ended, Keyed, taskVars
  <2>4. OnlyPanicsLeaveEntries' /\ Routed'
    BY <1>2 DEF IInv, OnlyPanicsLeaveEntries, Routed, Overtaken, taskVars
  <2> QED BY <2>1, <2>2, <2>3, <2>4 DEF IInv
<1>3. asks \in 0..MaxAsks
  BY DEF IInv, TypeOK
<1>4. ASSUME NEW i \in Ids, Cancel(i) PROVE IInv'
  BY <1>2, <1>3, <1>4, CommandTags DEF Cancel
<1>5. ASSUME NEW l \in OtherLimits, UpdateConfig(l) PROVE IInv'
  BY <1>2, <1>3, <1>5, CommandTags DEF UpdateConfig
<1>6. ASSUME NEW s \in Subs, CollectEnds(s) PROVE IInv'
  <2>1. Cancelling(id[s]) \in Commands /\ Cancelling(id[s]).op # "submit"
    BY CommandTags
  <2>2. Channel' /\ cmds' \in Seq(Commands)
    BY <1>6, <2>1, ChannelAppend DEF IInv, CollectEnds
  <2>3. TypeOK'
    BY <1>6, <2>2 DEF IInv, TypeOK, CollectEnds
  <2>4. Unspent' /\ InBudget' /\ Guarded' /\ Ended' /\ Keyed'
    BY <1>6 DEF IInv, TypeOK, Unspent, InBudget, Guarded, Ended, Keyed, CollectEnds
  <2>5. OnlyPanicsLeaveEntries' /\ Routed'
    BY <1>6 DEF IInv, OnlyPanicsLeaveEntries, Routed, Overtaken, CollectEnds
  <2> QED BY <2>2, <2>3, <2>4, <2>5 DEF IInv
<1>7. CASE DropHandles
  <2>1. TypeOK'
    BY <1>7 DEF IInv, TypeOK, DropHandles, taskVars
  <2>2. Channel' /\ Unspent' /\ InBudget' /\ Guarded' /\ Ended' /\ Keyed'
    BY <1>7 DEF IInv, Channel, Unspent, InBudget, Guarded, Ended, Keyed, DropHandles, taskVars
  <2>3. OnlyPanicsLeaveEntries' /\ Routed'
    BY <1>7 DEF IInv, OnlyPanicsLeaveEntries, Routed, Overtaken, DropHandles, taskVars
  <2> QED BY <2>1, <2>2, <2>3 DEF IInv
<1> QED BY <1>1, <1>4, <1>5, <1>6, <1>7
-----------------------------------------------------------------------------
(* The actor.                                                              *)

\* Taking the head of the channel, whose submission then has no other command.
LEMMA ChannelTail ==
  ASSUME TypeOK, Channel, cmds # <<>>, cmds' = Tail(cmds)
  PROVE  /\ Head(cmds) \in Commands /\ cmds' \in Seq(Commands)
         /\ Head(cmds).op = "submit" => task[Head(cmds).sub] = "sent"
         /\ \A n \in 1..Len(cmds') : cmds'[n].op = "submit" =>
               /\ cmds'[n].sub \in Subs /\ task[cmds'[n].sub] = "sent"
               /\ Head(cmds).op = "submit" => cmds'[n].sub # Head(cmds).sub
         /\ \A m, n \in 1..Len(cmds') :
               cmds'[m].op = "submit" /\ cmds'[n].op = "submit" /\ cmds'[n].sub = cmds'[m].sub
                  => m = n
<1>1. cmds \in Seq(Commands) /\ Len(cmds) \in Nat \ {0}
  BY EmptySeq DEF TypeOK
<1>2. Head(cmds) = cmds[1] /\ 1 \in 1..Len(cmds)
  BY <1>1
<1>3. /\ Head(cmds) \in Commands /\ Tail(cmds) \in Seq(Commands)
      /\ Len(Tail(cmds)) = Len(cmds) - 1
      /\ \A n \in 1..Len(Tail(cmds)) : Tail(cmds)[n] = cmds[n + 1]
  BY <1>1, HeadTailProperties
<1>4. \A n \in 1..Len(cmds') : cmds'[n] = cmds[n + 1] /\ n + 1 \in 1..Len(cmds) /\ n + 1 # 1
  BY <1>1, <1>3
<1>5. Head(cmds).op = "submit" => task[Head(cmds).sub] = "sent"
  BY <1>2 DEF Channel
<1>6. ASSUME NEW n \in 1..Len(cmds'), cmds'[n].op = "submit"
      PROVE  /\ cmds'[n].sub \in Subs /\ task[cmds'[n].sub] = "sent"
             /\ Head(cmds).op = "submit" => cmds'[n].sub # Head(cmds).sub
  <2>1. cmds'[n] \in Commands
    BY <1>1, <1>4
  <2> QED BY <1>2, <1>4, <1>6, <2>1, CommandFacts DEF Channel
<1>7. ASSUME NEW m \in 1..Len(cmds'), NEW n \in 1..Len(cmds'),
             cmds'[m].op = "submit", cmds'[n].op = "submit", cmds'[n].sub = cmds'[m].sub
      PROVE  m = n
  <2>1. m + 1 = n + 1
    BY <1>4, <1>7 DEF Channel
  <2> QED BY <2>1
<1> QED BY <1>3, <1>5, <1>6, <1>7

\* A submission taken from the channel: a task that was sent starts.
LEMMA HandleSubmitStep ==
  ASSUME IInv, Handle, Head(cmds).op = "submit", HandleSubmit(Head(cmds))
  PROVE  IInv'
<1> DEFINE c == Head(cmds)
           s == c.sub
<1>1. /\ c \in Commands /\ cmds' \in Seq(Commands) /\ task[s] = "sent"
      /\ \A n \in 1..Len(cmds') : cmds'[n].op = "submit" =>
            cmds'[n].sub \in Subs \ {s} /\ task[cmds'[n].sub] = "sent"
      /\ \A m, n \in 1..Len(cmds') :
            cmds'[m].op = "submit" /\ cmds'[n].op = "submit" /\ cmds'[n].sub = cmds'[m].sub
               => m = n
  BY ChannelTail DEF IInv, Handle
<1>2. s \in Subs /\ c.limit \in Limits \cup {None}
  BY <1>1, CommandFacts
<1> DEFINE prev == active[id[s]]
<1>3. /\ active' = [active EXCEPT ![id[s]] = s]
      /\ token' = IF prev = None THEN token ELSE token \cup {prev}
      /\ task' = [task EXCEPT ![s] = "fresh"]
      /\ limit' = [limit EXCEPT ![s] = IF c.limit = None THEN config ELSE c.limit]
      /\ UNCHANGED <<config, handles, guard, asks, images, retries, doom, event, answer, stopped>>
      /\ cmds # <<>>
  BY DEF HandleSubmit, Handle, clientVars
<1> HIDE DEF c, s, prev
<1>4. id[s] \in Ids /\ prev \in Subs \cup {None}
  BY <1>2 DEF IInv, TypeOK, prev
<1>5. TypeOK'
  <2>1. limit' \in [Subs -> Limits]
    BY <1>2, <1>3 DEF IInv, TypeOK
  <2>2. task' \in [Subs -> {"new", "sent"} \cup Live \cup Over]
    BY <1>2, <1>3 DEF IInv, TypeOK, Live
  <2>3. active' \in [Ids -> Subs \cup {None}] /\ token' \subseteq Subs
    BY <1>2, <1>3, <1>4 DEF IInv, TypeOK
  <2> QED BY <1>1, <1>3, <2>1, <2>2, <2>3 DEF IInv, TypeOK
<1>6. Channel'
  <2>1. \A n \in 1..Len(cmds') : cmds'[n].op = "submit" => task'[cmds'[n].sub] = "sent"
    BY <1>1, <1>3 DEF IInv, TypeOK
  <2> QED BY <1>1, <2>1 DEF Channel
<1>7. Unspent' /\ InBudget'
  <2>1. retries[s] = 0 /\ doom[s] = 0
    BY <1>1, <1>2 DEF IInv, Unspent
  <2>2. Unspent'
    BY <1>2, <1>3 DEF IInv, TypeOK, Unspent
  <2>3. InBudget'
    <3> SUFFICES ASSUME NEW t \in Subs
                 PROVE  retries[t] <= (IF limit'[t] = 0 THEN 0 ELSE limit'[t] - 1)
                                      + (IF images[t] = "stripped" THEN 1 ELSE 0)
      BY <1>3 DEF InBudget
    <3>1. CASE t = s
      <4>1. limit'[s] \in Nat
        BY <1>2, <1>5, LimitFacts DEF TypeOK
      <4> QED BY <3>1, <2>1, <4>1
    <3>2. CASE t # s
      <4>1. limit'[t] = limit[t]
        BY <1>3, <1>2, <3>2 DEF IInv, TypeOK
      <4> QED BY <4>1 DEF IInv, InBudget
    <3> QED BY <3>1, <3>2
  <2> QED BY <2>2, <2>3
<1>8. Guarded' /\ Ended' /\ Keyed'
  BY <1>2, <1>3, <1>4 DEF IInv, TypeOK, Guarded, Ended, Keyed
<1>9. OnlyPanicsLeaveEntries'
  BY <1>2, <1>3, <1>4 DEF IInv, TypeOK, OnlyPanicsLeaveEntries, Live
<1>10. Routed'
  <2> SUFFICES ASSUME NEW t \in Subs, task'[t] \in Live \cup {"done"}, t \notin token'
               PROVE  active'[id[t]] = t \/ Overtaken(t)'
    BY DEF Routed
  <2>1. CASE t = s
    BY <2>1, <1>2, <1>3, <1>4 DEF IInv, TypeOK
  <2>2. CASE t # s
    <3>1. task[t] \in Live \cup {"done"} /\ t \notin token
      BY <1>2, <1>3, <2>2 DEF IInv, TypeOK
    <3>2. active[id[t]] = t \/ Overtaken(t)
      BY <3>1 DEF IInv, Routed
    <3>3. token \subseteq token' /\ \A u \in Subs : task[u] = "joined" => task'[u] = "joined"
      BY <1>1, <1>2, <1>3 DEF IInv, TypeOK
    <3>4. Overtaken(t) => Overtaken(t)'
      BY <3>3 DEF Overtaken
    <3>5. CASE id[t] = id[s]
      <4>1. active[id[t]] # t
        BY <1>2, <1>3, <3>5, SamplerAssumption DEF prev
      <4> QED BY <3>2, <3>4, <4>1
    <3>6. CASE id[t] # id[s]
      BY <1>2, <1>3, <3>2, <3>4, <3>6 DEF IInv, TypeOK
    <3> QED BY <3>5, <3>6
  <2> QED BY <2>1, <2>2
<1> QED BY <1>5, <1>6, <1>7, <1>8, <1>9, <1>10 DEF IInv

\* A cancel or a config update taken from the channel.
LEMMA HandleOtherStep ==
  ASSUME IInv, Handle, Head(cmds).op # "submit"
  PROVE  IInv'
<1> DEFINE c == Head(cmds)
<1>1. /\ c \in Commands /\ cmds' \in Seq(Commands) /\ cmds # <<>>
      /\ \A n \in 1..Len(cmds') : cmds'[n].op = "submit" => task[cmds'[n].sub] = "sent"
      /\ \A m, n \in 1..Len(cmds') :
            cmds'[m].op = "submit" /\ cmds'[n].op = "submit" /\ cmds'[n].sub = cmds'[m].sub
               => m = n
  BY ChannelTail DEF IInv, Handle
<1>2. /\ UNCHANGED <<handles, guard, asks, images, retries, doom, event, answer, stopped, task, limit>>
      /\ \/ /\ c.op = "cancel" /\ UNCHANGED config
            /\ token' = IF active[c.id] = None THEN token ELSE token \cup {active[c.id]}
            /\ active' = [active EXCEPT ![c.id] = None]
         \/ c.op = "update" /\ config' = c.limit /\ UNCHANGED <<active, token>>
  BY DEF Handle, HandleCancel, clientVars
<1> HIDE DEF c
<1>3. /\ c.op = "cancel" => c.id \in Ids
      /\ c.op = "update" => c.limit \in Limits
  BY <1>1, CommandFacts
<1>4. TypeOK'
  <2>1. active' \in [Ids -> Subs \cup {None}] /\ token' \subseteq Subs /\ config' \in Limits
    BY ZenonT(60), <1>2, <1>3 DEF IInv, TypeOK
  <2> QED BY <1>1, <1>2, <2>1 DEF IInv, TypeOK
<1>5. Channel'
  BY <1>1, <1>2 DEF Channel
<1>6. Unspent' /\ InBudget' /\ Guarded'
  BY <1>2 DEF IInv, Unspent, InBudget, Guarded
<1>7. Ended' /\ Keyed' /\ OnlyPanicsLeaveEntries'
  <2>1. ~stopped /\ ~stopped'
    BY <1>1, <1>2 DEF IInv, TypeOK, Ended
  <2>2. Keyed' /\ OnlyPanicsLeaveEntries'
    BY ZenonT(60), <1>2, <1>3 DEF IInv, TypeOK, Keyed, OnlyPanicsLeaveEntries
  <2> QED BY <2>1, <2>2 DEF Ended
<1>8. Routed'
  BY <1>2, <1>3 DEF IInv, TypeOK, Routed, Overtaken
<1> QED BY <1>4, <1>5, <1>6, <1>7, <1>8 DEF IInv

\* A task that has started moves on: the channel and the entries of the others
\* are not its business.
LEMMA TaskMoves ==
  ASSUME IInv, NEW s \in Subs, task[s] \notin {"new", "sent", "joined"},
         NEW w \in Live \cup Over, task' = [task EXCEPT ![s] = w],
         UNCHANGED <<cmds, stopped, limit, config, token>>
  PROVE  /\ Channel'
         /\ task' \in [Subs -> {"new", "sent"} \cup Live \cup Over]
         /\ \A t \in Subs : Overtaken(t) => Overtaken(t)'
         /\ Unspent' \/ retries' # retries \/ doom' # doom
<1>1. /\ task' \in [Subs -> {"new", "sent"} \cup Live \cup Over] /\ w \notin {"new", "sent"}
      /\ \A t \in Subs : task'[t] = IF t = s THEN w ELSE task[t]
  BY DEF IInv, TypeOK, Live, Over
<1>2. Channel'
  <2>1. \A n \in 1..Len(cmds) : cmds[n] \in Commands
    BY DEF IInv, TypeOK
  <2>2. ASSUME NEW n \in 1..Len(cmds), cmds[n].op = "submit"
        PROVE  task'[cmds[n].sub] = "sent"
    <3>1. cmds[n].sub \in Subs
      BY <2>1, <2>2, CommandFacts
    <3>2. task[cmds[n].sub] = "sent"
      BY <2>2 DEF IInv, Channel
    <3> QED BY <1>1, <3>1, <3>2
  <2> QED BY <2>2 DEF IInv, Channel
<1>3. \A t \in Subs : Overtaken(t) => Overtaken(t)'
  BY <1>1 DEF Overtaken
<1>4. Unspent' \/ retries' # retries \/ doom' # doom
  BY <1>1 DEF IInv, Unspent
<1> QED BY <1>1, <1>2, <1>3, <1>4

\* join_next, the end of the loop and its abort keep the invariant.
LEMMA LoopStep ==
  ASSUME IInv, (\E s \in Subs : Join(s) \/ Abort(s)) \/ Stop
  PROVE  IInv'
<1>1. ASSUME NEW s \in Subs, NEW w \in {"joined", "lost", "aborted"},
             task[s] \notin {"new", "sent", "joined"}, task' = [task EXCEPT ![s] = w],
             \/ task[s] = "done" /\ w = "joined" /\ active' = Removed(id[s])
             \/ task[s] = "panicked" /\ w = "lost" /\ UNCHANGED active
             \/ stopped /\ UNCHANGED active,
             UNCHANGED <<clientVars, images, limit, retries, doom, event, answer, cmds,
                         stopped, config, token>>
      PROVE  IInv'
  <2>1. /\ Channel' /\ Unspent' /\ task' \in [Subs -> {"new", "sent"} \cup Live \cup Over]
        /\ \A t \in Subs : Overtaken(t) => Overtaken(t)'
    BY <1>1, TaskMoves DEF Over
  <2>2. id[s] \in Ids
    OBVIOUS
  <2>3. /\ active' \in [Ids -> Subs \cup {None}]
        /\ \A i \in Ids : active'[i] = active[i] \/ (active'[i] = None /\ i = id[s] /\ task[s] = "done")
        /\ task[s] = "done" => active'[id[s]] = None \/ stopped
    BY <1>1, <2>2 DEF IInv, TypeOK, Removed
  <2>4. TypeOK'
    BY <1>1, <2>1, <2>3 DEF IInv, TypeOK, clientVars
  <2>5. InBudget' /\ Guarded'
    BY <1>1 DEF IInv, InBudget, Guarded, clientVars
  <2>6. Ended' /\ Keyed'
    BY <1>1, <2>3 DEF IInv, TypeOK, Ended, Keyed, clientVars
  <2>7. \A t \in Subs : task'[t] = IF t = s THEN w ELSE task[t]
    BY <1>1 DEF IInv, TypeOK
  <2>8. OnlyPanicsLeaveEntries'
    <3> SUFFICES ASSUME NEW i \in Ids, active'[i] # None
                 PROVE  task'[active'[i]] \in Live \cup {"done", "panicked", "lost"}
      BY DEF OnlyPanicsLeaveEntries
    <3>1. active'[i] = active[i] /\ active[i] \in Subs /\ ~stopped
      BY <2>3 DEF IInv, TypeOK, Ended
    <3>2. CASE active[i] = s
      BY <3>1, <3>2, <2>3, <2>7, <1>1 DEF IInv, Keyed
    <3>3. CASE active[i] # s
      BY <3>1, <3>3, <2>7 DEF IInv, OnlyPanicsLeaveEntries
    <3> QED BY <3>2, <3>3
  <2>9. Routed'
    <3> SUFFICES ASSUME NEW t \in Subs, task'[t] \in Live \cup {"done"}, t \notin token
                 PROVE  active'[id[t]] = t \/ Overtaken(t)'
      BY <1>1 DEF Routed
    <3>1. t # s /\ task[t] \in Live \cup {"done"}
      BY <1>1, <2>7 DEF Live
    <3>2. active[id[t]] = t \/ Overtaken(t)
      BY <3>1 DEF IInv, Routed
    <3>3. CASE active'[id[t]] = active[id[t]]
      BY <2>1, <3>2, <3>3
    <3>4. CASE active'[id[t]] # active[id[t]]
      <4>1. id[t] = id[s] /\ task[s] = "done" /\ w = "joined"
        BY <1>1, <2>3, <3>4
      <4>2. CASE s \in token
        BY <1>1, <2>7, <3>1, <4>1, <4>2 DEF Overtaken
      <4>3. CASE s \notin token
        <5>1. active[id[s]] = s \/ Overtaken(s)
          BY <4>1, <4>3 DEF IInv, Routed
        <5>2. Overtaken(s) => Overtaken(t)
          BY <3>1, <4>1 DEF Overtaken, Live
        <5>3. Overtaken(t)
          BY <3>1, <3>2, <4>1, <5>1, <5>2
        <5> QED BY <2>1, <5>3
      <4> QED BY <4>2, <4>3
    <3> QED BY <3>3, <3>4
  <2> QED BY <2>1, <2>4, <2>5, <2>6, <2>8, <2>9 DEF IInv
<1>2. ASSUME NEW s \in Subs, Join(s) PROVE IInv'
  BY <1>1, <1>2 DEF Join
<1>3. ASSUME NEW s \in Subs, Abort(s) PROVE IInv'
  <2>1. task[s] \notin {"new", "sent", "joined"}
    BY <1>3 DEF Abort, Live
  <2> QED BY <1>1, <1>3, <2>1 DEF Abort
<1>4. CASE Stop
  <2>1. {active[i] : i \in {j \in Ids : active[j] # None}} \subseteq Subs
    BY DEF IInv, TypeOK
  <2>2. TypeOK'
    BY <1>4, <2>1 DEF IInv, TypeOK, Stop, clientVars, taskVars
  <2>3. Channel' /\ Unspent' /\ InBudget' /\ Guarded'
    BY <1>4 DEF IInv, Channel, Unspent, InBudget, Guarded, Stop, clientVars, taskVars
  <2>4. Ended' /\ Keyed' /\ OnlyPanicsLeaveEntries'
    BY <1>4 DEF Ended, Keyed, OnlyPanicsLeaveEntries, Stop, clientVars
  <2>5. Routed'
    <3> SUFFICES ASSUME NEW t \in Subs, task[t] \in Live \cup {"done"}, t \notin token' PROVE Overtaken(t)'
      BY <1>4 DEF Routed, Stop, taskVars
    <3>1. t \notin token /\ active[id[t]] # t
      <4>1. id[t] \in Ids /\ t # None
        OBVIOUS
      <4> QED BY <1>4, <4>1 DEF Stop
    <3>2. Overtaken(t)
      BY <3>1 DEF IInv, Routed
    <3> QED BY <1>4, <3>2 DEF Overtaken, Stop, taskVars
  <2> QED BY <2>2, <2>3, <2>4, <2>5 DEF IInv
<1> QED BY <1>2, <1>3, <1>4
-----------------------------------------------------------------------------
(* The request task.                                                       *)

\* What a retry of each kind may add to the count: an error that is retried stays
\* below the limit of the submission.
LEMMA DecisionFacts ==
  ASSUME NEW err \in Errors, NEW n \in Nat, NEW max \in Nat
  PROVE  /\ Decision(err, n, max) \in {"give up", "retry", "strip"}
         /\ Decision(err, n, max) = "retry" => n + 1 < max
<1>1. Min({max, RateThreshold}) <= max
  <2>1. \E x \in {max, RateThreshold} : \A y \in {max, RateThreshold} : x <= y
    OBVIOUS
  <2> QED BY <2>1 DEF Min
<1>2. Min({max, RateThreshold}) \in Nat
  <2>1. \E x \in {max, RateThreshold} : \A y \in {max, RateThreshold} : x <= y
    OBVIOUS
  <2> QED BY <2>1 DEF Min
<1>3. Cap(err, max) \in Nat /\ Cap(err, max) <= max
  BY <1>1, <1>2 DEF Cap
<1> QED BY <1>3 DEF Decision, Errors

\* Within the request task: the attempt goes on, ...
GoesOn(s) == /\ \E w \in Live : task' = [task EXCEPT ![s] = w]
             /\ UNCHANGED <<event, answer>>

\* ... is retried below the limit or for the one strip of its images, ...
RetryStep(s) ==
    /\ GoesOn(s) /\ Retried(s) /\ UNCHANGED doom
    /\ \/ /\ retries[s] + 1 < limit[s]
          /\ images' \in {images, [images EXCEPT ![s] = "shed"]}
          /\ images' # images => images[s] = "inline"
       \/ images[s] = "inline" /\ images' = [images EXCEPT ![s] = "stripped"]

\* ... or resampled, ...
ResampleStep(s) == GoesOn(s) /\ doom[s] < DoomMax /\ Resamples(s) /\ UNCHANGED images

\* ... or the task ends.
EndStep(s) ==
    /\ Finish(s, "completed") \/ Finish(s, "failed") \/ Panic(s)
    /\ UNCHANGED <<images, retries, doom>>

\* Every step of a request task is one of these, on a task that runs.
LEMMA TaskShape ==
  ASSUME IInv, NEW s \in Subs, Step(s) \/ Panic(s)
  PROVE  /\ task[s] \in Live /\ UNCHANGED actorVars
         /\ \/ GoesOn(s) /\ UNCHANGED <<images, retries, doom>>
            \/ RetryStep(s) \/ ResampleStep(s) \/ EndStep(s)
<1>1. CASE Begin(s)
  BY <1>1 DEF Begin, EndStep, Live
<1>2. CASE Top(s)
  BY <1>2 DEF Top, Goto, GoesOn, EndStep, Live
<1>3. CASE Connect(s)
  BY <1>3 DEF Connect, Goto, GoesOn, Live
<1>4. CASE Complete(s)
  BY <1>4 DEF Complete, EndStep, Live
<1>5. CASE DoomLoop(s)
  BY <1>5 DEF DoomLoop, Goto, GoesOn, ResampleStep, Live
<1>6. ASSUME NEW err \in Errors, Fail(s, err)
      PROVE  /\ task[s] \in Live /\ UNCHANGED actorVars
             /\ RetryStep(s) \/ EndStep(s)
  <2>1. retries[s] \in Nat /\ limit[s] \in Nat
    <3>1. limit[s] \in Limits /\ retries[s] \in 0..Max(Limits \cup {1})
      BY DEF IInv, TypeOK
    <3>2. limit[s] \in Nat
      BY <3>1, LimitFacts
    <3>3. Max(Limits \cup {1}) \in Nat
      BY LimitFacts
    <3>4. retries[s] \in Nat
      BY <3>1, <3>3
    <3> QED BY <3>2, <3>4
  <2>2. task[s] \in Live /\ UNCHANGED <<actorVars, doom>> /\ Decide(s, err)
    BY <1>6 DEF Fail, Live
  <2> DEFINE d == Decision(err, retries[s], limit[s])
  <2>3. d = "retry" => retries[s] + 1 < limit[s]
    BY <2>1, DecisionFacts
  <2>4. CASE d = "retry" /\ Retried(s) /\ Goto(s, "top")
              /\ images' = IF err = "body" /\ images[s] = "inline"
                           THEN [images EXCEPT ![s] = "shed"] ELSE images
    BY <2>2, <2>3, <2>4 DEF RetryStep, GoesOn, Goto, Live
  <2>5. CASE images[s] = "inline" /\ Retried(s) /\ Goto(s, "top")
              /\ images' = [images EXCEPT ![s] = "stripped"]
    BY <2>2, <2>5 DEF RetryStep, GoesOn, Goto, Live
  <2>6. CASE Finish(s, "failed") /\ UNCHANGED <<images, retries>>
    BY <2>2, <2>6 DEF EndStep
  <2> QED BY <2>2, <2>4, <2>5, <2>6 DEF Decide
<1>7. CASE Panic(s)
  BY <1>7 DEF Panic, EndStep
<1> QED BY <1>1, <1>2, <1>3, <1>4, <1>5, <1>6, <1>7 DEF Step

\* A request task keeps the invariant.
LEMMA TaskStep ==
  ASSUME IInv, NEW s \in Subs, Step(s) \/ Panic(s)
  PROVE  IInv'
<1>1. /\ task[s] \in Live /\ UNCHANGED actorVars
      /\ \/ GoesOn(s) /\ UNCHANGED <<images, retries, doom>>
         \/ RetryStep(s) \/ ResampleStep(s) \/ EndStep(s)
  BY TaskShape
<1>2. task[s] \notin {"new", "sent", "joined"}
  BY <1>1 DEF Live
<1>3. PICK w \in Live \cup {"done", "panicked"} : task' = [task EXCEPT ![s] = w]
  BY <1>1 DEF GoesOn, RetryStep, ResampleStep, EndStep, Finish, Panic
<1>4. /\ event' \in [Subs -> {"none", "completed", "failed"}]
      /\ answer' \in [Subs -> {"none", "waiting", "ok", "error", "left"}]
      /\ \A t \in Subs : answer'[t] = "waiting" => answer[t] = "waiting"
  <2>1. CASE UNCHANGED <<event, answer>>
    BY <2>1 DEF IInv, TypeOK
  <2>2. CASE Finish(s, "completed") \/ Finish(s, "failed")
    BY ZenonT(60), <2>2 DEF IInv, TypeOK, Finish
  <2>3. CASE Panic(s)
    BY <2>3 DEF IInv, TypeOK, Panic
  <2> QED BY <1>1, <2>1, <2>2, <2>3 DEF GoesOn, RetryStep, ResampleStep, EndStep
<1>5. /\ Channel' /\ task' \in [Subs -> {"new", "sent"} \cup Live \cup Over]
      /\ \A t \in Subs : Overtaken(t) => Overtaken(t)'
  BY <1>1, <1>2, <1>3, TaskMoves DEF Over, actorVars
<1>6. /\ retries' \in [Subs -> Nat] /\ doom' \in [Subs -> 0..DoomMax]
      /\ images' \in [Subs -> {"none", "inline", "stripped", "shed"}]
      /\ \A t \in Subs \ {s} : retries'[t] = retries[t] /\ doom'[t] = doom[t] /\ images'[t] = images[t]
      /\ retries'[s] = retries[s] => images'[s] = images[s]
  <2>1. retries \in [Subs -> Nat]
    BY LimitFacts DEF IInv, TypeOK
  <2>2. CASE UNCHANGED <<images, retries, doom>>
    BY <2>1, <2>2 DEF IInv, TypeOK
  <2>3. CASE RetryStep(s)
    <3>1. retries' = [retries EXCEPT ![s] = retries[s] + 1] /\ UNCHANGED doom
      BY <2>3 DEF RetryStep, Retried
    <3>2. images' \in {images, [images EXCEPT ![s] = "shed"], [images EXCEPT ![s] = "stripped"]}
      BY <2>3 DEF RetryStep
    <3>3. retries[s] + 1 # retries[s] /\ retries[s] \in Nat
      BY <2>1
    <3>4. retries' \in [Subs -> Nat] /\ \A t \in Subs \ {s} : retries'[t] = retries[t]
      BY <2>1, <3>1
    <3>5. images' \in [Subs -> {"none", "inline", "stripped", "shed"}]
          /\ \A t \in Subs \ {s} : images'[t] = images[t]
      BY <3>2 DEF IInv, TypeOK
    <3>6. retries'[s] # retries[s]
      BY <2>1, <3>1, <3>3
    <3> QED BY <3>1, <3>4, <3>5, <3>6 DEF IInv, TypeOK
  <2>4. CASE ResampleStep(s)
    BY <2>1, <2>4 DEF IInv, TypeOK, ResampleStep, Resamples
  <2> QED BY <1>1, <2>2, <2>3, <2>4 DEF EndStep
<1>7. \A t \in Subs : limit[t] \in Nat /\ limit[t] <= Max(Limits \cup {1}) /\ limit'[t] = limit[t]
  BY <1>1, LimitFacts DEF IInv, TypeOK, actorVars
<1>8. InBudget'
  <2> SUFFICES ASSUME NEW t \in Subs
               PROVE  retries'[t] <= (IF limit[t] = 0 THEN 0 ELSE limit[t] - 1)
                                     + (IF images'[t] = "stripped" THEN 1 ELSE 0)
    BY <1>7 DEF InBudget
  <2>1. retries[t] \in Nat /\ retries[t] <= (IF limit[t] = 0 THEN 0 ELSE limit[t] - 1)
                            + (IF images[t] = "stripped" THEN 1 ELSE 0)
    BY LimitFacts DEF IInv, TypeOK, InBudget
  <2>2. CASE retries'[t] = retries[t]
    BY <1>6, <2>1, <2>2
  <2>3. CASE t = s /\ RetryStep(s)
    <3>1. retries'[s] = retries[s] + 1
      BY <2>3 DEF IInv, TypeOK, RetryStep, Retried
    <3>2. CASE retries[s] + 1 < limit[s]
      BY <3>1, <3>2, <2>3, <1>7, <1>6, <2>1
    <3>3. CASE images[s] = "inline" /\ images' = [images EXCEPT ![s] = "stripped"]
      <4>1. images'[s] = "stripped" /\ images[s] # "stripped"
        BY <3>3 DEF IInv, TypeOK
      <4> QED BY <3>1, <4>1, <2>1, <2>3, <1>7
    <3> QED BY <2>3, <3>2, <3>3 DEF RetryStep
  <2> QED BY <1>1, <1>6, <2>2, <2>3 DEF ResampleStep, Resamples, EndStep
<1>9. TypeOK'
  <2>1. \A t \in Subs : retries'[t] \in 0..Max(Limits \cup {1})
    <3> TAKE t \in Subs
    <3>1. retries'[t] \in Nat /\ retries'[t] <= (IF limit[t] = 0 THEN 0 ELSE limit[t] - 1) + 1
      BY <1>6, <1>7, <1>8 DEF InBudget
    <3>2. CASE limit[t] = 0
      BY <3>1, <3>2, LimitFacts
    <3>3. CASE limit[t] # 0
      <4>1. limit[t] \in Nat /\ limit[t] <= Max(Limits \cup {1}) /\ Max(Limits \cup {1}) \in Nat
        BY <1>7, LimitFacts
      <4>2. retries'[t] <= limit[t]
        BY <3>1, <3>3, <4>1
      <4> QED BY <3>1, <4>1, <4>2
    <3> QED BY <3>2, <3>3
  <2>2. retries' \in [Subs -> 0..Max(Limits \cup {1})]
    BY <1>6, <2>1
  <2> QED BY <1>1, <1>4, <1>5, <1>6, <2>2 DEF IInv, TypeOK, actorVars, clientVars
<1>10. \A t \in Subs : task'[t] = IF t = s THEN w ELSE task[t]
  BY <1>3 DEF IInv, TypeOK
<1>11. Unspent'
  BY <1>6, <1>10 DEF IInv, Unspent, Live
<1>12. Guarded' /\ Ended' /\ Keyed'
  BY <1>1, <1>4 DEF IInv, Guarded, Ended, Keyed, actorVars, clientVars
<1>13. OnlyPanicsLeaveEntries'
  BY ZenonT(60), <1>1, <1>10 DEF IInv, TypeOK, OnlyPanicsLeaveEntries, actorVars
<1>14. Routed'
  <2> SUFFICES ASSUME NEW t \in Subs, task'[t] \in Live \cup {"done"}, t \notin token
               PROVE  active[id[t]] = t \/ Overtaken(t)'
    BY <1>1 DEF Routed, actorVars
  <2>1. task[t] \in Live \cup {"done"}
    BY <1>1, <1>10
  <2> QED BY <2>1, <1>5 DEF IInv, Routed
<1> QED BY <1>5, <1>8, <1>9, <1>11, <1>12, <1>13, <1>14 DEF IInv
-----------------------------------------------------------------------------
(* The theorems.                                                           *)

\* The strengthening is inductive.
LEMMA Inductive == Spec => []IInv
<1>1. Init => IInv
  <2> SUFFICES ASSUME Init PROVE IInv
    OBVIOUS
  <2>1. TypeOK
    <3>1. cmds \in Seq(Commands)
      BY EmptySeq DEF Init
    <3>2. retries \in [Subs -> 0..Max(Limits \cup {1})]
      BY LimitFacts DEF Init
    <3>3. config \in Limits /\ limit \in [Subs -> Limits]
      BY LimitFacts DEF Init
    <3>4. images \in [Subs -> {"none", "inline", "stripped", "shed"}]
      BY DEF Init
    <3>5. task \in [Subs -> {"new", "sent"} \cup Live \cup Over] /\ doom \in [Subs -> 0..DoomMax]
      BY DEF Init
    <3>6. /\ event \in [Subs -> {"none", "completed", "failed"}]
          /\ answer \in [Subs -> {"none", "waiting", "ok", "error", "left"}]
      BY DEF Init
    <3>7. active \in [Ids -> Subs \cup {None}] /\ token \subseteq Subs /\ guard \subseteq Collected
      BY DEF Init
    <3>8. asks \in 0..MaxAsks
      BY DEF Init
    <3>9. handles \in BOOLEAN /\ stopped \in BOOLEAN
      BY Zenon DEF Init
    <3> QED BY <3>1, <3>2, <3>3, <3>4, <3>5, <3>6, <3>7, <3>8, <3>9 DEF TypeOK
  <2>2. Channel /\ Unspent /\ InBudget
    BY LimitFacts DEF Init, Channel, Unspent, InBudget
  <2>3. Guarded /\ Ended /\ Keyed /\ OnlyPanicsLeaveEntries /\ Routed
    BY DEF Init, Guarded, Ended, Keyed, OnlyPanicsLeaveEntries, Routed, Live
  <2> QED BY <2>1, <2>2, <2>3 DEF IInv
<1>2. IInv /\ [Next]_vars => IInv'
  <2> SUFFICES ASSUME IInv, [Next]_vars PROVE IInv'
    OBVIOUS
  <2>1. CASE UNCHANGED vars
    <3>1. TypeOK'
      BY <2>1 DEF IInv, TypeOK, vars, clientVars, taskVars
    <3>2. Channel' /\ Unspent' /\ InBudget' /\ Guarded' /\ Ended' /\ Keyed'
      BY <2>1 DEF IInv, Channel, Unspent, InBudget, Guarded, Ended, Keyed, vars, clientVars, taskVars
    <3>3. OnlyPanicsLeaveEntries' /\ Routed'
      BY <2>1 DEF IInv, OnlyPanicsLeaveEntries, Routed, Overtaken, vars, clientVars, taskVars
    <3> QED BY <3>1, <3>2, <3>3 DEF IInv
  <2>2. CASE Handle
    BY <2>2, HandleSubmitStep, HandleOtherStep DEF Handle
  <2> QED BY <2>1, <2>2, CallerStep, LoopStep, TaskStep DEF Next
<1> QED BY <1>1, <1>2, PTL DEF Spec

\* Every variable keeps its type: no retry count passes the largest limit, no
\* resample count its budget, and the channel holds commands.
THEOREM TypeCorrect == Spec => []TypeOK
BY Inductive, PTL DEF IInv

\* Only a panic leaves an entry of a joined task in the map, however duplicate
\* ids, cancels and finished tasks interleave (SamplerActor::run).
THEOREM EntriesOfReturnedTasksGo == Spec => []OnlyPanicsLeaveEntries
BY Inductive, PTL DEF IInv

\* A task that runs and was not cancelled can be reached by its id, until a
\* cancelled or replaced task of the same id is joined: never before, whatever
\* the order of submissions, cancels and joins (ActorState::register, cancel,
\* remove).
THEOREM RunningTasksCancellable == Spec => []Cancellable
<1>1. IInv => Cancellable
  BY DEF IInv, Routed, Cancellable
<1> QED BY <1>1, Inductive, PTL
-----------------------------------------------------------------------------
(* The refinement: the abstract state, and what each step does to it.      *)

phaseOf == [s \in Subs |-> CASE task[s] \in Live -> "open"
                              [] task[s] \in Over -> "closed"
                              [] OTHER -> task[s]]
transportOf ==
    [s \in Subs |-> IF task[s] \in {"new", "sent"} THEN 0 ELSE Budget(s) - retries[s]]
resamplesOf ==
    [s \in Subs |-> IF task[s] \in {"new", "sent"} THEN 0 ELSE DoomMax - doom[s]]

\* A step that leaves the task, the counts, the images and the limits alone, and
\* neither sends an event nor answers, is a stutter of the abstract system.
LEMMA Stutters ==
  ASSUME UNCHANGED <<task, images, limit, retries, doom, event, answer>>
  PROVE  UNCHANGED Lifecycle!vars
BY DEF Lifecycle!vars, Budget

\* The caller submits: Send.
LEMMA RefinesSend ==
  ASSUME IInv, NEW s \in Subs, NEW l \in OtherLimits \cup {None}, Submit(s, l)
  PROVE  Lifecycle!Send(s)
<1>1. /\ task[s] = "new" /\ task' = [task EXCEPT ![s] = "sent"]
      /\ answer' \in {answer, [answer EXCEPT ![s] = "waiting"]}
      /\ UNCHANGED <<images, limit, retries, doom, event>>
      /\ task \in [Subs -> {"new", "sent"} \cup Live \cup Over]
  BY DEF Submit, IInv, TypeOK
<1>2. phaseOf[s] = "new" /\ phaseOf' = [phaseOf EXCEPT ![s] = "sent"]
  BY <1>1 DEF phaseOf, Live, Over
<1>3. transportOf' = transportOf /\ resamplesOf' = resamplesOf
  BY <1>1 DEF transportOf, resamplesOf, Budget
<1> QED BY <1>1, <1>2, <1>3 DEF Lifecycle!Send, phaseOf, transportOf, resamplesOf

\* The future of submit_and_collect ends: Leave, or a stutter once answered.
LEMMA RefinesLeave ==
  ASSUME IInv, NEW s \in Subs, CollectEnds(s)
  PROVE  Lifecycle!Leave(s) \/ UNCHANGED Lifecycle!vars
<1>1. UNCHANGED <<task, images, limit, retries, doom, event>>
  BY DEF CollectEnds
<1>2. CASE answer[s] = "waiting"
  <2>1. answer' = [answer EXCEPT ![s] = "left"]
    BY <1>2 DEF CollectEnds
  <2> QED BY <1>1, <1>2, <2>1 DEF Lifecycle!Leave, Budget
<1>3. CASE answer[s] # "waiting"
  <2>1. answer' = answer
    BY <1>3 DEF CollectEnds, IInv, TypeOK
  <2> QED BY <1>1, <2>1, Stutters
<1> QED BY <1>2, <1>3

\* The actor takes the submission: Accept, with the whole budget of its limit.
LEMMA RefinesAccept ==
  ASSUME IInv, Handle, Head(cmds).op = "submit", HandleSubmit(Head(cmds)),
         NEW s \in Subs, s = Head(cmds).sub
  PROVE  Lifecycle!Accept(s)
<1> DEFINE lim == IF Head(cmds).limit = None THEN config ELSE Head(cmds).limit
           budget == (IF lim = 0 THEN 0 ELSE lim - 1) + (IF images[s] = "none" THEN 0 ELSE 1)
<1>1. task[s] = "sent" /\ lim \in Limits
  <2>1. Head(cmds) \in Commands /\ task[s] = "sent"
    BY ChannelTail DEF IInv, Handle
  <2> QED BY <2>1, CommandFacts DEF IInv, TypeOK
<1>2. /\ task' = [task EXCEPT ![s] = "fresh"] /\ limit' = [limit EXCEPT ![s] = lim]
      /\ UNCHANGED <<images, retries, doom, event, answer>>
  BY DEF HandleSubmit, Handle
<1> HIDE DEF lim
<1>3. /\ task \in [Subs -> {"new", "sent"} \cup Live \cup Over] /\ limit \in [Subs -> Limits]
      /\ retries[s] = 0 /\ doom[s] = 0
  BY <1>1 DEF IInv, TypeOK, Unspent
<1>4. phaseOf[s] = "sent" /\ phaseOf' = [phaseOf EXCEPT ![s] = "open"]
  BY <1>1, <1>2, <1>3 DEF phaseOf, Live, Over
<1>5. budget \in 0..Max(Limits \cup {1})
  <2>1. lim \in Nat /\ lim <= Max(Limits \cup {1})
    BY <1>1, LimitFacts
  <2>2. Max(Limits \cup {1}) \in Nat /\ 1 <= Max(Limits \cup {1})
    BY LimitFacts
  <2> QED BY <2>1, <2>2
<1>6. transportOf' = [transportOf EXCEPT ![s] = budget]
  <2>1. budget - 0 = budget
    BY <1>5
  <2>2. limit'[s] = lim /\ retries'[s] = 0 /\ images'[s] = images[s] /\ task'[s] = "fresh"
    BY <1>1, <1>2, <1>3
  <2>3. \A t \in Subs \ {s} : Budget(t)' = Budget(t)
    BY <1>1, <1>2, <1>3 DEF Budget
  <2>4. \A t \in Subs \ {s} : transportOf'[t] = transportOf[t]
    BY <1>1, <1>2, <1>3, <2>3 DEF transportOf
  <2>5. transportOf'[s] = budget - 0
    BY <1>1, <2>2 DEF transportOf, Budget
  <2>6. transportOf' = [t \in Subs |-> transportOf'[t]] /\ transportOf = [t \in Subs |-> transportOf[t]]
    BY DEF transportOf
  <2> HIDE DEF budget
  <2> QED BY <2>1, <2>4, <2>5, <2>6
<1>7. resamplesOf' = [resamplesOf EXCEPT ![s] = DoomMax]
  <2>1. DoomMax - 0 = DoomMax
    OBVIOUS
  <2> QED BY <1>1, <1>2, <1>3, <2>1 DEF resamplesOf
<1>8. DoomMax \in 0..DoomMax
  OBVIOUS
<1> HIDE DEF budget
<1> QED
  BY <1>1, <1>2, <1>4, <1>5, <1>6, <1>7, <1>8
     DEF Lifecycle!Accept, phaseOf, transportOf, resamplesOf

\* A running task that goes on stays open, one that ends closes, and the budgets
\* of a submission change only with its own counts.
LEMMA PhaseMoves ==
  ASSUME IInv, NEW s \in Subs, task[s] \in Live, NEW w \in Live \cup Over,
         task' = [task EXCEPT ![s] = w]
  PROVE  /\ phaseOf[s] = "open"
         /\ w \in Live => phaseOf' = phaseOf
         /\ w \in Over => phaseOf' = [phaseOf EXCEPT ![s] = "closed"]
         /\ UNCHANGED <<images, limit, retries>> => transportOf' = transportOf
         /\ UNCHANGED doom => resamplesOf' = resamplesOf
<1>1. \A t \in Subs : task'[t] = IF t = s THEN w ELSE task[t]
  BY DEF IInv, TypeOK
<1>2. /\ phaseOf[s] = "open"
      /\ w \in Live => phaseOf'[s] = "open"
      /\ w \in Over => phaseOf'[s] = "closed"
  BY <1>1 DEF phaseOf, Live, Over
<1>3. \A t \in Subs \ {s} : phaseOf'[t] = phaseOf[t]
  BY <1>1 DEF phaseOf
<1>4. phaseOf' = [t \in Subs |-> phaseOf'[t]] /\ phaseOf = [t \in Subs |-> phaseOf[t]]
  BY DEF phaseOf
<1>5. w \notin {"new", "sent"} /\ task[s] \notin {"new", "sent"}
  BY DEF Live, Over
<1>6. UNCHANGED <<images, limit, retries>> => transportOf' = transportOf
  BY <1>1, <1>5 DEF transportOf, Budget
<1>7. UNCHANGED doom => resamplesOf' = resamplesOf
  BY <1>1, <1>5 DEF resamplesOf
<1> QED BY <1>2, <1>3, <1>4, <1>6, <1>7

\* A retry is paid for out of the transport budget: Retry.
LEMMA RefinesRetry ==
  ASSUME IInv, NEW s \in Subs, task[s] \in Live, UNCHANGED limit, RetryStep(s)
  PROVE  Lifecycle!Retry(s)
<1>1. PICK w \in Live : task' = [task EXCEPT ![s] = w]
  BY DEF RetryStep, GoesOn
<1>2. /\ retries' = [retries EXCEPT ![s] = retries[s] + 1] /\ UNCHANGED <<doom, event, answer>>
      /\ task \in [Subs -> {"new", "sent"} \cup Live \cup Over]
      /\ images \in [Subs -> {"none", "inline", "stripped", "shed"}]
      /\ limit[s] \in Nat /\ retries \in [Subs -> Nat]
  <2>1. retries' = [retries EXCEPT ![s] = retries[s] + 1] /\ UNCHANGED <<doom, event, answer>>
    BY DEF RetryStep, GoesOn, Retried
  <2>2. limit[s] \in Nat
    BY LimitFacts DEF IInv, TypeOK
  <2>3. retries \in [Subs -> Nat]
    BY LimitFacts DEF IInv, TypeOK
  <2> QED BY <2>1, <2>2, <2>3 DEF IInv, TypeOK
<1>3. \A t \in Subs : task'[t] = IF t = s THEN w ELSE task[t]
  BY <1>1, <1>2
<1>4. phaseOf[s] = "open" /\ phaseOf' = phaseOf /\ resamplesOf' = resamplesOf
  BY <1>1, <1>2, PhaseMoves
<1>5. \A t \in Subs : images'[t] = "none" <=> images[t] = "none"
  BY <1>2 DEF RetryStep
<1>6. \A t \in Subs : Budget(t)' = Budget(t)
  BY <1>5 DEF Budget
<1>7. Budget(s) - retries[s] > 0 /\ Budget(s) \in Nat
  <2>1. CASE retries[s] + 1 < limit[s]
    BY <1>2, <2>1 DEF Budget
  <2>2. CASE images[s] = "inline"
    BY <1>2, <2>2 DEF Budget, IInv, InBudget
  <2> QED BY <2>1, <2>2 DEF RetryStep
<1>8. w \notin {"new", "sent"} /\ task[s] \notin {"new", "sent"}
  BY DEF Live
<1>9. transportOf[s] > 0 /\ transportOf' = [transportOf EXCEPT ![s] = @ - 1]
  <2>1. transportOf[s] = Budget(s) - retries[s] /\ transportOf[s] > 0
    BY <1>7, <1>8 DEF transportOf
  <2>2. transportOf'[s] = Budget(s) - (retries[s] + 1)
    BY <1>2, <1>3, <1>6, <1>8 DEF transportOf
  <2>3. transportOf'[s] = transportOf[s] - 1
    BY <1>2, <1>7, <2>1, <2>2
  <2>4. \A t \in Subs \ {s} : transportOf'[t] = transportOf[t]
    BY <1>2, <1>3, <1>6 DEF transportOf
  <2>5. transportOf' = [t \in Subs |-> transportOf'[t]] /\ transportOf = [t \in Subs |-> transportOf[t]]
    BY DEF transportOf
  <2> QED BY <2>1, <2>3, <2>4, <2>5
<1> QED BY <1>2, <1>4, <1>9 DEF Lifecycle!Retry, phaseOf, transportOf, resamplesOf

\* A doom-loop recovery is paid for out of the resample budget: Resample.
LEMMA RefinesResample ==
  ASSUME IInv, NEW s \in Subs, task[s] \in Live, UNCHANGED limit, ResampleStep(s)
  PROVE  Lifecycle!Resample(s)
<1>1. PICK w \in Live : task' = [task EXCEPT ![s] = w]
  BY DEF ResampleStep, GoesOn
<1>2. /\ doom' = [doom EXCEPT ![s] = doom[s] + 1] /\ doom[s] < DoomMax
      /\ UNCHANGED <<images, retries, event, answer>> /\ doom \in [Subs -> Nat]
  BY DEF ResampleStep, GoesOn, Resamples, IInv, TypeOK
<1>3. \A t \in Subs : task'[t] = IF t = s THEN w ELSE task[t]
  BY <1>1 DEF IInv, TypeOK
<1>4. phaseOf[s] = "open" /\ phaseOf' = phaseOf /\ transportOf' = transportOf
  BY <1>1, <1>2, PhaseMoves
<1>5. w \notin {"new", "sent"} /\ task[s] \notin {"new", "sent"}
  BY DEF Live
<1>6. resamplesOf[s] > 0 /\ resamplesOf' = [resamplesOf EXCEPT ![s] = @ - 1]
  <2>1. resamplesOf[s] = DoomMax - doom[s] /\ resamplesOf[s] > 0
    BY <1>2, <1>5 DEF resamplesOf
  <2>2. resamplesOf'[s] = DoomMax - (doom[s] + 1)
    BY <1>2, <1>3, <1>5 DEF resamplesOf
  <2>3. resamplesOf'[s] = resamplesOf[s] - 1
    BY <1>2, <2>1, <2>2
  <2>4. \A t \in Subs \ {s} : resamplesOf'[t] = resamplesOf[t]
    BY <1>2, <1>3 DEF resamplesOf
  <2>5. resamplesOf' = [t \in Subs |-> resamplesOf'[t]] /\ resamplesOf = [t \in Subs |-> resamplesOf[t]]
    BY DEF resamplesOf
  <2> QED BY <2>1, <2>3, <2>4, <2>5
<1> QED BY <1>2, <1>4, <1>6 DEF Lifecycle!Resample, phaseOf, transportOf, resamplesOf

\* The end of a task is the close of its submission with one event and one
\* answer, or its abandonment by a panic: Close, Abandon.
LEMMA RefinesEnd ==
  ASSUME IInv, NEW s \in Subs, task[s] \in Live, UNCHANGED limit, EndStep(s)
  PROVE  Lifecycle!Close(s) \/ Lifecycle!Abandon(s)
<1>1. PICK w \in Over : task' = [task EXCEPT ![s] = w]
  BY DEF EndStep, Finish, Panic, Over
<1>2. UNCHANGED <<images, retries, doom>>
  BY DEF EndStep
<1>3. /\ phaseOf[s] = "open" /\ phaseOf' = [phaseOf EXCEPT ![s] = "closed"]
      /\ transportOf' = transportOf /\ resamplesOf' = resamplesOf
  BY <1>1, <1>2, PhaseMoves
<1>4. answer \in [Subs -> {"none", "waiting", "ok", "error", "left"}]
  BY DEF IInv, TypeOK
<1>5. CASE Finish(s, "completed")
  <2>1. /\ event' = [event EXCEPT ![s] = "completed"]
        /\ answer' = [answer EXCEPT ![s] = IF @ = "waiting" THEN "ok" ELSE @]
    BY <1>4, <1>5 DEF Finish
  <2> QED BY <1>3, <2>1 DEF Lifecycle!Close, Lifecycle!Answer, phaseOf, transportOf, resamplesOf
<1>6. CASE Finish(s, "failed")
  <2>1. /\ event' = [event EXCEPT ![s] = "failed"]
        /\ answer' = [answer EXCEPT ![s] = IF @ = "waiting" THEN "error" ELSE @]
    BY <1>4, <1>6 DEF Finish
  <2> QED BY <1>3, <2>1 DEF Lifecycle!Close, Lifecycle!Answer, phaseOf, transportOf, resamplesOf
<1>7. CASE Panic(s)
  <2>1. UNCHANGED event /\ answer' = [answer EXCEPT ![s] = IF @ = "waiting" THEN "error" ELSE @]
    BY <1>7 DEF Panic
  <2> QED BY <1>3, <2>1 DEF Lifecycle!Abandon, Lifecycle!Answer, phaseOf, transportOf, resamplesOf
<1> QED BY <1>5, <1>6, <1>7 DEF EndStep

\* A task aborted by the end of the loop: nobody waits any more, for the channel
\* closes only with the last guard.  Abandon.
LEMMA RefinesAbort ==
  ASSUME IInv, NEW s \in Subs, Abort(s)
  PROVE  Lifecycle!Abandon(s)
<1>1. /\ task' = [task EXCEPT ![s] = "aborted"] /\ task[s] \in Live /\ stopped
      /\ UNCHANGED <<images, limit, retries, doom, event, answer>>
  BY DEF Abort
<1>2. /\ phaseOf[s] = "open" /\ phaseOf' = [phaseOf EXCEPT ![s] = "closed"]
      /\ transportOf' = transportOf /\ resamplesOf' = resamplesOf
  BY <1>1, PhaseMoves DEF Over
<1>3. answer[s] # "waiting"
  BY <1>1 DEF IInv, Ended, Guarded
<1>4. answer' = [answer EXCEPT ![s] = IF @ = "waiting" THEN "error" ELSE @]
  BY <1>1, <1>3 DEF IInv, TypeOK
<1> QED BY <1>1, <1>2, <1>4 DEF Lifecycle!Abandon, Lifecycle!Answer, phaseOf, transportOf, resamplesOf

\* join_next happens to closed submissions only.
LEMMA RefinesJoin ==
  ASSUME IInv, NEW s \in Subs, Join(s)
  PROVE  UNCHANGED Lifecycle!vars
<1>1. PICK w \in {"joined", "lost"} : task' = [task EXCEPT ![s] = w]
  BY DEF Join
<1>2. task[s] \in {"done", "panicked"} /\ UNCHANGED <<images, limit, retries, doom, event, answer>>
  BY DEF Join
<1>3. \A t \in Subs : task'[t] = IF t = s THEN w ELSE task[t]
  BY <1>1 DEF IInv, TypeOK
<1>4. phaseOf[s] = "closed" /\ phaseOf'[s] = "closed"
  BY <1>2, <1>3 DEF phaseOf, Live, Over
<1>5. \A t \in Subs \ {s} : phaseOf'[t] = phaseOf[t]
  BY <1>3 DEF phaseOf
<1>6. phaseOf' = [t \in Subs |-> phaseOf'[t]] /\ phaseOf = [t \in Subs |-> phaseOf[t]]
  BY DEF phaseOf
<1>7. phaseOf' = phaseOf
  BY <1>4, <1>5, <1>6
<1>8. transportOf' = transportOf /\ resamplesOf' = resamplesOf
  BY <1>2, <1>3 DEF transportOf, resamplesOf, Budget
<1> QED BY <1>2, <1>7, <1>8 DEF Lifecycle!vars, phaseOf, transportOf, resamplesOf

\* The sampler keeps the promise of RequestLifecycle for any number of
\* submissions, ids, limits and budgets: a submission closes once, with one
\* terminal event and the same answer to its caller, and every retry and every
\* resample is paid for out of its own budget (run_request_task).
THEOREM SamplerImplementsLifecycle == Spec => KeepsPromise
<1>1. Init => Lifecycle!Init
  <2> SUFFICES ASSUME Init PROVE Lifecycle!Init
    OBVIOUS
  <2>1. phaseOf = [s \in Subs |-> "new"]
    BY DEF Init, phaseOf, Live, Over
  <2>2. transportOf = [s \in Subs |-> 0] /\ resamplesOf = [s \in Subs |-> 0]
    BY DEF Init, transportOf, resamplesOf
  <2> QED BY <2>1, <2>2 DEF Init, Lifecycle!Init, phaseOf, transportOf, resamplesOf
<1>2. IInv /\ [Next]_vars => [Lifecycle!Next]_(Lifecycle!vars)
  <2> SUFFICES ASSUME IInv, [Next]_vars
               PROVE  (\E s \in Subs : \/ Lifecycle!Send(s) \/ Lifecycle!Leave(s) \/ Lifecycle!Accept(s)
                                        \/ Lifecycle!Retry(s) \/ Lifecycle!Resample(s)
                                        \/ Lifecycle!Close(s) \/ Lifecycle!Abandon(s))
                      \/ UNCHANGED Lifecycle!vars
    BY DEF Lifecycle!Next
  <2>1. ASSUME UNCHANGED taskVars PROVE UNCHANGED Lifecycle!vars
    BY <2>1, Stutters DEF taskVars
  <2>2. CASE Handle
    <3>1. CASE Head(cmds).op = "submit"
      <4>1. HandleSubmit(Head(cmds))
        BY <2>2, <3>1 DEF Handle
      <4>2. \E s \in Subs : s = Head(cmds).sub
        BY <2>2, <3>1, ChannelTail, CommandFacts DEF Handle, IInv
      <4>3. PICK s \in Subs : s = Head(cmds).sub
        BY <4>2
      <4>4. Lifecycle!Accept(s)
        BY <2>2, <3>1, <4>1, <4>3, RefinesAccept
      <4> QED BY <4>4
    <3>2. CASE Head(cmds).op # "submit"
      BY <2>2, <3>2, Stutters DEF Handle, HandleCancel
    <3> QED BY <3>1, <3>2
  <2>3. ASSUME NEW s \in Subs, Step(s) \/ Panic(s)
        PROVE  \/ Lifecycle!Retry(s) \/ Lifecycle!Resample(s) \/ Lifecycle!Close(s)
               \/ Lifecycle!Abandon(s) \/ UNCHANGED Lifecycle!vars
    <3>1. /\ task[s] \in Live /\ UNCHANGED limit
          /\ \/ GoesOn(s) /\ UNCHANGED <<images, retries, doom>>
             \/ RetryStep(s) \/ ResampleStep(s) \/ EndStep(s)
      BY <2>3, TaskShape DEF actorVars
    <3>2. CASE GoesOn(s) /\ UNCHANGED <<images, retries, doom>>
      <4>1. phaseOf' = phaseOf /\ transportOf' = transportOf /\ resamplesOf' = resamplesOf
        BY <3>1, <3>2, PhaseMoves DEF GoesOn
      <4> QED BY <3>2, <4>1 DEF GoesOn, Lifecycle!vars, phaseOf, transportOf, resamplesOf
    <3> QED BY <3>1, <3>2, RefinesRetry, RefinesResample, RefinesEnd
  <2>4. CASE DropHandles \/ Stop \/ (\E i \in Ids : Cancel(i)) \/ (\E l \in OtherLimits : UpdateConfig(l))
    BY <2>1, <2>4 DEF DropHandles, Stop, Cancel, UpdateConfig
  <2>5. CASE UNCHANGED vars
    BY <2>1, <2>5 DEF vars
  <2> QED BY <2>2, <2>3, <2>4, <2>5, RefinesSend, RefinesLeave, RefinesJoin, RefinesAbort DEF Next
<1> QED BY <1>1, <1>2, Inductive, PTL DEF Spec, KeepsPromise, Lifecycle!Spec
=============================================================================
