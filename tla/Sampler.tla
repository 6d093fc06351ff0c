-------------------------------- MODULE Sampler --------------------------------
(***************************************************************************)
(* The sampler actor (xai-grok-sampler): callers send commands through     *)
(* handles, the actor keeps the map of active requests and spawns a task   *)
(* per submission, and each task runs attempts until one succeeds, a       *)
(* budget is spent or its token is cancelled.                              *)
(*                                                                         *)
(* A submission is told apart from its request id: the actor accepts a     *)
(* duplicate id.  An error is its class, what classify_error distinguishes *)
(* of it.  Chunks, backoff times, the HTTP/1.1 client and log records are  *)
(* left out; IsActive and ActiveCount read `active' and change nothing.    *)
(* Definitions named X_Y are mutations of X.                               *)
(***************************************************************************)
EXTENDS Integers, Sequences, FiniteSets, FiniteSetsExt

CONSTANTS
    Subs, Ids,           \* submissions and request ids
    id,                  \* the request id of each submission
    Collected,           \* the submissions made by submit_and_collect
    Imaged,              \* the submissions whose request holds inline images
    None,                \* no submission
    DefaultLimit,        \* max_retries of the config the actor starts with
    OtherLimits,         \* max_retries of updates and overrides
    RateThreshold,       \* rate_limit_retry_threshold
    DoomMax,             \* max_retries of the doom-loop policy
    Watched,             \* the submissions to a Responses backend under that policy
    MayPanic,            \* submissions whose task may panic
    MaxAsks              \* bound: cancels and config updates callers ask for

ASSUME SamplerAssumption ==
    /\ DefaultLimit \in Nat /\ IsFiniteSet(OtherLimits) /\ OtherLimits \subseteq Nat
    /\ RateThreshold \in Nat /\ DoomMax \in Nat /\ MaxAsks \in Nat
    /\ id \in [Subs -> Ids] /\ None \notin Subs
    /\ Collected \subseteq Subs /\ Imaged \subseteq Subs /\ MayPanic \subseteq Subs
    /\ Watched \subseteq Subs

Limits == OtherLimits \cup {DefaultLimit}

VARIABLES
    images,      \* inline images of the request: "none", "inline", stripped for a retry of its
                 \* own ("stripped") or before another ("shed")
    cmds,        \* the command channel
    handles,     \* some SamplerHandle is alive
    guard,       \* the CancelOnDrop guards alive
    stopped,     \* the run loop has ended
    config,      \* max_retries of the default config
    active,      \* active_requests: id -> submission whose token it holds
    token,       \* the submissions whose token is cancelled
    task,        \* where the request task of a submission is
    limit,       \* max_retries of the submission's effective config
    retries,     \* retry_count
    doom,        \* doom_retry_count
    event,       \* the terminal event sent
    answer,      \* what submit_and_collect returned
    asks         \* cancels and config updates so far

clientVars == <<handles, guard, asks>>
taskVars == <<task, images, limit, retries, doom, event, answer>>
vars == <<clientVars, taskVars, cmds, stopped, config, active, token>>

\* "top": at the top of the retry loop, or in the backoff before it.
Live == {"fresh", "top", "connecting", "streaming"}
Over == {"done", "joined", "panicked", "lost", "aborted"}

Submitting(s, l) == [op |-> "submit", sub |-> s, limit |-> l]
Cancelling(i) == [op |-> "cancel", id |-> i]
Updating(l) == [op |-> "update", limit |-> l]

Commands ==
    {Submitting(s, l) : s \in Subs, l \in Limits \cup {None}}
        \cup {Cancelling(i) : i \in Ids} \cup {Updating(l) : l \in Limits}

TypeOK ==
    /\ images \in [Subs -> {"none", "inline", "stripped", "shed"}]
    /\ cmds \in Seq(Commands)
    /\ handles \in BOOLEAN /\ guard \subseteq Collected /\ stopped \in BOOLEAN
    /\ config \in Limits /\ limit \in [Subs -> Limits]
    /\ active \in [Ids -> Subs \cup {None}] /\ token \subseteq Subs
    /\ task \in [Subs -> {"new", "sent"} \cup Live \cup Over]
    /\ retries \in [Subs -> 0..Max(Limits \cup {1})]
    /\ doom \in [Subs -> 0..DoomMax]
    /\ event \in [Subs -> {"none", "completed", "failed"}]
    /\ answer \in [Subs -> {"none", "waiting", "ok", "error", "left"}]
    /\ asks \in 0..MaxAsks

Init ==
    /\ images = [s \in Subs |-> IF s \in Imaged THEN "inline" ELSE "none"]
    /\ cmds = <<>> /\ handles = TRUE /\ guard = {} /\ stopped = FALSE
    /\ config = DefaultLimit /\ limit = [s \in Subs |-> DefaultLimit]
    /\ active = [i \in Ids |-> None] /\ token = {}
    /\ task = [s \in Subs |-> "new"]
    /\ retries = [s \in Subs |-> 0] /\ doom = [s \in Subs |-> 0]
    /\ event = [s \in Subs |-> "none"] /\ answer = [s \in Subs |-> "none"]
    /\ asks = 0

-----------------------------------------------------------------------------
(* Callers: SamplerHandle.                                                 *)

\* submit, submit_with_config, and submit_and_collect, which has no override.
Submit(s, l) ==
    /\ handles /\ task[s] = "new" /\ (s \in Collected => l = None)
    /\ cmds' = Append(cmds, Submitting(s, l))
    /\ task' = [task EXCEPT ![s] = "sent"]
    /\ guard' = IF s \in Collected THEN guard \cup {s} ELSE guard
    /\ answer' = IF s \in Collected THEN [answer EXCEPT ![s] = "waiting"] ELSE answer
    /\ UNCHANGED <<handles, asks, images, limit, retries, doom,
                   event, stopped, config, active, token>>

Cancel(i) ==
    /\ handles /\ asks < MaxAsks /\ asks' = asks + 1
    /\ cmds' = Append(cmds, Cancelling(i))
    /\ UNCHANGED <<handles, guard, taskVars, stopped, config, active, token>>

UpdateConfig(l) ==
    /\ handles /\ asks < MaxAsks /\ asks' = asks + 1
    /\ cmds' = Append(cmds, Updating(l))
    /\ UNCHANGED <<handles, guard, taskVars, stopped, config, active, token>>

\* The future of submit_and_collect ends, answered or dropped by its owner: its
\* guard sends a cancel either way.
CollectEnds(s) ==
    /\ s \in guard /\ guard' = guard \ {s}
    /\ answer' = [answer EXCEPT ![s] = IF @ = "waiting" THEN "left" ELSE @]
    /\ cmds' = Append(cmds, Cancelling(id[s]))
    /\ UNCHANGED <<handles, asks, task, images, limit, retries, 
                   doom, event, stopped, config, active, token>>

\* The last handle goes; a guard holds a sender of its own.
DropHandles ==
    /\ handles /\ guard = {} /\ handles' = FALSE
    /\ UNCHANGED <<guard, asks, taskVars, cmds, stopped, config, active, token>>

-----------------------------------------------------------------------------
(* The actor.  select! prefers a finished task to a command, but the task  *)
(* may finish just after it looked: both orders happen.                    *)

\* A duplicate id replaces the entry, and the previous token is cancelled.
HandleSubmit_IgnoresDuplicate(c) ==
    /\ \/ /\ active[id[c.sub]] = None
          /\ active' = [active EXCEPT ![id[c.sub]] = c.sub]
          /\ task' = [task EXCEPT ![c.sub] = "fresh"]
       \/ active[id[c.sub]] # None /\ UNCHANGED <<active, task>>
    /\ UNCHANGED <<token, limit, config>>

HandleSubmit(c) ==
    LET s == c.sub
        prev == active[id[s]]
    IN  /\ active' = [active EXCEPT ![id[s]] = s]
        /\ token' = IF prev = None THEN token ELSE token \cup {prev}
        /\ task' = [task EXCEPT ![s] = "fresh"]
        /\ limit' = [limit EXCEPT ![s] = IF c.limit = None THEN config ELSE c.limit]
        /\ UNCHANGED config

\* ActorState::cancel.
HandleCancel_Forgets(c) ==
    /\ active' = [active EXCEPT ![c.id] = None]
    /\ UNCHANGED <<token, task, limit, config>>

HandleCancel(c) ==
    /\ token' = IF active[c.id] = None THEN token ELSE token \cup {active[c.id]}
    /\ active' = [active EXCEPT ![c.id] = None]
    /\ UNCHANGED <<task, limit, config>>

Handle ==
    /\ cmds # <<>> /\ cmds' = Tail(cmds)
    /\ LET c == Head(cmds)
       IN  \/ c.op = "submit" /\ HandleSubmit(c)
           \/ c.op = "cancel" /\ HandleCancel(c)
           \/ c.op = "update" /\ config' = c.limit /\ UNCHANGED <<active, token, task, limit>>
    /\ UNCHANGED <<clientVars, images, retries, doom, event, answer, stopped>>

\* join_next: the entry of a finished task goes by its id; a panic only warns.
Removed_Kept(i) == active

Removed(i) == [active EXCEPT ![i] = None]

Join(s) ==
    /\ ~stopped
    /\ \/ /\ task[s] = "done" /\ task' = [task EXCEPT ![s] = "joined"]
          /\ active' = Removed(id[s])
       \/ /\ task[s] = "panicked" /\ task' = [task EXCEPT ![s] = "lost"]
          /\ UNCHANGED active
    /\ UNCHANGED <<clientVars, images, limit, retries, doom, event, answer, cmds,
                   stopped, config, token>>

\* Every handle dropped and the channel empty: the loop ends.
Stop ==
    /\ ~stopped /\ ~handles /\ cmds = <<>> /\ stopped' = TRUE
    /\ token' = token \cup {active[i] : i \in {j \in Ids : active[j] # None}}
    /\ active' = [i \in Ids |-> None]
    /\ UNCHANGED <<clientVars, taskVars, cmds, config>>

\* JoinSet::shutdown takes effect at the next await of a task.
Abort(s) ==
    /\ stopped /\ task[s] \in Live /\ task' = [task EXCEPT ![s] = "aborted"]
    /\ UNCHANGED <<clientVars, images, limit, retries, doom, event, answer, cmds,
                   stopped, config, active, token>>
-----------------------------------------------------------------------------
(* The request task.                                                       *)

\* The terminal event, and the answer to a caller that still waits.
Finish(s, e) ==
    /\ task' = [task EXCEPT ![s] = "done"]
    /\ event' = [event EXCEPT ![s] = e]
    /\ answer' = [answer EXCEPT ![s] = IF @ # "waiting" THEN @
                                      ELSE IF e = "completed" THEN "ok" ELSE "error"]

Goto(s, where) == task' = [task EXCEPT ![s] = where] /\ UNCHANGED <<event, answer>>

actorVars == <<clientVars, cmds, stopped, config, active, token, limit>>

\* SamplingClient::new may reject the configuration.
Begin(s) ==
    /\ task[s] = "fresh" /\ Finish(s, "failed")
    /\ UNCHANGED <<actorVars, images, retries, doom>>

\* The top of the retry loop; a backoff does not watch the token.
Top(s) ==
    /\ task[s] \in {"fresh", "top"}
    /\ \/ s \in token /\ Finish(s, "failed")
       \/ s \notin token /\ Goto(s, "connecting")
    /\ UNCHANGED <<actorVars, images, retries, doom>>

\* Nor does building the stream, which waits for the response headers without a
\* timeout: the answer, or a failure, may never come.
Connect(s) ==
    /\ task[s] = "connecting" /\ Goto(s, "streaming")
    /\ UNCHANGED <<actorVars, images, retries, doom>>

\* drive_l2: a full response, or the token.
Complete(s) ==
    /\ task[s] = "streaming"
    /\ Finish(s, "completed") \/ (s \in token /\ Finish(s, "failed"))
    /\ UNCHANGED <<actorVars, images, retries, doom>>

\* What classify_error tells apart: for the session (401, encrypted content), for
\* an image strip (413, image processing), told to stop (header, context length),
\* 429, retryable, retryable with a rejected body, and the rest.
Errors == {"session", "image", "stop", "rate", "retryable", "body", "fatal"}

Cap(err, max) == IF err = "rate" THEN Min({max, RateThreshold}) ELSE max

\* classify_error, with n retries made.
Decision_OneMore(err, n, max) ==
    CASE err = "image" -> "strip"
      [] err \in {"rate", "retryable", "body"} -> IF n + 1 > Cap(err, max) THEN "give up" ELSE "retry"
      [] OTHER -> "give up"

Decision(err, n, max) ==
    CASE err = "image" -> "strip"
      [] err \in {"rate", "retryable", "body"} -> IF n + 1 >= Cap(err, max) THEN "give up" ELSE "retry"
      [] OTHER -> "give up"

Retried(s) == retries' = [retries EXCEPT ![s] = @ + 1]

\* apply_retry_decision.  An image strip is retried at once; with no image left it
\* is fatal.
Decide(s, err) ==
    LET d == Decision(err, retries[s], limit[s])
    IN  \/ /\ d = "give up" /\ Finish(s, "failed")
           /\ UNCHANGED <<images, retries>>
        \/ /\ d = "retry" /\ Retried(s) /\ Goto(s, "top")
           /\ images' = IF err = "body" /\ images[s] = "inline"
                        THEN [images EXCEPT ![s] = "shed"] ELSE images
        \/ /\ d = "strip" /\ images[s] = "inline" /\ Retried(s) /\ Goto(s, "top")
           /\ images' = [images EXCEPT ![s] = "stripped"]
        \/ /\ d = "strip" /\ images[s] # "inline" /\ Finish(s, "failed")
           /\ UNCHANGED <<images, retries>>

\* The stream could not be built, broke, or its response was empty.
Fail(s, err) ==
    /\ task[s] \in {"connecting", "streaming"} /\ Decide(s, err)
    /\ UNCHANGED <<actorVars, doom>>

\* A doom loop: the attempt is armed while the resample budget lasts.
Resamples(s) == doom' = [doom EXCEPT ![s] = @ + 1] /\ UNCHANGED retries

DoomLoop(s) ==
    /\ task[s] = "streaming" /\ s \in Watched /\ doom[s] < DoomMax
    /\ Resamples(s) /\ Goto(s, "top")
    /\ UNCHANGED <<actorVars, images>>

\* A panic drops the completion sender.
Panic(s) ==
    /\ s \in MayPanic /\ task[s] \in Live
    /\ task' = [task EXCEPT ![s] = "panicked"]
    /\ answer' = [answer EXCEPT ![s] = IF @ = "waiting" THEN "error" ELSE @]
    /\ UNCHANGED <<actorVars, images, retries, doom, event>>

Step(s) ==
    \/ Begin(s) \/ Top(s) \/ Connect(s) \/ Complete(s) \/ DoomLoop(s)
    \/ \E err \in Errors : Fail(s, err)

Next ==
    \/ \E s \in Subs, l \in OtherLimits \cup {None} : Submit(s, l)
    \/ \E i \in Ids : Cancel(i)
    \/ \E l \in OtherLimits : UpdateConfig(l)
    \/ \E s \in Subs : CollectEnds(s)
    \/ DropHandles
    \/ Handle \/ (\E s \in Subs : Join(s)) \/ Stop \/ (\E s \in Subs : Abort(s))
    \/ \E s \in Subs : Step(s) \/ Panic(s)

Spec == Init /\ [][Next]_vars

\* tokio polls a ready actor and a ready task; a stream has an idle timeout and a
\* backoff ends.  Nothing is assumed of a request that waits for its answer.
Fairness ==
    /\ WF_vars(Handle)
    /\ \A s \in Subs : WF_vars(task[s] # "connecting" /\ Step(s))

FairSpec == Spec /\ Fairness

-----------------------------------------------------------------------------
(* Properties.                                                             *)

\* The transport budget: one retry fewer than max_retries, and one image strip.
Budget(s) ==
    (IF limit[s] = 0 THEN 0 ELSE limit[s] - 1) + (IF images[s] = "none" THEN 0 ELSE 1)

Lifecycle == INSTANCE RequestLifecycle WITH
    MaxTransport <- Max(Limits \cup {1}),
    MaxDoom <- DoomMax,
    phase <- [s \in Subs |-> CASE task[s] \in Live -> "open"
                               [] task[s] \in Over -> "closed"
                               [] OTHER -> task[s]],
    transport <- [s \in Subs |-> IF task[s] \in {"new", "sent"} THEN 0 ELSE Budget(s) - retries[s]],
    resamples <- [s \in Subs |-> IF task[s] \in {"new", "sent"} THEN 0 ELSE DoomMax - doom[s]]

\* The sampler keeps the promise of RequestLifecycle: one terminal event per
\* submission and the same answer to its caller, retries and resamples each
\* within a budget of their own, whatever cancels, duplicate ids, panics and
\* shutdown do (run_request_task).
KeepsPromise == Lifecycle!Spec

\* No request waits for its answer for ever.
ServersAnswer == \A s \in Subs : []<>(task[s] # "connecting")

\* If every request sent is answered or fails some day, every submission that
\* reached the channel is closed, and no caller of submit_and_collect waits for
\* ever: whatever backoffs, cancels, duplicate ids and the end of the actor do.
\* The code bounds all waits but that one (run_request_task).
Closes == ServersAnswer => Lifecycle!Closes

\* Only a panic leaves an entry behind: a task that returned is forgotten when it
\* is joined, although a duplicate id, a cancel or the next submission may have
\* changed the map meanwhile (SamplerActor::run).
OnlyPanicsLeaveEntries ==
    \A i \in Ids : active[i] # None => task[active[i]] \in Live \cup {"done", "panicked", "lost"}

\* A task that runs and was not cancelled can be: its id leads to it, until a
\* cancelled or replaced task of the same id is joined.  That join removes the
\* entry by the id alone, so the guarantee ends there (ActorState::register,
\* cancel, remove).
Overtaken(s) == \E t \in Subs \ {s} : id[t] = id[s] /\ t \in token /\ task[t] = "joined"
Cancellable == \A s \in Subs :
    task[s] \in Live /\ s \notin token => active[id[s]] = s \/ Overtaken(s)
=============================================================================
