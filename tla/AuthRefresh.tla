------------------------------ MODULE AuthRefresh ------------------------------
(***************************************************************************)
(* Credential refresh across the processes that share auth.json: the       *)
(* refresh chain of AuthManager and its OIDC refresher, the profile        *)
(* enrichment that follows a refresh, the startup flow, logout, and the    *)
(* sleep gate, on top of the lock of AuthLock.  The identity provider is   *)
(* external: it rotates refresh tokens and may revoke the family when a    *)
(* spent one comes back.                                                   *)
(*                                                                         *)
(* A credential (access and refresh token) is its generation.  Steps       *)
(* between two awaits of one task are one action unless a thread outside   *)
(* the runtime (the power listener) can look in between.                   *)
(***************************************************************************)
EXTENDS AuthLock

CONSTANTS
    Chains, Enrichers, Flows,  \* the tasks, by what they run
    Sleepers,        \* processes with a power listener
    MaxTransient,    \* MAX_CONSECUTIVE_TRANSIENT_FAILURES
    MaxGen,          \* bound: rotations
    MaxStarts,       \* bound: refreshes started
    MaxEvents        \* bound: lost answers, failed writes, deaths, suspends, logouts,
                     \* startup flows, enrichments, leftover lock info that ages,
                     \* blocked threads left behind

ASSUME RefreshAssumption ==
    /\ Chains \cup Enrichers \cup Flows = Tasks
    /\ Chains \cap Enrichers = {} /\ Chains \cap Flows = {} /\ Enrichers \cap Flows = {}
    /\ Sleepers \subseteq Procs
    /\ \A f \in Flows : \E c \in Chains : Owner[c] = Owner[f]
    /\ MaxTransient \in Nat \ {0}
    /\ {MaxGen, MaxStarts, MaxEvents} \subseteq Nat

VARIABLES
    disk,      \* the credential in auth.json
    mem,       \* process -> AuthManager.inner
    verdict,   \* process -> permanent_failure
    blips,     \* process -> transient_budget
    mutex,     \* process -> the task that holds refresh_lock
    chain,     \* task -> its place and locals
    inflight,  \* process -> refresh_in_flight
    gate,      \* process -> is the sleep gate raised
    power,     \* process -> its power listener
    issued, revoked, expired,    \* the identity provider and the clock
    starts, events,
    broken,    \* history: a lock was unlinked under a holder past its last check
    excused    \* history: the newest credential may be gone from the disk (see FamilySurvives)

tokenVars == <<disk, mem, verdict, blips>>
powerVars == <<inflight, gate, power>>
idpVars == <<issued, revoked, expired>>
vars == <<lockVars, tokenVars, mutex, chain, powerVars, idpVars,
          starts, events, broken, excused>>

Gens == 0..MaxGen
Reasons == {"PreRequest", "ServerRejected"}
Steps == {"idle", "mutex", "locking", "revalidate", "relocking", "claim", "gate",
          "idp", "answered", "apply", "fetch", "stomp", "nested"}
Outcomes == [kind : {"success", "permanent", "transient"}, cred : Gens \cup {None}, sticky : BOOLEAN]

Idle == [pc |-> "idle", reason |-> None, pre |-> None, cred |-> None, retry |-> FALSE,
         out |-> None]

TypeOK ==
    /\ LockTypeOK
    /\ disk \in Gens \cup {None}
    /\ mem \in [Procs -> Gens \cup {None}]
    /\ verdict \in [Procs -> [key : Gens, sticky : BOOLEAN] \cup {None}]
    /\ blips \in [Procs -> [key : Gens \cup {None}, count : 0..(MaxTransient - 1)]]
    /\ mutex \in [Procs -> Chains \cup {None}]
    /\ chain \in [Tasks -> [pc : Steps, reason : Reasons \cup {None}, pre : Gens \cup {None},
                            cred : Gens \cup {None}, retry : BOOLEAN, out : Outcomes \cup {None}]]
    /\ inflight \in [Procs -> 0..Cardinality(Chains)]
    /\ gate \in [Procs -> BOOLEAN]
    /\ power \in [Procs -> {"awake", "raised", "acked", "timedOut", "slept"}]
    /\ issued \in Gens /\ revoked \in BOOLEAN /\ expired \subseteq Gens
    /\ broken \in BOOLEAN /\ excused \in BOOLEAN

\* Every process has loaded the one credential of auth.json.
Init ==
    /\ LockInit
    /\ disk = 0 /\ mem = [p \in Procs |-> 0]
    /\ verdict = [p \in Procs |-> None]
    /\ blips = [p \in Procs |-> [key |-> None, count |-> 0]]
    /\ mutex = [p \in Procs |-> None]
    /\ chain = [t \in Tasks |-> Idle]
    /\ inflight = [p \in Procs |-> 0]
    /\ gate = [p \in Procs |-> FALSE] /\ power = [p \in Procs |-> "awake"]
    /\ issued = 0 /\ revoked = FALSE /\ expired = {}
    /\ starts = 0 /\ events = 0
    /\ broken = FALSE /\ excused = FALSE

-----------------------------------------------------------------------------
(* Reading the credentials.                                                *)

Valid(g) == g # None /\ g \notin expired

Current(p) == IF Valid(mem[p]) THEN mem[p] ELSE None
ExpiredAuth(p) == IF mem[p] # None /\ mem[p] \in expired THEN mem[p] ELSE None

\* resolve_refresh_credential: disk first, then the expired credential in
\* memory, then the current one if the server rejected it.
Credential(p, reason) ==
    IF disk # None THEN disk
    ELSE IF ExpiredAuth(p) # None THEN ExpiredAuth(p)
    ELSE IF reason = "ServerRejected" THEN Current(p) ELSE None

\* permanent_failure: the stored verdict, if it is about what would be sent.
Refused(p) ==
    /\ verdict[p] # None
    /\ verdict[p].key = Credential(p, "ServerRejected")

\* try_use_disk_token.
Adoptable(p, reason) == Valid(disk) /\ ~(reason = "ServerRejected" /\ mem[p] = disk)

\* sibling_has_different_refresh_token compares with the expired credential in
\* memory, which there is none of while the one in memory is still valid.
SiblingRotated(p) == Valid(disk) /\ ExpiredAuth(p) # disk

P(t) == Owner[t]
Reason(t) == chain[t].reason
At(t, pc) == chain[t].pc = pc
Goto(t, pc) == chain' = [chain EXCEPT ![t].pc = pc]

AdoptDisk(p) == mem' = [mem EXCEPT ![p] = disk]

\* The task returns: its guards, the file lock and refresh_lock, are dropped.
Return(t) ==
    /\ chain' = [chain EXCEPT ![t] = Idle]
    /\ mutex' = [p \in Procs |-> IF mutex[p] = t THEN None ELSE mutex[p]]
    /\ lock' = Released(t)
    /\ flock' = Dropped({t})
    /\ UNCHANGED <<path, info, leaked>>

Other == <<idpVars, starts, events, broken, excused>>

Event == events < MaxEvents /\ events' = events + 1

-----------------------------------------------------------------------------
(* refresh_chain.                                                          *)

\* Step 0.  A refusal adopts a sibling's credential if there is one.
Start(t, reason) ==
    /\ t \in Chains /\ At(t, "idle") /\ starts < MaxStarts
    /\ mem[P(t)] # None
    /\ reason = "PreRequest" => mem[P(t)] \in expired
    /\ starts' = starts + 1
    /\ \/ /\ Refused(P(t))
          /\ IF Adoptable(P(t), reason) THEN AdoptDisk(P(t)) ELSE UNCHANGED mem
          /\ UNCHANGED chain
       \/ /\ ~Refused(P(t))
          /\ chain' = [chain EXCEPT ![t] = [Idle EXCEPT !.pc = "mutex", !.reason = reason,
                                                        !.pre = Current(P(t))]]
          /\ UNCHANGED mem
    /\ UNCHANGED <<lockVars, disk, verdict, blips, mutex, powerVars, idpVars, events,
                   broken, excused>>

\* Steps 1 and 1b: with refresh_lock, look again.
AlreadyDone(t) ==
    \/ /\ Current(P(t)) # None
       /\ Reason(t) # "ServerRejected" \/ chain[t].pre # Current(P(t))
    \/ Refused(P(t))

TakeMutex(t) ==
    /\ At(t, "mutex") /\ mutex[P(t)] = None
    /\ \/ AlreadyDone(t) /\ Return(t)
       \/ /\ ~AlreadyDone(t)
          /\ mutex' = [mutex EXCEPT ![P(t)] = t]
          /\ Goto(t, "locking")
          /\ lock' = Begun(t)
          /\ UNCHANGED <<path, info, flock, leaked>>
    /\ UNCHANGED <<tokenVars, powerVars, Other>>

\* Step 2, acquire_refresh_lock_or_adopt.
Locked(t) ==
    /\ t \in Chains /\ At(t, "locking") /\ lock[t].at \in {"held", "failed"}
    /\ \/ Adoptable(P(t), Reason(t)) /\ AdoptDisk(P(t)) /\ Return(t)
       \/ /\ ~Adoptable(P(t), Reason(t)) /\ ~Holds(t)
          /\ Return(t) /\ UNCHANGED mem
       \/ /\ ~Adoptable(P(t), Reason(t)) /\ Holds(t)
          /\ Goto(t, "revalidate") /\ UNCHANGED <<lockVars, mutex, mem>>
    /\ UNCHANGED <<disk, verdict, blips, powerVars, Other>>

\* Steps 3a and 3b: check_refresh_deferral (the sleep gate, or a dark wake),
\* then revalidate_lock_or_reacquire.
Revalidate_Trusts(t) ==
    /\ At(t, "revalidate")
    /\ ~gate[P(t)] /\ Goto(t, "claim")
    /\ UNCHANGED <<lockVars, tokenVars, mutex, powerVars, Other>>

Revalidate(t) ==
    /\ At(t, "revalidate")
    /\ \/ (gate[P(t)] \/ P(t) \in Sleepers) /\ Return(t)
       \/ /\ ~gate[P(t)] /\ StillLive(t)
          /\ Goto(t, "claim") /\ UNCHANGED <<lockVars, mutex>>
       \/ /\ ~gate[P(t)] /\ ~StillLive(t)
          /\ Goto(t, "relocking")
          /\ flock' = Dropped({t}) /\ lock' = Begun(t)
          /\ UNCHANGED <<path, info, leaked, mutex>>
    /\ UNCHANGED <<tokenVars, powerVars, Other>>

Relocked(t) ==
    /\ At(t, "relocking") /\ lock[t].at \in {"held", "failed"}
    /\ \/ ~Holds(t) /\ Return(t) /\ UNCHANGED mem
       \/ Holds(t) /\ Adoptable(P(t), Reason(t)) /\ AdoptDisk(P(t)) /\ Return(t)
       \/ /\ Holds(t) /\ ~Adoptable(P(t), Reason(t))
          /\ Goto(t, "claim") /\ UNCHANGED <<lockVars, mutex, mem>>
    /\ UNCHANGED <<disk, verdict, blips, powerVars, Other>>

\* Step 3c: claim an in-flight slot, then look at the gate once more.
ClaimInFlight(t) ==
    /\ At(t, "claim")
    /\ inflight' = [inflight EXCEPT ![P(t)] = @ + 1]
    /\ Goto(t, "gate")
    /\ UNCHANGED <<lockVars, tokenVars, mutex, gate, power, Other>>

EndInFlight(t) == inflight' = [inflight EXCEPT ![P(t)] = @ - 1]

-----------------------------------------------------------------------------
(* OidcRefresher::refresh, with the in-flight slot held.                   *)

Success(g) == [kind |-> "success", cred |-> g, sticky |-> FALSE]
Permanent(g, sticky) == [kind |-> "permanent", cred |-> g, sticky |-> sticky]
Transient == [kind |-> "transient", cred |-> None, sticky |-> FALSE]

NoBlips == [key |-> None, count |-> 0]

Outcome(t, out) ==
    /\ chain' = [chain EXCEPT ![t].pc = "apply", ![t].out = out]
    /\ EndInFlight(t)

Send(t, g, retry) ==
    /\ chain' = [chain EXCEPT ![t].pc = "idp", ![t].cred = g, ![t].retry = retry, ![t].out = None]
    /\ UNCHANGED inflight

\* note_refresh_progress and record_transient_failure.
Progress(t) == blips' = [blips EXCEPT ![P(t)] = NoBlips]

Blips(t) ==
    1 + IF blips[P(t)].key = chain[t].cred THEN blips[P(t)].count ELSE 0

RecordTransient(t) ==
    LET escalate == Blips(t) >= MaxTransient
    IN  /\ blips' = [blips EXCEPT ![P(t)] =
                        [key |-> chain[t].cred, count |-> IF escalate THEN 0 ELSE Blips(t)]]
        /\ Outcome(t, IF escalate THEN Permanent(chain[t].cred, FALSE) ELSE Transient)

\* refresher.refresh, once the gate is seen down: adopt a valid credential a
\* sibling has written, or send the one that resolves.
RefreshNow(t) ==
    LET sibling == Valid(disk) /\ Current(P(t)) # disk
        cred == Credential(P(t), Reason(t))
    IN  \/ sibling /\ Outcome(t, Success(disk)) /\ Progress(t)
        \/ ~sibling /\ cred = None /\ Outcome(t, Transient) /\ UNCHANGED blips
        \/ ~sibling /\ cred # None /\ Send(t, cred, FALSE) /\ UNCHANGED blips

Refresh_NoGate(t) ==
    /\ At(t, "gate")
    /\ RefreshNow(t) /\ UNCHANGED <<lockVars, mutex>>
    /\ UNCHANGED <<disk, mem, verdict, gate, power, Other>>

Refresh(t) ==
    /\ At(t, "gate")
    /\ \/ gate[P(t)] /\ Return(t) /\ EndInFlight(t) /\ UNCHANGED blips
       \/ ~gate[P(t)] /\ RefreshNow(t) /\ UNCHANGED <<lockVars, mutex>>
    /\ UNCHANGED <<disk, mem, verdict, gate, power, Other>>

\* The provider: it rotates the newest credential, may revoke the family when an
\* older one is used, or never sees the request.
IdpAnswers(t) ==
    /\ At(t, "idp")
    /\ LET g == chain[t].cred
           live == g = issued /\ ~revoked
           Answer(out) == chain' = [chain EXCEPT ![t].pc = "answered", ![t].out = out]
       IN  \/ /\ live /\ issued < MaxGen
              /\ issued' = issued + 1 /\ Answer(Success(issued + 1)) /\ UNCHANGED revoked
           \/ ~live /\ revoked' \in {revoked, TRUE} /\ Answer(Permanent(g, TRUE)) /\ UNCHANGED issued
           \/ Answer(Transient) /\ UNCHANGED <<issued, revoked>>
    /\ UNCHANGED <<lockVars, tokenVars, mutex, powerVars, expired, starts, events,
                   broken, excused>>

\* The answer is lost on its way, with the successor in it.
LoseAnswer(t) ==
    /\ At(t, "answered") /\ chain[t].out.kind = "success"
    /\ Event
    /\ chain' = [chain EXCEPT ![t].out = Transient]
    /\ excused' = TRUE
    /\ UNCHANGED <<lockVars, tokenVars, mutex, powerVars, idpVars, starts, broken>>

\* What refresh makes of the answer; a rejection looks at the disk once more
\* (retry_with_fresh_disk_token).
Receive(t) ==
    /\ At(t, "answered")
    /\ LET c == chain[t]
           sibling == Valid(disk) /\ disk # c.cred
       IN  \/ c.out.kind = "success" /\ Outcome(t, c.out) /\ Progress(t)
           \/ c.out.kind = "transient" /\ ~c.retry /\ RecordTransient(t)
           \/ c.out.kind = "transient" /\ c.retry /\ Outcome(t, Transient) /\ UNCHANGED blips
           \/ /\ c.out.kind = "permanent"
              /\ \/ ~c.retry /\ sibling /\ Outcome(t, Success(disk)) /\ Progress(t)
                 \/ /\ ~c.retry /\ ~sibling /\ disk \notin {None, c.cred}
                    /\ Send(t, disk, TRUE) /\ UNCHANGED blips
                 \/ /\ c.retry \/ disk \in {None, c.cred}
                    /\ Outcome(t, c.out) /\ UNCHANGED blips
    /\ UNCHANGED <<lockVars, disk, mem, verdict, mutex, gate, power, idpVars, starts, events, broken,
                   excused>>

-----------------------------------------------------------------------------
(* apply_refresh_outcome: update, or the verdict.                          *)

IdleEnrichers(p) == {e \in Enrichers : Owner[e] = p /\ At(e, "idle")}

\* Persist, then memory, then spawn the enrichment of what was written (whose
\* request may fail at once).
Persist(g) ==
    \/ disk' = g /\ UNCHANGED <<events, excused>>
    \/ Event /\ excused' = TRUE /\ UNCHANGED disk

Update(t, g) ==
    /\ mem' = [mem EXCEPT ![P(t)] = g]
    /\ \/ Persist(g) /\ chain' = [chain EXCEPT ![t] = Idle]
       \/ /\ disk' = g /\ UNCHANGED excused
          /\ \E e \in IdleEnrichers(P(t)) :
                chain' = [chain EXCEPT ![t] = Idle, ![e] = [Idle EXCEPT !.pc = "fetch", !.cred = g]]
          /\ Event

DropGuards(t) ==
    /\ mutex' = [mutex EXCEPT ![P(t)] = None]
    /\ lock' = Released(t) /\ flock' = Dropped({t})
    /\ UNCHANGED <<path, info, leaked>>

ApplySuccess_Unlocked(t) ==
    /\ At(t, "apply") /\ chain[t].out.kind = "success"
    /\ \/ /\ Holds(t) /\ lock' = Released(t) /\ flock' = Dropped({t})
          /\ UNCHANGED <<path, info, leaked, mutex, disk, mem, chain, events, excused>>
       \/ ~Holds(t) /\ Update(t, chain[t].out.cred) /\ DropGuards(t)
    /\ UNCHANGED <<verdict, blips, powerVars, idpVars, starts, broken>>

ApplySuccess(t) ==
    /\ At(t, "apply") /\ chain[t].out.kind = "success"
    /\ Update(t, chain[t].out.cred)
    /\ DropGuards(t)
    /\ UNCHANGED <<verdict, blips, powerVars, idpVars, starts, broken>>

\* A rejection: adopt a sibling's credential, call it a sibling's rotation, or
\* record the verdict on the credential that was sent.
ApplyPermanent_Resolves(t) ==
    /\ At(t, "apply") /\ chain[t].out.kind = "permanent"
    /\ LET key == Credential(P(t), Reason(t))
       IN  verdict' = IF key = None THEN verdict
                      ELSE [verdict EXCEPT ![P(t)] = [key |-> key, sticky |-> chain[t].out.sticky]]
    /\ Return(t)
    /\ UNCHANGED <<disk, mem, blips, powerVars, Other>>

ApplyPermanent(t) ==
    /\ At(t, "apply") /\ chain[t].out.kind = "permanent"
    /\ \/ Adoptable(P(t), Reason(t)) /\ AdoptDisk(P(t)) /\ UNCHANGED verdict
       \/ /\ ~Adoptable(P(t), Reason(t)) /\ SiblingRotated(P(t))
          /\ UNCHANGED <<mem, verdict>>
       \/ /\ ~Adoptable(P(t), Reason(t)) /\ ~SiblingRotated(P(t))
          /\ verdict' = [verdict EXCEPT ![P(t)] = [key |-> chain[t].out.cred,
                                                   sticky |-> chain[t].out.sticky]]
          /\ UNCHANGED mem
    /\ Return(t)
    /\ UNCHANGED <<disk, blips, powerVars, Other>>

ApplyTransient(t) ==
    /\ At(t, "apply") /\ chain[t].out.kind = "transient"
    /\ Return(t)
    /\ UNCHANGED <<tokenVars, powerVars, Other>>

\* PERMANENT_FAILURE_TTL.
VerdictExpires(p) ==
    /\ verdict[p] # None /\ ~verdict[p].sticky
    /\ verdict' = [verdict EXCEPT ![p] = None]
    /\ UNCHANGED <<lockVars, disk, mem, blips, mutex, chain, powerVars, Other>>

-----------------------------------------------------------------------------
(* run_user_info_enrichment.                                               *)

Fetched(e) ==
    /\ At(e, "fetch")
    /\ Goto(e, "locking") /\ lock' = Begun(e)
    /\ UNCHANGED <<path, info, flock, leaked, mutex, tokenVars, powerVars, Other>>

\* Read auth.json, with the lock or without; leave a sibling's credential alone.
EnrichRead_NoGuard(e) ==
    /\ e \in Enrichers /\ At(e, "locking") /\ lock[e].at \in {"held", "failed"}
    /\ Goto(e, "stomp")
    /\ UNCHANGED <<lockVars, mutex, tokenVars, powerVars, Other>>

EnrichRead(e) ==
    /\ e \in Enrichers /\ At(e, "locking") /\ lock[e].at \in {"held", "failed"}
    /\ \/ disk # chain[e].cred /\ Return(e)
       \/ disk = chain[e].cred /\ Goto(e, "stomp") /\ UNCHANGED <<lockVars, mutex>>
    /\ UNCHANGED <<tokenVars, powerVars, Other>>

\* Write what was read back, profile added.
EnrichWrite(e) ==
    /\ At(e, "stomp")
    /\ disk' = chain[e].cred
    /\ mem' = [mem EXCEPT ![P(e)] = chain[e].cred]
    /\ excused' = (excused \/ (disk # chain[e].cred /\ ~(Holds(e) /\ StillLive(e))))
    /\ Return(e)
    /\ UNCHANGED <<verdict, blips, powerVars, idpVars, starts, events, broken>>

-----------------------------------------------------------------------------
(* The startup flow of an expired session, run_auth_flow_inner: it keeps   *)
(* the lock while auth() runs the refresh chain.                           *)

Callee(f) == CHOOSE c \in Chains : Owner[c] = Owner[f]

StartFlow(f) ==
    /\ f \in Flows /\ At(f, "idle")
    /\ ExpiredAuth(P(f)) # None
    /\ Event
    /\ starts < MaxStarts /\ starts' = starts + 1
    /\ Goto(f, "locking") /\ lock' = Begun(f)
    /\ UNCHANGED <<path, info, flock, leaked, tokenVars, mutex, powerVars, idpVars,
                   broken, excused>>

FlowRead(f) ==
    /\ f \in Flows /\ At(f, "locking") /\ lock[f].at \in {"held", "failed"}
    /\ \/ Valid(disk) /\ AdoptDisk(P(f)) /\ Return(f)
       \/ ~Valid(disk) /\ Refused(P(f)) /\ Return(f) /\ UNCHANGED mem
       \/ /\ ~Valid(disk) /\ ~Refused(P(f)) /\ At(Callee(f), "idle")
          /\ chain' = [chain EXCEPT ![f].pc = "nested", ![f].cred = disk,
                           ![Callee(f)] = [Idle EXCEPT !.pc = "mutex", !.reason = "PreRequest",
                                                       !.pre = Current(P(f))]]
          /\ UNCHANGED <<lockVars, mutex, mem>>
    /\ UNCHANGED <<disk, verdict, blips, powerVars, Other>>

\* auth() is back: after a transient failure the credential read before it is
\* put in memory for the consumers to refresh.
FlowReturns(f) ==
    /\ At(f, "nested") /\ At(Callee(f), "idle")
    /\ \/ UNCHANGED mem
       \/ chain[f].cred # None /\ mem' = [mem EXCEPT ![P(f)] = chain[f].cred]
    /\ Return(f)
    /\ UNCHANGED <<disk, verdict, blips, powerVars, Other>>

-----------------------------------------------------------------------------
(* Logout, reloads, the clock, suspends and deaths.                        *)

\* remove_scope: the disk only if the lock is free right now, memory always.
Logout(p) ==
    /\ mem[p] # None
    /\ Event
    /\ mem' = [mem EXCEPT ![p] = None]
    /\ \/ path # None /\ flock[path] # None /\ UNCHANGED <<path, info, disk>>
       \/ /\ path # None /\ flock[path] = None
          /\ info' = [info EXCEPT ![path] = p] /\ disk' = None /\ UNCHANGED path
       \/ /\ path = None
          /\ path' = Min(FreeInodes)
          /\ info' = [info EXCEPT ![path'] = p] /\ disk' = None
    /\ excused' = (excused \/ disk' = None)
    /\ UNCHANGED <<flock, lock, leaked, verdict, blips, mutex, chain, powerVars, idpVars, starts,
                   broken>>

\* force_reload_from_disk, pick_up_sibling_token, try_reload_from_disk.
Reload(p) ==
    /\ mem[p] # disk
    /\ AdoptDisk(p)
    /\ UNCHANGED <<lockVars, disk, verdict, blips, mutex, chain, powerVars, Other>>

Expire ==
    /\ \E g \in 0..issued : g \notin expired /\ expired' = expired \cup {g}
    /\ UNCHANGED <<lockVars, tokenVars, mutex, chain, powerVars, issued, revoked, starts, events, broken, excused>>

\* set_system_sleep_imminent(true): raise the gate, then hold the ack until the
\* refreshes in flight have drained, or SLEEP_ACK_MAX_WAIT.
WillSleep(p) ==
    /\ p \in Sleepers /\ power[p] = "awake" /\ events < MaxEvents
    /\ gate' = [gate EXCEPT ![p] = TRUE]
    /\ power' = [power EXCEPT ![p] = "raised"]
    /\ UNCHANGED <<lockVars, tokenVars, mutex, chain, inflight, Other>>

SleepAck(p) ==
    /\ power[p] = "raised"
    /\ power' = [power EXCEPT ![p] = IF inflight[p] = 0 THEN "acked" ELSE "timedOut"]
    /\ UNCHANGED <<lockVars, tokenVars, mutex, chain, inflight, gate, Other>>

Sleep ==
    /\ \A p \in Sleepers : power[p] \in {"acked", "timedOut"}
    /\ Event
    /\ power' = [p \in Procs |-> IF p \in Sleepers THEN "slept" ELSE power[p]]
    /\ AgeAll
    /\ UNCHANGED <<path, flock, lock, leaked, tokenVars, mutex, chain, inflight, gate, idpVars, starts, broken, excused>>

\* The wake event, or the gate's own expiry when the event is missed.
DidWake(p) ==
    /\ power[p] = "slept"
    /\ power' = [power EXCEPT ![p] = "awake"]
    /\ gate' = [gate EXCEPT ![p] = FALSE]
    /\ UNCHANGED <<lockVars, tokenVars, mutex, chain, inflight, Other>>

\* A credential the provider has issued and nobody has written down.
Carries(t) == chain[t].pc \in {"answered", "apply"} /\ chain[t].out.kind = "success"
              /\ chain[t].out.cred = issued /\ disk # issued

\* The process dies and a new one starts from the disk.
Restart(p) ==
    /\ Event
    /\ excused' = (excused \/ \E t \in TasksOf(p) : Carries(t))
    /\ KillLocks(p)
    /\ chain' = [t \in Tasks |-> IF t \in TasksOf(p) THEN Idle ELSE chain[t]]
    /\ mutex' = [mutex EXCEPT ![p] = None]
    /\ mem' = [mem EXCEPT ![p] = disk]
    /\ verdict' = [verdict EXCEPT ![p] = None]
    /\ blips' = [blips EXCEPT ![p] = NoBlips]
    /\ inflight' = [inflight EXCEPT ![p] = 0]
    /\ gate' = [gate EXCEPT ![p] = FALSE]
    /\ power' = [power EXCEPT ![p] = "awake"]
    /\ UNCHANGED <<disk, idpVars, starts, broken>>

-----------------------------------------------------------------------------
\* From the last check of the lock to the write of the successor.
Critical(t) ==
    /\ Holds(t)
    /\ chain[t].pc \in {"relocking", "claim", "gate", "idp", "answered", "apply"}

BreaksCritical == path' # path /\ \E t \in Tasks : Critical(t) /\ StillLive(t)

LockSteps ==
    /\ \/ \E t \in Tasks : LockStep(t) /\ UNCHANGED events
       \/ \E t \in Tasks : (TimeoutLeaks(t) \/ VerifyUnwritten(t)) /\ Event
       \/ AgeLeftover /\ Event
    /\ broken' = (broken \/ BreaksCritical)
    /\ excused' = (excused \/ BreaksCritical)
    /\ UNCHANGED <<tokenVars, mutex, chain, powerVars, idpVars, starts>>

ChainStep(t) ==
    \/ TakeMutex(t) \/ Locked(t) \/ Revalidate(t) \/ Relocked(t)
    \/ ClaimInFlight(t) \/ Refresh(t) \/ IdpAnswers(t) \/ Receive(t)
    \/ ApplySuccess(t) \/ ApplyPermanent(t) \/ ApplyTransient(t)

TaskStep(t) ==
    \/ ChainStep(t)
    \/ Fetched(t) \/ EnrichRead(t) \/ EnrichWrite(t)
    \/ FlowRead(t) \/ FlowReturns(t)

Next ==
    \/ LockSteps
    \/ \E t \in Tasks : TaskStep(t) \/ LoseAnswer(t) \/ StartFlow(t)
    \/ \E t \in Tasks, reason \in Reasons : Start(t, reason)
    \/ \E p \in Procs : \/ VerdictExpires(p) \/ Logout(p) \/ Reload(p) \/ Restart(p)
                        \/ WillSleep(p) \/ SleepAck(p) \/ DidWake(p)
    \/ Expire \/ Sleep

Spec == Init /\ [][Next]_vars

-----------------------------------------------------------------------------
(* Properties.                                                             *)

AtIdp(t) == chain[t].pc \in {"idp", "answered"}

\* Only one participant at a time spends a refresh token, unless its lock was
\* broken after the last look refresh_chain takes at it (step 3b).
SpendersExclusive ==
    ~broken => Cardinality({t \in Chains : AtIdp(t)}) <= 1

\* The provider never sees a spent credential again, and so never revokes the
\* family, unless the newest one was lost: with an answer, a failed write, a
\* logout, a death before the write, a broken lock or a write without the lock.
FamilySurvives == revoked => excused

\* The newest credential is on disk or on its way there.
NewestKept ==
    ~excused => \/ disk = issued
                \/ \E t \in Chains : Carries(t)

\* A sticky verdict, which only a new credential lifts, is never about a
\* credential the provider would still accept.
StickyVerdictIsDead ==
    \A p \in Procs : (verdict[p] # None /\ verdict[p].sticky)
                       => (revoked \/ verdict[p].key # issued)

\* A process that has acknowledged a suspend in time has no refresh on the wire
\* and starts none before the wake-up.
AckedMeansDrained ==
    \A t \in Chains : power[P(t)] = "acked" => ~AtIdp(t)

\* Only one participant ever spends a given refresh token.
SpentByOne == \A t, u \in Chains : (AtIdp(t) /\ AtIdp(u) /\ t # u) => chain[t].cred # chain[u].cred
=============================================================================
