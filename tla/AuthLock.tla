------------------------------- MODULE AuthLock -------------------------------
(***************************************************************************)
(* auth.json.lock, the advisory lock that serialises credential refreshes  *)
(* across processes: flock on whatever inode the path names, PID:TIMESTAMP *)
(* in the file so that waiters can recognise a dead or stuck holder, and   *)
(* unlink to break it.  A step is one system call, or two that no other    *)
(* process can tell from one: the flock of an instant try follows its open *)
(* (a file replaced in between is met by the blocking wait as well), and   *)
(* the inodes are compared right after the holder info is written.         *)
(*                                                                         *)
(* An inode's holder info is the process that wrote it last, "new" (an     *)
(* empty file with a recent mtime) or "stale": written by a process that   *)
(* has died, or longer ago than STALE_LOCK_TIMEOUT_SECS.                   *)
(*                                                                         *)
(* Tasks call Begin and Release; the rest runs by itself until lock[t].at  *)
(* is "held" or "failed".  Definitions named X_Y are mutations of X.       *)
(***************************************************************************)
EXTENDS Naturals, FiniteSets, FiniteSetsExt

CONSTANTS
    Procs,       \* processes that share $GROK_HOME/auth.json
    Tasks,       \* tasks that may take the lock
    Owner,       \* the process of each task
    MaxInodes,   \* bound: inodes 1..MaxInodes, recycled once nobody has them open
    MaxLeaked,   \* bound: blocked threads left behind by a timeout, at one time
    None

ASSUME LockAssumption ==
    /\ Owner \in [Tasks -> Procs]
    /\ IsFiniteSet(Tasks) /\ MaxLeaked \in Nat
    /\ MaxInodes \in Nat /\ MaxInodes > Cardinality(Tasks) + MaxLeaked
    /\ None \notin Procs \cup Tasks /\ None \notin Nat
    /\ "new" \notin Procs /\ "stale" \notin Procs
    /\ \A t \in Tasks : <<t>> \notin Tasks    \* see Leaked

VARIABLES
    path,     \* the inode auth.json.lock names, None when there is no such file
    info,     \* inode -> its holder info
    flock,    \* inode -> who holds its flock: a task, the thread a task left, None
    lock,     \* task -> where it is in try_lock_auth_file_async
    leaked    \* task -> the inode its abandoned blocking thread has open, or None

lockVars == <<path, info, flock, lock, leaked>>

Inodes == 1..MaxInodes
Leaked(t) == <<t>>

Places == {"out", "open", "wait", "judge", "unlink", "verify", "held", "failed"}
NotLocking == [at |-> "out", fd |-> None, phase |-> 0]

LockTypeOK ==
    /\ path \in Inodes \cup {None}
    /\ info \in [Inodes -> Procs \cup {"new", "stale"}]
    /\ flock \in [Inodes -> Tasks \cup {Leaked(t) : t \in Tasks} \cup {None}]
    /\ lock \in [Tasks -> [at : Places, fd : Inodes \cup {None}, phase : 0..4]]
    /\ leaked \in [Tasks -> Inodes \cup {None}]

\* The lock file of an earlier use is there, with the info of its last holder.
LockInit ==
    /\ path = 1
    /\ info = [i \in Inodes |-> IF i = 1 THEN "stale" ELSE "new"]
    /\ flock = [i \in Inodes |-> None]
    /\ lock = [t \in Tasks |-> NotLocking]
    /\ leaked = [t \in Tasks |-> None]

-----------------------------------------------------------------------------
InUse == {path} \cup {lock[t].fd : t \in Tasks} \cup {leaked[t] : t \in Tasks}
FreeInodes == Inodes \ InUse

Blocking(t) == lock[t].phase = 2

\* The phases of try_lock_auth_file_async: 1 the instant try, 2 the blocking
\* wait, 3 and 4 the two tries of the stale fallback.
AtPhase(n) == [at |-> "open", fd |-> None, phase |-> n]
Failed == [NotLocking EXCEPT !.at = "failed"]

\* LockAttempt::Busy, and LockAttempt::StaleUnlinked or a changed inode.
AfterBusy(n) == IF n = 1 THEN AtPhase(2) ELSE Failed
AfterRetry(n) == CASE n = 1 -> AtPhase(2)
                   [] n = 2 -> AtPhase(2)
                   [] n = 3 -> AtPhase(4)
                   [] n = 4 -> Failed

\* The flocks with those of the given owner dropped.
Dropped(owners) == [i \in Inodes |-> IF flock[i] \in owners THEN None ELSE flock[i]]

Begun(t) == [lock EXCEPT ![t] = AtPhase(1)]

\* The guard is dropped: the file is closed and its flock goes.
Released(t) == [lock EXCEPT ![t] = NotLocking]

Holds(t) == lock[t].at = "held"

\* AuthFileLock::still_live and inodes_match.
StillLive(t) == path # None /\ lock[t].fd = path

-----------------------------------------------------------------------------
\* The file to open: what the path names, or a new one.
Opened == IF path # None THEN path ELSE Min(FreeInodes)

Create == /\ path' = Opened
          /\ info' = IF path = None THEN [info EXCEPT ![Opened] = "new"] ELSE info

\* Steps 1 and 2 of try_acquire_once: open and flock(LOCK_NB).
TryOnce(t) ==
    /\ lock[t].at = "open" /\ ~Blocking(t)
    /\ Create
    /\ \/ /\ flock[Opened] = None
          /\ flock' = [flock EXCEPT ![Opened] = t]
          /\ lock' = [lock EXCEPT ![t].at = "verify", ![t].fd = Opened]
       \/ /\ flock[Opened] # None
          /\ lock' = [lock EXCEPT ![t].at = "judge", ![t].fd = Opened]
          /\ UNCHANGED flock
    /\ UNCHANGED leaked

\* The open fails: LockAttempt::Failed.  The blocking wait would try again.
OpenFails(t) ==
    /\ lock[t].at = "open" /\ ~Blocking(t)
    /\ lock' = [lock EXCEPT ![t] = Failed]
    /\ UNCHANGED <<path, info, flock, leaked>>

\* blocking_acquire: open, then wait in the kernel's queue.
OpenBlocking(t) ==
    /\ lock[t].at = "open" /\ Blocking(t)
    /\ Create
    /\ lock' = [lock EXCEPT ![t].at = "wait", ![t].fd = Opened]
    /\ UNCHANGED <<flock, leaked>>

Wait(t) ==
    /\ lock[t].at = "wait" /\ flock[lock[t].fd] = None
    /\ flock' = [flock EXCEPT ![lock[t].fd] = t]
    /\ lock' = [lock EXCEPT ![t].at = "verify"]
    /\ UNCHANGED <<path, info, leaked>>

\* After the flock: write_holder_info, then compare the inodes.
Compare(t) ==
    /\ lock[t].at = "verify"
    /\ \/ /\ StillLive(t)
          /\ lock' = [lock EXCEPT ![t].at = "held"]
          /\ UNCHANGED flock
       \/ /\ ~StillLive(t)
          /\ lock' = [lock EXCEPT ![t] = AfterRetry(lock[t].phase)]
          /\ flock' = Dropped({t})
    /\ UNCHANGED <<path, leaked>>

Verify(t) == Compare(t) /\ info' = [info EXCEPT ![lock[t].fd] = Owner[t]]

\* write_holder_info fails, before or after it has emptied the file.  The flock
\* is held, so the attempt proceeds.
VerifyUnwritten(t) ==
    /\ Compare(t)
    /\ \E i \in {info[lock[t].fd], "new"} : info' = [info EXCEPT ![lock[t].fd] = i]

\* Step 4, is_holder_stale.
Judge(t) ==
    /\ lock[t].at = "judge"
    /\ lock' = IF info[lock[t].fd] = "stale"
               THEN [lock EXCEPT ![t].at = "unlink"]
               ELSE [lock EXCEPT ![t] = AfterBusy(lock[t].phase)]
    /\ UNCHANGED <<path, info, flock, leaked>>

\* remove_file: it removes whatever the path names by now.
Unlink(t) ==
    /\ lock[t].at = "unlink"
    /\ lock' = [lock EXCEPT ![t] = IF path = None THEN AfterBusy(lock[t].phase)
                                                  ELSE AfterRetry(lock[t].phase)]
    /\ path' = None
    /\ UNCHANGED <<info, flock, leaked>>

\* The deadline of the blocking wait passes, between two attempts or with the
\* thread of spawn_blocking left in the kernel's queue.  A thread is followed
\* until it is done, or taken to be done at once.
Timeout(t) ==
    /\ Blocking(t) /\ lock[t].at \in {"open", "wait"}
    /\ lock' = [lock EXCEPT ![t] = AtPhase(3)]
    /\ UNCHANGED <<path, info, flock, leaked>>

TimeoutLeaks(t) ==
    /\ Blocking(t) /\ lock[t].at = "wait" /\ leaked[t] = None
    /\ Cardinality({u \in Tasks : leaked[u] # None}) < MaxLeaked
    /\ lock' = [lock EXCEPT ![t] = AtPhase(3)]
    /\ leaked' = [leaked EXCEPT ![t] = lock[t].fd]
    /\ UNCHANGED <<path, info, flock>>

\* The thread left behind wins the flock nobody wants any more, ...
LeakedFlock(t) ==
    /\ leaked[t] # None /\ flock[leaked[t]] = None
    /\ flock' = [flock EXCEPT ![leaked[t]] = Leaked(t)]
    /\ UNCHANGED <<path, info, lock, leaked>>

\* ... writes its holder info and drops the file.
LeakedDone(t) ==
    /\ leaked[t] # None /\ flock[leaked[t]] = Leaked(t)
    /\ info' = [info EXCEPT ![leaked[t]] = Owner[t]]
    /\ flock' = Dropped({Leaked(t)})
    /\ leaked' = [leaked EXCEPT ![t] = None]
    /\ UNCHANGED <<path, lock>>

LockStep(t) ==
    \/ TryOnce(t) \/ OpenFails(t) \/ OpenBlocking(t) \/ Wait(t) \/ Verify(t)
    \/ Judge(t) \/ Unlink(t) \/ Timeout(t)
    \/ LeakedFlock(t) \/ LeakedDone(t)

-----------------------------------------------------------------------------
(* Time and failure.                                                       *)

\* STALE_LOCK_TIMEOUT_SECS pass for info that no present holder has written.
AgeLeftover ==
    /\ \E i \in Inodes \cap InUse :
          /\ info[i] # "stale"
          /\ ~\E t \in Tasks : flock[i] = t /\ Holds(t)
          /\ info' = [info EXCEPT ![i] = "stale"]
    /\ UNCHANGED <<path, flock, lock, leaked>>

\* The machine sleeps for longer than that: every holder looks stuck.
AgeAll == info' = [i \in Inodes |-> "stale"]

\* A process dies: the kernel closes its files; its PID no longer exists.
TasksOf(p) == {t \in Tasks : Owner[t] = p}

KillLocks(p) ==
    /\ lock' = [t \in Tasks |-> IF t \in TasksOf(p) THEN NotLocking ELSE lock[t]]
    /\ leaked' = [t \in Tasks |-> IF t \in TasksOf(p) THEN None ELSE leaked[t]]
    /\ flock' = Dropped(TasksOf(p) \cup {Leaked(t) : t \in TasksOf(p)})
    /\ info' = [i \in Inodes |-> IF info[i] = p THEN "stale" ELSE info[i]]
    /\ UNCHANGED path
=============================================================================
