-------------------------- MODULE AuthRefreshProofs --------------------------
(***************************************************************************)
(* Theorems about credential refresh, for any number of processes, refresh *)
(* chains, enrichments, startup flows, faults and rotations.               *)
(***************************************************************************)
EXTENDS AuthRefresh, FiniteSetTheorems, WellFoundedInduction, TLAPS

-----------------------------------------------------------------------------
(* The inductive invariant, in parts.                                      *)

\* Who has a file open, who has its flock, and how many threads are left behind.
LockOK(t) ==
    /\ lock[t].at \in {"wait", "judge", "unlink", "verify", "held"} => lock[t].fd \in Inodes
    /\ lock[t].at \in {"open", "wait", "judge", "unlink", "verify"} => lock[t].phase \in 1..4
    /\ lock[t].at \in {"verify", "held"} => flock[lock[t].fd] = t

Abandoned == {t \in Tasks : leaked[t] # None}

LockInv ==
    /\ LockTypeOK
    /\ \A t \in Tasks : LockOK(t)
    /\ Cardinality(Abandoned) <= MaxLeaked

\* Where the tasks of each kind can be, and where a chain holds the file lock, the
\* in-flight slot, and the lock past its last check.
ChainPoints == {"idle", "mutex", "locking", "revalidate", "relocking", "claim", "gate", "idp",
                "answered", "apply"}
EnricherPoints == {"idle", "fetch", "locking", "stomp"}
FlowPoints == {"idle", "locking", "nested"}
HoldPoints == {"revalidate", "claim", "gate", "idp", "answered", "apply"}
SlotPoints == {"gate", "idp", "answered"}
CriticalPoints == {"relocking", "claim", "gate", "idp", "answered", "apply"}

\* The credentials there are, and the ones the provider accepts no more.
Known == 0..issued \cup {None}
Dead(g) == revoked \/ g # issued

\* What has come back to a chain is about a credential there is, and a sticky
\* rejection about a dead one.
OutOK(out) ==
    /\ out \in Outcomes /\ out.cred \in Known
    /\ out.kind = "permanent" => out.cred # None
    /\ out.sticky => out.kind = "permanent" /\ Dead(out.cred)

\* What a task is allowed to rely on at each of its steps.
TaskOK(t) ==
    /\ t \in Chains => chain[t].pc \in ChainPoints
    /\ t \in Enrichers => chain[t].pc \in EnricherPoints
    /\ t \in Flows => chain[t].pc \in FlowPoints
    /\ chain[t].pc \in HoldPoints => lock[t].at = "held"
    /\ chain[t].pc = "stomp" => lock[t].at \in {"held", "failed"}
    /\ (t \in Chains /\ chain[t].pc \notin {"idle", "mutex"}) => mutex[Owner[t]] = t
    /\ chain[t].cred \in Known
    /\ chain[t].pc \in {"idp", "answered"} => chain[t].cred # None
    /\ chain[t].pc \in {"answered", "apply"} => OutOK(chain[t].out)

TasksOK == \A t \in Tasks : TaskOK(t)

\* Nobody has a credential that was not issued; a sticky verdict is on a dead one.
Tokens ==
    /\ disk \in Known
    /\ \A p \in Procs : mem[p] \in Known
    /\ \A p \in Procs : verdict[p] # None =>
          verdict[p].key \in 0..issued /\ (verdict[p].sticky => Dead(verdict[p].key))

\* refresh_in_flight counts the chain with the slot: refresh_lock admits one.
Slotted(p) == \E t \in Chains : Owner[t] = p /\ chain[t].pc \in SlotPoints
InFlight == \A p \in Procs : inflight[p] = IF Slotted(p) THEN 1 ELSE 0

\* The gate is up from the suspend's announcement to the wake-up.
Gated ==
    \A p \in Procs :
        /\ power[p] # "awake" => gate[p] = TRUE
        /\ power[p] = "acked" => \A t \in Chains : Owner[t] = p => chain[t].pc \notin {"idp", "answered"}

\* Unless it was broken, a lock relied on is the one the path names.
Live ==
    /\ broken => excused
    /\ ~broken => \A t \in Tasks : Critical(t) => StillLive(t)

\* Nothing has gone wrong: the newest credential is on disk or carried there by the
\* chain that got it, who sends the newest one, and an enrichment that holds the
\* lock writes back what it read.
Newest ==
    ~excused =>
        /\ ~revoked
        /\ disk = issued \/ \E t \in Chains : Carries(t)
        /\ \A t \in Chains :
              (chain[t].pc \in {"answered", "apply"} /\ chain[t].out.kind = "success")
                  => chain[t].out.cred = issued
        /\ \A t \in Chains : chain[t].pc = "idp" => chain[t].cred = issued
        /\ \A e \in Enrichers :
              (chain[e].pc = "stomp" /\ Holds(e) /\ StillLive(e)) => chain[e].cred = disk

IInv == LockInv /\ TypeOK /\ TasksOK /\ Tokens /\ InFlight /\ Gated /\ Live /\ Newest

-----------------------------------------------------------------------------
(* The lock.                                                               *)

\* A non-empty set of naturals has a smallest element, the one Min names.
LEMMA MinFacts ==
  ASSUME NEW S \in SUBSET Nat, S # {}
  PROVE  Min(S) \in S
<1>1. PICK x \in S : \A y \in S : ~ (<<y, x>> \in OpToRel(<, Nat))
  BY NatLessThanWellFounded, WFMin
<1>2. ASSUME NEW y \in S PROVE x <= y
  <2>1. y \in Nat /\ x \in Nat
    OBVIOUS
  <2>2. y < x => <<y, x>> \in OpToRel(<, Nat)
    BY <2>1 DEF OpToRel
  <2>3. ~ (<<y, x>> \in OpToRel(<, Nat))
    BY <1>1
  <2>4. ~ (y < x)
    BY <2>2, <2>3
  <2> QED BY <2>1, <2>4
<1> QED BY <1>2 DEF Min

\* While there is no lock file some inode is free for a new one.
LEMMA FreeInode ==
  ASSUME LockInv, path = None
  PROVE  Min(FreeInodes) \in FreeInodes
<1>0. None \notin Nat /\ IsFiniteSet(Tasks) /\ MaxInodes \in Nat /\ MaxLeaked \in Nat
      /\ MaxInodes > Cardinality(Tasks) + MaxLeaked
  BY LockAssumption
<1> DEFINE A == {lock[t].fd : t \in Tasks}
           B == {leaked[t] : t \in Abandoned}
           f == [t \in Tasks |-> lock[t].fd]
           g == [t \in Abandoned |-> leaked[t]]
<1>1. IsFiniteSet(A) /\ Cardinality(A) <= Cardinality(Tasks)
  <2>1. f \in Surjection(Tasks, A)
    BY DEF Surjection
  <2> QED BY <2>1, <1>0, FS_Surjection
<1>2. IsFiniteSet(Abandoned)
  <2>1. Abandoned \in SUBSET Tasks
    BY DEF Abandoned
  <2> QED BY <2>1, <1>0, FS_Subset
<1>3. IsFiniteSet(B) /\ Cardinality(B) <= Cardinality(Abandoned)
  <2>1. g \in Surjection(Abandoned, B)
    BY DEF Surjection
  <2> QED BY <2>1, <1>2, FS_Surjection
<1>4. IsFiniteSet(A \cup B) /\ Cardinality(A \cup B) <= Cardinality(A) + Cardinality(B)
  <2>1. IsFiniteSet(A \cap B)
    <3>1. A \cap B \in SUBSET A
      OBVIOUS
    <3> QED BY <3>1, <1>1, FS_Subset
  <2>2. /\ IsFiniteSet(A \cup B)
        /\ Cardinality(A \cup B) = Cardinality(A) + Cardinality(B) - Cardinality(A \cap B)
    BY <1>1, <1>3, FS_Union
  <2>3. Cardinality(A \cap B) \in Nat /\ Cardinality(A) \in Nat /\ Cardinality(B) \in Nat
    BY <2>1, <1>1, <1>3, FS_CardinalityType
  <2> HIDE DEF A, B
  <2> QED BY <2>2, <2>3
<1>5. FreeInodes # {}
  <2> SUFFICES ASSUME FreeInodes = {} PROVE FALSE
    OBVIOUS
  <2>1. Inodes \in SUBSET (A \cup B)
    <3> SUFFICES ASSUME NEW i \in Inodes PROVE i \in A \cup B
      OBVIOUS
    <3>1. i # None
      BY <1>0 DEF Inodes
    <3>2. i \in InUse
      BY DEF FreeInodes
    <3> QED BY <3>1, <3>2 DEF InUse, Abandoned
  <2>2. Cardinality(Inodes) <= Cardinality(A \cup B)
    BY <2>1, <1>4, FS_Subset
  <2>3. Cardinality(Inodes) = MaxInodes
    BY <1>0, FS_Interval DEF Inodes
  <2>4. /\ Cardinality(A) \in Nat /\ Cardinality(B) \in Nat /\ Cardinality(A \cup B) \in Nat
        /\ Cardinality(Tasks) \in Nat /\ Cardinality(Abandoned) \in Nat
    BY <1>0, <1>1, <1>2, <1>3, <1>4, FS_CardinalityType
  <2> HIDE DEF A, B
  <2> QED BY <2>2, <2>3, <2>4, <1>0, <1>1, <1>3, <1>4 DEF LockInv
<1>6. FreeInodes \in SUBSET Nat
  BY <1>0 DEF FreeInodes, Inodes
<1> QED BY <1>5, <1>6, MinFacts

LockStates == [at : Places, fd : Inodes \cup {None}, phase : 0..4]

\* What a step of the lock may do to task u and to the path: an attempt that is
\* over stays as it is, and a lock is won while the path names the file.
Settled(u) ==
    /\ lock[u].at \in {"held", "failed"} => lock'[u] = lock[u]
    /\ lock'[u].at = "held" =>
          lock'[u] = lock[u] \/ (path # None /\ lock'[u].fd = path /\ path' = path)

PathMoved == path' = path \/ path' = None \/ (path = None /\ path' \in Inodes \ InUse)

LockMoved == LockInv' /\ PathMoved /\ \A u \in Tasks : Settled(u)

\* The file to open is there or is made, and is an inode.
LEMMA CreateFacts ==
  ASSUME LockInv, Create
  PROVE  /\ Opened \in Inodes /\ path' = Opened /\ PathMoved
         /\ info' \in [Inodes -> Procs \cup {"new", "stale"}]
<1>1. CASE path # None
  BY <1>1 DEF Create, Opened, PathMoved, LockInv, LockTypeOK
<1>2. CASE path = None
  <2>1. Opened \in FreeInodes
    BY <1>2, FreeInode DEF Opened
  <2> QED BY <1>2, <2>1 DEF Create, PathMoved, FreeInodes, LockInv, LockTypeOK
<1> QED BY <1>1, <1>2

\* The phases an attempt goes on with.
LEMMA AfterFacts ==
  ASSUME NEW n \in 1..4
  PROVE  /\ AfterBusy(n) \in {Failed} \cup {AtPhase(m) : m \in 1..4}
         /\ AfterRetry(n) \in {Failed} \cup {AtPhase(m) : m \in 1..4}
<1>1. n = 1 \/ n = 2 \/ n = 3 \/ n = 4
  OBVIOUS
<1> HIDE DEF AtPhase, Failed
<1> QED BY <1>1 DEF AfterBusy, AfterRetry

\* An attempt that failed or starts a phase has no file open.
LEMMA PhaseFacts ==
  /\ Failed \in LockStates /\ Failed.at = "failed" /\ Failed.fd = None
  /\ \A n \in 1..4 : /\ AtPhase(n) \in LockStates
                     /\ AtPhase(n).at = "open" /\ AtPhase(n).fd = None /\ AtPhase(n).phase = n
  /\ NotLocking \in LockStates /\ NotLocking.at = "out" /\ NotLocking.fd = None
BY DEF Failed, AtPhase, NotLocking, LockStates, Places

\* Dropping the flocks of some owners leaves the others theirs.
LEMMA DroppedFacts ==
  ASSUME LockInv, NEW S, flock' = Dropped(S)
  PROVE  /\ flock' \in [Inodes -> Tasks \cup {Leaked(t) : t \in Tasks} \cup {None}]
         /\ \A i \in Inodes : flock[i] \notin S => flock'[i] = flock[i]
BY DEF Dropped, LockInv, LockTypeOK

\* A task's step that gives its attempt a new state r.
LEMMA LockPut ==
  ASSUME LockInv, NEW t \in Tasks, NEW r \in LockStates,
         lock' = [lock EXCEPT ![t] = r], PathMoved, path' \in Inodes \cup {None},
         info' \in [Inodes -> Procs \cup {"new", "stale"}],
         flock' \in [Inodes -> Tasks \cup {Leaked(u) : u \in Tasks} \cup {None}],
         \A i \in Inodes : flock[i] \notin {t, None} => flock'[i] = flock[i],
         UNCHANGED leaked,
         r.at \in {"wait", "judge", "unlink", "verify", "held"} => r.fd \in Inodes,
         r.at \in {"open", "wait", "judge", "unlink", "verify"} => r.phase \in 1..4,
         r.at \in {"verify", "held"} => flock'[r.fd] = t
  PROVE  LockInv' /\ lock'[t] = r /\ \A u \in Tasks \ {t} : lock'[u] = lock[u]
<1>1. lock \in [Tasks -> LockStates]
  BY DEF LockInv, LockTypeOK, LockStates
<1>2. lock' \in [Tasks -> LockStates] /\ lock'[t] = r /\ \A u \in Tasks \ {t} : lock'[u] = lock[u]
  BY <1>1
<1>3. LockTypeOK'
  BY <1>2 DEF LockInv, LockTypeOK, LockStates
<1>4. ASSUME NEW u \in Tasks PROVE LockOK(u)'
  <2>1. CASE u = t
    BY <2>1, <1>2 DEF LockOK
  <2>2. CASE u # t
    <3>1. LockOK(u) /\ lock'[u] = lock[u]
      BY <2>2, <1>2 DEF LockInv
    <3>2. u # None
      BY LockAssumption
    <3> QED BY <2>2, <3>1, <3>2 DEF LockOK
  <2> QED BY <2>1, <2>2
<1>5. (Cardinality(Abandoned) <= MaxLeaked)'
  BY DEF LockInv, Abandoned
<1> QED BY <1>2, <1>3, <1>4, <1>5 DEF LockInv

\* What follows the flock keeps LockInv, whatever became of the holder info.
LEMMA CompareMoves ==
  ASSUME LockInv, NEW t \in Tasks, Compare(t),
         info' \in [Inodes -> Procs \cup {"new", "stale"}]
  PROVE  LockMoved
<1> USE DEF LockStates, Places
<1>1. LockOK(t) /\ lock[t] \in LockStates /\ lock \in [Tasks -> LockStates] /\ t # None
  BY LockAssumption DEF LockInv, LockTypeOK
<1>2. path \in Inodes \cup {None}
      /\ flock \in [Inodes -> Tasks \cup {Leaked(u) : u \in Tasks} \cup {None}]
  BY DEF LockInv, LockTypeOK
<1>3. info' \in [Inodes -> Procs \cup {"new", "stale"}] /\ UNCHANGED <<path, leaked>>
      /\ PathMoved /\ lock[t].at = "verify" /\ lock[t].phase \in 1..4
      /\ lock[t].fd \in Inodes /\ flock[lock[t].fd] = t
  BY <1>1, <1>2 DEF Compare, PathMoved, LockOK
<1>4. CASE StillLive(t)
  <2> DEFINE r == [lock[t] EXCEPT !.at = "held"]
  <2>1. r \in LockStates /\ r.at = "held" /\ r.fd = lock[t].fd
    BY <1>1
  <2>2. lock' = [lock EXCEPT ![t] = r] /\ UNCHANGED flock
    BY <1>1, <1>4 DEF Compare
  <2> HIDE DEF r
  <2>3. LockInv' /\ lock'[t] = r /\ \A u \in Tasks \ {t} : lock'[u] = lock[u]
    BY <1>1, <1>2, <1>3, <2>1, <2>2, LockPut
  <2> QED BY <1>3, <1>4, <2>1, <2>3 DEF LockMoved, Settled, StillLive
<1>5. CASE ~StillLive(t)
  <2> DEFINE r == AfterRetry(lock[t].phase)
  <2>1. r \in {Failed} \cup {AtPhase(m) : m \in 1..4}
    BY <1>3, AfterFacts
  <2>2. r \in LockStates /\ r.at \in {"failed", "open"} /\ (r.at = "open" => r.phase \in 1..4)
    BY <2>1, PhaseFacts
  <2>3. lock' = [lock EXCEPT ![t] = r] /\ flock' = Dropped({t})
    BY <1>5 DEF Compare
  <2>4. /\ flock' \in [Inodes -> Tasks \cup {Leaked(u) : u \in Tasks} \cup {None}]
        /\ \A i \in Inodes : flock[i] \notin {t, None} => flock'[i] = flock[i]
    BY <2>3, DroppedFacts
  <2> HIDE DEF r
  <2>5. LockInv' /\ lock'[t] = r /\ \A u \in Tasks \ {t} : lock'[u] = lock[u]
    BY <1>1, <1>2, <1>3, <2>2, <2>3, <2>4, LockPut
  <2> QED BY <1>3, <2>2, <2>5 DEF LockMoved, Settled
<1> QED BY <1>4, <1>5

\* Every step of the lock keeps LockInv, and does no more than LockMoved says.
LEMMA LockStepMoves ==
  ASSUME LockInv, NEW t \in Tasks, LockStep(t)
  PROVE  LockMoved
<1> USE DEF LockStates, Places
<1>1. LockOK(t) /\ lock[t] \in LockStates /\ lock \in [Tasks -> LockStates] /\ t # None
  BY LockAssumption DEF LockInv, LockTypeOK
<1>2. /\ path \in Inodes \cup {None} /\ info \in [Inodes -> Procs \cup {"new", "stale"}]
      /\ flock \in [Inodes -> Tasks \cup {Leaked(u) : u \in Tasks} \cup {None}]
      /\ Owner[t] \in Procs
  BY LockAssumption DEF LockInv, LockTypeOK
<1>3. CASE TryOnce(t)
  <2>1. Opened \in Inodes /\ path' = Opened /\ PathMoved
        /\ info' \in [Inodes -> Procs \cup {"new", "stale"}]
    BY <1>3, CreateFacts DEF TryOnce
  <2>2. CASE flock[Opened] = None
    <3> DEFINE r == [lock[t] EXCEPT !.at = "verify", !.fd = Opened]
    <3>1. r \in LockStates /\ r.at = "verify" /\ r.fd = Opened /\ r.phase \in 1..4
      BY <1>1, <1>3, <2>1 DEF TryOnce, LockOK
    <3>2. lock' = [lock EXCEPT ![t] = r] /\ flock' = [flock EXCEPT ![Opened] = t]
          /\ UNCHANGED leaked
      BY <1>1, <1>3, <2>2 DEF TryOnce
    <3>3. lock[t].at = "open"
      BY <1>3 DEF TryOnce
    <3> HIDE DEF r
    <3>4. LockInv' /\ lock'[t] = r /\ \A u \in Tasks \ {t} : lock'[u] = lock[u]
      BY ZenonT(60), <1>1, <1>2, <2>1, <2>2, <3>1, <3>2, LockPut
    <3> QED BY <2>1, <3>1, <3>3, <3>4 DEF LockMoved, Settled
  <2>3. CASE flock[Opened] # None
    <3> DEFINE r == [lock[t] EXCEPT !.at = "judge", !.fd = Opened]
    <3>1. r \in LockStates /\ r.at = "judge" /\ r.fd = Opened /\ r.phase \in 1..4
      BY <1>1, <1>3, <2>1 DEF TryOnce, LockOK
    <3>2. lock' = [lock EXCEPT ![t] = r] /\ flock' = flock /\ UNCHANGED leaked
      BY <1>1, <1>3, <2>3 DEF TryOnce
    <3>3. lock[t].at = "open"
      BY <1>3 DEF TryOnce
    <3> HIDE DEF r
    <3>4. LockInv' /\ lock'[t] = r /\ \A u \in Tasks \ {t} : lock'[u] = lock[u]
      BY <1>1, <1>2, <2>1, <2>3, <3>1, <3>2, LockPut
    <3> QED BY <2>1, <3>1, <3>3, <3>4 DEF LockMoved, Settled
  <2> QED BY <2>2, <2>3
<1>4. CASE OpenFails(t)
  <2>1. /\ lock' = [lock EXCEPT ![t] = Failed] /\ lock[t].at = "open"
        /\ UNCHANGED <<path, info, flock, leaked>> /\ PathMoved
    BY <1>4 DEF OpenFails, PathMoved
  <2>2. LockInv' /\ lock'[t] = Failed /\ \A u \in Tasks \ {t} : lock'[u] = lock[u]
    BY <1>1, <1>2, <2>1, PhaseFacts, LockPut
  <2> QED BY <2>1, <2>2, PhaseFacts DEF LockMoved, Settled
<1>5. CASE OpenBlocking(t)
  <2>1. Opened \in Inodes /\ path' = Opened /\ PathMoved
        /\ info' \in [Inodes -> Procs \cup {"new", "stale"}]
    BY <1>5, CreateFacts DEF OpenBlocking
  <2> DEFINE r == [lock[t] EXCEPT !.at = "wait", !.fd = Opened]
  <2>2. r \in LockStates /\ r.at = "wait" /\ r.fd = Opened /\ r.phase \in 1..4
    BY <1>1, <1>5, <2>1 DEF OpenBlocking, LockOK
  <2>3. lock' = [lock EXCEPT ![t] = r] /\ UNCHANGED <<flock, leaked>> /\ lock[t].at = "open"
    BY <1>1, <1>5 DEF OpenBlocking
  <2> HIDE DEF r
  <2>4. LockInv' /\ lock'[t] = r /\ \A u \in Tasks \ {t} : lock'[u] = lock[u]
    BY <1>1, <1>2, <2>1, <2>2, <2>3, LockPut
  <2> QED BY <2>1, <2>2, <2>3, <2>4 DEF LockMoved, Settled
<1>6. CASE Wait(t)
  <2> DEFINE r == [lock[t] EXCEPT !.at = "verify"]
  <2>1. r \in LockStates /\ r.at = "verify" /\ r.fd = lock[t].fd /\ r.phase \in 1..4
        /\ r.fd \in Inodes
    BY <1>1, <1>6 DEF Wait, LockOK
  <2>2. /\ lock' = [lock EXCEPT ![t] = r] /\ flock' = [flock EXCEPT ![r.fd] = t]
        /\ flock[r.fd] = None
        /\ UNCHANGED <<path, info, leaked>> /\ lock[t].at = "wait" /\ PathMoved
    BY <1>1, <1>6 DEF Wait, PathMoved
  <2> HIDE DEF r
  <2>3. LockInv' /\ lock'[t] = r /\ \A u \in Tasks \ {t} : lock'[u] = lock[u]
    BY <1>1, <1>2, <2>1, <2>2, LockPut
  <2> QED BY <2>1, <2>2, <2>3 DEF LockMoved, Settled
<1>7. CASE Verify(t)
  BY <1>2, <1>7, CompareMoves DEF Verify
<1>8. CASE Judge(t)
  <2>1. UNCHANGED <<path, info, flock, leaked>> /\ lock[t].at = "judge" /\ PathMoved
        /\ lock[t].fd \in Inodes /\ lock[t].phase \in 1..4
    BY <1>1, <1>8 DEF Judge, PathMoved, LockOK
  <2>2. PICK r \in LockStates :
           /\ lock' = [lock EXCEPT ![t] = r] /\ r.at \in {"unlink", "failed", "open"}
           /\ r.at = "unlink" => r.fd \in Inodes
           /\ r.at \in {"unlink", "open"} => r.phase \in 1..4
    <3>1. CASE info[lock[t].fd] = "stale"
      <4> DEFINE r == [lock[t] EXCEPT !.at = "unlink"]
      <4>1. r \in LockStates /\ r.at = "unlink" /\ r.fd \in Inodes /\ r.phase \in 1..4
        BY <1>1, <2>1
      <4>2. lock' = [lock EXCEPT ![t] = r]
        BY <1>1, <1>8, <3>1 DEF Judge
      <4> QED BY <4>1, <4>2
    <3>2. CASE info[lock[t].fd] # "stale"
      <4> DEFINE r == AfterBusy(lock[t].phase)
      <4>1. r \in {Failed} \cup {AtPhase(m) : m \in 1..4}
        BY <2>1, AfterFacts
      <4>2. r \in LockStates /\ r.at \in {"failed", "open"} /\ (r.at = "open" => r.phase \in 1..4)
        BY <4>1, PhaseFacts
      <4>3. lock' = [lock EXCEPT ![t] = r]
        BY <1>8, <3>2 DEF Judge
      <4> HIDE DEF r
      <4> QED BY <4>2, <4>3
    <3> QED BY <3>1, <3>2
  <2>3. LockInv' /\ lock'[t] = r /\ \A u \in Tasks \ {t} : lock'[u] = lock[u]
    BY <1>1, <1>2, <2>1, <2>2, LockPut
  <2> QED BY <2>1, <2>2, <2>3 DEF LockMoved, Settled
<1>9. CASE Unlink(t)
  <2>1. UNCHANGED <<info, flock, leaked>> /\ path' = None /\ lock[t].at = "unlink" /\ PathMoved
        /\ lock[t].phase \in 1..4
    BY <1>1, <1>9 DEF Unlink, PathMoved, LockOK
  <2> DEFINE r == IF path = None THEN AfterBusy(lock[t].phase) ELSE AfterRetry(lock[t].phase)
  <2>2. r \in {Failed} \cup {AtPhase(m) : m \in 1..4}
    BY <2>1, AfterFacts
  <2>3. r \in LockStates /\ r.at \in {"failed", "open"} /\ (r.at = "open" => r.phase \in 1..4)
    BY <2>2, PhaseFacts
  <2>4. lock' = [lock EXCEPT ![t] = r]
    BY <1>9 DEF Unlink
  <2> HIDE DEF r
  <2>5. LockInv' /\ lock'[t] = r /\ \A u \in Tasks \ {t} : lock'[u] = lock[u]
    BY <1>1, <1>2, <2>1, <2>3, <2>4, LockPut
  <2> QED BY <2>1, <2>3, <2>5 DEF LockMoved, Settled
<1>10. CASE Timeout(t)
  <2>1. /\ UNCHANGED <<path, info, flock, leaked>> /\ lock[t].at \in {"open", "wait"} /\ PathMoved
        /\ lock' = [lock EXCEPT ![t] = AtPhase(3)]
    BY <1>10 DEF Timeout, PathMoved
  <2>2. AtPhase(3) \in LockStates /\ AtPhase(3).at = "open" /\ AtPhase(3).phase \in 1..4
    BY PhaseFacts
  <2>3. LockInv' /\ lock'[t] = AtPhase(3) /\ \A u \in Tasks \ {t} : lock'[u] = lock[u]
    BY <1>1, <1>2, <2>1, <2>2, LockPut
  <2> QED BY <2>1, <2>2, <2>3 DEF LockMoved, Settled
<1>11. CASE LeakedFlock(t)
  <2>1. /\ UNCHANGED <<path, info, lock, leaked>> /\ PathMoved
        /\ leaked[t] \in Inodes /\ flock[leaked[t]] = None
        /\ flock' = [flock EXCEPT ![leaked[t]] = Leaked(t)]
    BY <1>11 DEF LeakedFlock, PathMoved, LockInv, LockTypeOK
  <2>2. LockTypeOK'
    BY <1>2, <2>1 DEF LockInv, LockTypeOK
  <2>3. ASSUME NEW u \in Tasks PROVE LockOK(u)'
    <3>1. LockOK(u) /\ u # None
      BY LockAssumption DEF LockInv
    <3> QED BY <1>2, <2>1, <3>1 DEF LockOK
  <2>4. (Cardinality(Abandoned) <= MaxLeaked)'
    BY <2>1 DEF LockInv, Abandoned
  <2> QED BY <2>1, <2>2, <2>3, <2>4 DEF LockMoved, LockInv, Settled
<1>12. CASE LeakedDone(t)
  <2>1. /\ UNCHANGED <<path, lock>> /\ PathMoved
        /\ info' \in [Inodes -> Procs \cup {"new", "stale"}]
        /\ flock' = Dropped({Leaked(t)})
        /\ leaked' = [leaked EXCEPT ![t] = None]
    BY <1>2, <1>12 DEF LeakedDone, PathMoved, LockInv, LockTypeOK
  <2>2. /\ flock' \in [Inodes -> Tasks \cup {Leaked(u) : u \in Tasks} \cup {None}]
        /\ \A i \in Inodes : flock[i] \notin {Leaked(t)} => flock'[i] = flock[i]
    BY <2>1, DroppedFacts
  <2>3. LockTypeOK'
    BY <2>1, <2>2 DEF LockInv, LockTypeOK
  <2>4. ASSUME NEW u \in Tasks PROVE LockOK(u)'
    <3>1. LockOK(u) /\ u # Leaked(t)
      BY LockAssumption DEF LockInv, Leaked
    <3> QED BY <2>1, <2>2, <3>1 DEF LockOK
  <2>5. (Cardinality(Abandoned) <= MaxLeaked)'
    <3>1. Abandoned' \in SUBSET Abandoned
      BY <2>1 DEF Abandoned, LockInv, LockTypeOK
    <3>2. IsFiniteSet(Abandoned)
      <4>1. Abandoned \in SUBSET Tasks
        BY DEF Abandoned
      <4> QED BY <4>1, LockAssumption, FS_Subset
    <3>3. IsFiniteSet(Abandoned') /\ Cardinality(Abandoned') <= Cardinality(Abandoned)
      BY <3>1, <3>2, FS_Subset
    <3>4. Cardinality(Abandoned') \in Nat /\ Cardinality(Abandoned) \in Nat
      BY <3>2, <3>3, FS_CardinalityType
    <3> QED BY <3>3, <3>4, LockAssumption DEF LockInv
  <2> QED BY <2>1, <2>3, <2>4, <2>5 DEF LockMoved, LockInv, Settled
<1> QED BY <1>3, <1>4, <1>5, <1>6, <1>7, <1>8, <1>9, <1>10, <1>11, <1>12 DEF LockStep

\* A thread is left behind only while the bound allows it.
LEMMA TimeoutLeaksMoves ==
  ASSUME LockInv, NEW t \in Tasks, TimeoutLeaks(t)
  PROVE  LockMoved
<1>1. /\ lock[t].at = "wait" /\ leaked[t] = None /\ lock[t].fd \in Inodes
      /\ Cardinality(Abandoned) < MaxLeaked
      /\ lock' = [lock EXCEPT ![t] = AtPhase(3)]
      /\ leaked' = [leaked EXCEPT ![t] = lock[t].fd]
      /\ UNCHANGED <<path, info, flock>> /\ PathMoved
  BY DEF TimeoutLeaks, Abandoned, PathMoved, LockInv, LockOK
<1>2. /\ AtPhase(3) \in LockStates /\ AtPhase(3).at = "open" /\ AtPhase(3).fd = None
      /\ AtPhase(3).phase \in 1..4
  BY PhaseFacts
<1>3. lock \in [Tasks -> LockStates]
  BY DEF LockInv, LockTypeOK, LockStates
<1>4. lock' \in [Tasks -> LockStates] /\ lock'[t] = AtPhase(3)
      /\ \A u \in Tasks \ {t} : lock'[u] = lock[u]
  BY <1>1, <1>2, <1>3
<1>5. LockTypeOK'
  BY <1>1, <1>4 DEF LockInv, LockTypeOK, LockStates
<1>6. ASSUME NEW u \in Tasks PROVE LockOK(u)'
  <2>1. LockOK(u)
    BY DEF LockInv
  <2> QED BY <1>1, <1>2, <1>4, <2>1 DEF LockOK
<1>7. (Cardinality(Abandoned) <= MaxLeaked)'
  <2>1. Abandoned' = Abandoned \cup {t}
    BY <1>1, LockAssumption DEF Abandoned, LockInv, LockTypeOK, Inodes
  <2>2. IsFiniteSet(Abandoned)
    <3>1. Abandoned \in SUBSET Tasks
      BY DEF Abandoned
    <3> QED BY <3>1, LockAssumption, FS_Subset
  <2>3. Cardinality(Abandoned') <= Cardinality(Abandoned) + 1
    <3>1. Cardinality(Abandoned \cup {t}) = IF t \in Abandoned THEN Cardinality(Abandoned)
                                            ELSE Cardinality(Abandoned) + 1
      BY <2>2, FS_AddElement
    <3>2. Cardinality(Abandoned) \in Nat
      BY <2>2, FS_CardinalityType
    <3> QED BY <2>1, <3>1, <3>2
  <2>4. IsFiniteSet(Abandoned')
    BY <2>1, <2>2, FS_AddElement
  <2>5. Cardinality(Abandoned') \in Nat /\ Cardinality(Abandoned) \in Nat
    BY <2>2, <2>4, FS_CardinalityType
  <2> QED BY <1>1, <2>3, <2>5, LockAssumption
<1> QED BY <1>1, <1>2, <1>4, <1>5, <1>6, <1>7 DEF LockMoved, LockInv, Settled

\* The lock's own steps, with what they leave alone.
LEMMA LockStepsMove ==
  ASSUME LockInv, LockSteps
  PROVE  LockMoved
<1>1. CASE \E t \in Tasks : LockStep(t)
  BY <1>1, LockStepMoves
<1>2. CASE \E t \in Tasks : TimeoutLeaks(t)
  BY <1>2, TimeoutLeaksMoves
<1>3. CASE \E t \in Tasks : VerifyUnwritten(t)
  <2>1. PICK t \in Tasks : VerifyUnwritten(t)
    BY <1>3
  <2>2. Compare(t) /\ info' \in [Inodes -> Procs \cup {"new", "stale"}]
    BY <2>1 DEF VerifyUnwritten, LockInv, LockTypeOK
  <2> QED BY <2>2, CompareMoves
<1>4. CASE AgeLeftover
  <2>1. UNCHANGED <<path, flock, lock, leaked>> /\ info' \in [Inodes -> Procs \cup {"new", "stale"}]
    BY <1>4 DEF AgeLeftover, LockInv, LockTypeOK
  <2> QED BY <2>1 DEF LockMoved, LockInv, LockTypeOK, LockOK, Abandoned, PathMoved, Settled
<1> QED BY <1>1, <1>2, <1>3, <1>4 DEF LockSteps

\* A step that changes at most the text in the lock files, or makes a lock file.
LEMMA InfoMoves ==
  ASSUME LockInv, UNCHANGED <<flock, lock, leaked>>, path' \in Inodes \cup {None},
         info' \in [Inodes -> Procs \cup {"new", "stale"}]
  PROVE  LockInv'
BY DEF LockInv, LockTypeOK, LockOK, Abandoned

\* A task gives up its lock, begins an attempt, or does the one and then the other.
LockMove(t) ==
    /\ UNCHANGED <<path, info, leaked>>
    /\ \/ UNCHANGED <<lock, flock>>
       \/ /\ lock' = Released(t) \/ lock' = Begun(t)
          /\ flock' = flock \/ flock' = Dropped({t})

\* Then its attempt is the one before or holds nothing, and the others go on.
LEMMA LockMoveFacts ==
  ASSUME LockInv, NEW t \in Tasks, LockMove(t)
  PROVE  /\ LockInv'
         /\ lock'[t] = lock[t] \/ lock'[t].at \in {"out", "open"}
         /\ \A u \in Tasks \ {t} : lock'[u] = lock[u]
<1>1. CASE UNCHANGED <<lock, flock>>
  BY <1>1 DEF LockMove, LockInv, LockTypeOK, LockOK, Abandoned
<1>2. CASE ~UNCHANGED <<lock, flock>>
  <2>1. PICK r \in {NotLocking, AtPhase(1)} : lock' = [lock EXCEPT ![t] = r]
    BY <1>2 DEF LockMove, Released, Begun
  <2>2. r \in LockStates /\ r.at \in {"out", "open"} /\ (r.at = "open" => r.phase \in 1..4)
    BY <2>1, PhaseFacts
  <2>3. /\ UNCHANGED <<path, info, leaked>> /\ PathMoved
        /\ path' \in Inodes \cup {None}
        /\ info' \in [Inodes -> Procs \cup {"new", "stale"}]
    BY DEF LockMove, PathMoved, LockInv, LockTypeOK
  <2>4. /\ flock' \in [Inodes -> Tasks \cup {Leaked(u) : u \in Tasks} \cup {None}]
        /\ \A i \in Inodes : flock[i] \notin {t, None} => flock'[i] = flock[i]
    <3>1. CASE flock' = flock
      BY <3>1 DEF LockInv, LockTypeOK
    <3>2. CASE flock' = Dropped({t})
      BY <3>2, DroppedFacts
    <3> QED BY <1>2, <3>1, <3>2 DEF LockMove
  <2>5. LockInv' /\ lock'[t] = r /\ \A u \in Tasks \ {t} : lock'[u] = lock[u]
    BY <2>1, <2>2, <2>3, <2>4, LockPut
  <2> QED BY <2>2, <2>5
<1> QED BY <1>1, <1>2

\* A process dies.
LEMMA KillMoves ==
  ASSUME LockInv, NEW p \in Procs, KillLocks(p)
  PROVE  /\ LockInv' /\ path' = path
         /\ \A u \in TasksOf(p) : lock'[u] = NotLocking
         /\ \A u \in Tasks \ TasksOf(p) : lock'[u] = lock[u]
<1>1. lock \in [Tasks -> LockStates]
  BY DEF LockInv, LockTypeOK, LockStates
<1>2. /\ lock' \in [Tasks -> LockStates]
      /\ \A u \in TasksOf(p) : lock'[u] = NotLocking
      /\ \A u \in Tasks \ TasksOf(p) : lock'[u] = lock[u]
  BY <1>1, PhaseFacts DEF KillLocks, TasksOf
<1> DEFINE S == TasksOf(p) \cup {Leaked(t) : t \in TasksOf(p)}
<1>3. /\ flock' \in [Inodes -> Tasks \cup {Leaked(t) : t \in Tasks} \cup {None}]
      /\ \A i \in Inodes : flock[i] \notin S => flock'[i] = flock[i]
  <2>1. flock' = Dropped(S)
    BY DEF KillLocks
  <2> HIDE DEF S
  <2> QED BY <2>1, DroppedFacts
<1>4. LockTypeOK'
  BY <1>2, <1>3 DEF LockInv, LockTypeOK, LockStates, KillLocks
<1>5. ASSUME NEW u \in Tasks PROVE LockOK(u)'
  <2>1. CASE u \in TasksOf(p)
    BY <2>1, <1>2, PhaseFacts DEF LockOK
  <2>2. CASE u \notin TasksOf(p)
    <3>1. u \notin S
      BY <2>2, LockAssumption DEF TasksOf, Leaked
    <3>2. LockOK(u) /\ lock'[u] = lock[u]
      BY <2>2, <1>2 DEF LockInv
    <3> HIDE DEF S
    <3> QED BY <1>3, <3>1, <3>2 DEF LockOK
  <2> QED BY <2>1, <2>2
<1>6. (Cardinality(Abandoned) <= MaxLeaked)'
  <2>1. Abandoned' \in SUBSET Abandoned
    BY DEF Abandoned, KillLocks
  <2>2. IsFiniteSet(Abandoned)
    <3>1. Abandoned \in SUBSET Tasks
      BY DEF Abandoned
    <3> QED BY <3>1, LockAssumption, FS_Subset
  <2>3. IsFiniteSet(Abandoned') /\ Cardinality(Abandoned') <= Cardinality(Abandoned)
    BY <2>1, <2>2, FS_Subset
  <2>4. Cardinality(Abandoned') \in Nat /\ Cardinality(Abandoned) \in Nat
    BY <2>2, <2>3, FS_CardinalityType
  <2> QED BY <2>3, <2>4, LockAssumption DEF LockInv
<1> QED BY <1>2, <1>4, <1>5, <1>6 DEF LockInv, KillLocks

-----------------------------------------------------------------------------
(* Steps of tasks.                                                         *)

ChainStates == [pc : Steps, reason : Reasons \cup {None}, pre : Gens \cup {None},
                cred : Gens \cup {None}, retry : BOOLEAN, out : Outcomes \cup {None}]

\* None is no generation, task or process, and every task has a process.
LEMMA ConstFacts ==
  /\ None \notin Nat /\ None \notin Tasks /\ None \notin Procs
  /\ \A t \in Tasks : Owner[t] \in Procs
  /\ Chains \subseteq Tasks /\ Enrichers \subseteq Tasks /\ Flows \subseteq Tasks
  /\ Chains \cap Enrichers = {} /\ Chains \cap Flows = {} /\ Enrichers \cap Flows = {}
  /\ Tasks = Chains \cup Enrichers \cup Flows
  /\ Gens \subseteq Nat /\ MaxGen \in Nat
BY LockAssumption, RefreshAssumption DEF Gens

\* The process of a startup flow has a chain for it to call.
LEMMA CalleeFacts ==
  ASSUME NEW f \in Flows
  PROVE  Callee(f) \in Chains /\ Owner[Callee(f)] = Owner[f]
BY RefreshAssumption DEF Callee

\* Changing a task's step and locals.
LEMMA ChainPut ==
  ASSUME chain \in [Tasks -> ChainStates], NEW t \in Tasks, NEW r \in ChainStates,
         chain' = [chain EXCEPT ![t] = r]
  PROVE  /\ chain' \in [Tasks -> ChainStates] /\ chain'[t] = r
         /\ \A u \in Tasks \ {t} : chain'[u] = chain[u]
OBVIOUS

\* A task that a step leaves alone can rely on what it relied on.
LEMMA TaskKept ==
  ASSUME NEW u \in Tasks, TaskOK(u), chain'[u] = chain[u],
         lock[u].at \in {"held", "failed"} => lock'[u].at = lock[u].at,
         mutex[Owner[u]] = u => mutex'[Owner[u]] = u,
         issued \in Nat, issued' \in {issued, issued + 1}, revoked => revoked'
  PROVE  TaskOK(u)'
<1>1. \A g \in 0..issued : g \in 0..issued' /\ (Dead(g) => Dead(g)')
  BY DEF Dead
<1>2. Known \subseteq Known'
  BY <1>1 DEF Known
<1>3. ASSUME NEW out, OutOK(out) PROVE OutOK(out)'
  <2>1. out.kind = "permanent" => out.cred \in 0..issued
    BY <1>3 DEF OutOK, Known
  <2> QED BY <1>1, <1>2, <1>3, <2>1 DEF OutOK
<1>4. chain[u].pc \in {"answered", "apply"} => OutOK(chain[u].out)'
  BY <1>3 DEF TaskOK
<1>5. chain[u].cred \in Known'
  BY <1>2 DEF TaskOK
<1> QED BY <1>4, <1>5 DEF TaskOK

\* Credentials stay known and dead verdicts dead.
LEMMA TokensKept ==
  ASSUME Tokens, issued \in Nat, issued' \in {issued, issued + 1}, revoked => revoked',
         disk' \in Known',
         \A p \in Procs : mem'[p] = mem[p] \/ mem'[p] \in Known',
         \A p \in Procs : verdict'[p] = verdict[p] \/ verdict'[p] = None
  PROVE  Tokens'
<1>1. \A g \in 0..issued : g \in 0..issued' /\ (Dead(g) => Dead(g)')
  BY DEF Dead
<1>2. Known \subseteq Known'
  BY <1>1 DEF Known
<1>3. \A p \in Procs : mem'[p] \in Known'
  BY <1>2 DEF Tokens
<1>4. ASSUME NEW p \in Procs, verdict'[p] # None
      PROVE  /\ verdict'[p].key \in 0..issued'
             /\ verdict'[p].sticky => revoked' \/ verdict'[p].key # issued'
  <2>1. verdict'[p] = verdict[p] /\ verdict[p].key \in 0..issued
    BY <1>4 DEF Tokens
  <2> QED BY <1>1, <1>4, <2>1 DEF Tokens, Dead
<1> QED BY <1>3, <1>4 DEF Tokens, Dead

\* The types of what is not the lock's.
Shape ==
    /\ disk \in Gens \cup {None}
    /\ mem \in [Procs -> Gens \cup {None}]
    /\ verdict \in [Procs -> [key : Gens, sticky : BOOLEAN] \cup {None}]
    /\ blips \in [Procs -> [key : Gens \cup {None}, count : 0..(MaxTransient - 1)]]
    /\ mutex \in [Procs -> Chains \cup {None}]
    /\ chain \in [Tasks -> ChainStates]
    /\ inflight \in [Procs -> Int]
    /\ gate \in [Procs -> BOOLEAN]
    /\ power \in [Procs -> {"awake", "raised", "acked", "timedOut", "slept"}]
    /\ issued \in Gens /\ revoked \in BOOLEAN /\ expired \subseteq Gens
    /\ broken \in BOOLEAN /\ excused \in BOOLEAN

\* One chain per process at most has the slot, so the counter is within its type.
LEMMA InFlightType ==
  ASSUME InFlight, inflight \in [Procs -> Int]
  PROVE  inflight \in [Procs -> 0..Cardinality(Chains)]
<1> SUFFICES ASSUME NEW p \in Procs PROVE inflight[p] \in 0..Cardinality(Chains)
  OBVIOUS
<1>1. IsFiniteSet(Chains)
  BY LockAssumption, RefreshAssumption, FS_Subset
<1>2. Cardinality(Chains) \in Nat
  BY <1>1, FS_CardinalityType
<1>3. CASE Slotted(p)
  <2>1. Chains # {}
    BY <1>3 DEF Slotted
  <2>2. Cardinality(Chains) # 0
    BY <1>1, <2>1, FS_EmptySet
  <2> QED BY <1>2, <1>3, <2>2 DEF InFlight
<1>4. CASE ~Slotted(p)
  BY <1>2, <1>4 DEF InFlight
<1> QED BY <1>3, <1>4

\* The type invariant is the three together.
LEMMA TypeParts == LockInv /\ InFlight /\ Shape => TypeOK
BY InFlightType DEF LockInv, Shape, TypeOK, ChainStates

\* ... and implies the types the steps below speak of.
LEMMA PartsOfType == TypeOK => Shape
BY DEF Shape, TypeOK, ChainStates

\* The lock is held by the task the path's flock belongs to.
LEMMA LiveIsAlone ==
  ASSUME LockInv, NEW t \in Tasks, NEW u \in Tasks, Holds(t), Holds(u), StillLive(t), StillLive(u)
  PROVE  t = u
<1>1. LockOK(t) /\ LockOK(u)
  BY DEF LockInv
<1> QED BY <1>1 DEF LockOK, Holds, StillLive

\* While no lock was broken, a task past its last check is the only one there, and
\* nobody else holds the lock the path names.
LEMMA CriticalIsAlone ==
  ASSUME LockInv, Live, ~broken, NEW t \in Tasks, Critical(t)
  PROVE  \A u \in Tasks \ {t} : ~Critical(u) /\ ~(Holds(u) /\ StillLive(u))
BY LiveIsAlone DEF Live, Critical

\* A chain past its last check holds the lock.
LEMMA HoldersCritical ==
  ASSUME TasksOK, NEW t \in Tasks, chain[t].pc \in {"claim", "gate", "idp", "answered", "apply"}
  PROVE  Critical(t)
BY DEF TasksOK, TaskOK, HoldPoints, Critical, Holds

\* If nothing went wrong, a chain that carries nothing finds the newest credential
\* on the disk.
LEMMA DiskIsNewest ==
  ASSUME LockInv, TasksOK, Live, Newest, ~excused,
         NEW t \in Tasks, chain[t].pc \in {"claim", "gate", "idp", "answered", "apply"}, ~Carries(t)
  PROVE  disk = issued
<1>1. Critical(t) /\ ~broken
  BY HoldersCritical DEF Live
<1>2. ASSUME NEW u \in Chains, Carries(u) PROVE FALSE
  <2>1. u \in Tasks /\ Critical(u)
    BY <1>2, ConstFacts, HoldersCritical DEF Carries
  <2>2. u # t
    BY <1>2
  <2> QED BY <1>1, <2>1, <2>2, CriticalIsAlone
<1> QED BY <1>2 DEF Newest

\* The task t steps; another one is left alone or is called by it.
Others(t) ==
    \A u \in Tasks \ {t} :
        chain'[u] = chain[u] \/ (chain[u].pc = "idle" /\ chain'[u].pc \in {"mutex", "fetch"})

\* The slots after a step that neither takes nor gives back one.
LEMMA SlotSame ==
  ASSUME InFlight, NEW t \in Tasks, Others(t), UNCHANGED inflight,
         (t \in Chains) => (chain[t].pc \in SlotPoints <=> chain'[t].pc \in SlotPoints)
  PROVE  InFlight'
<1>1. \A u \in Chains : chain[u].pc \in SlotPoints <=> chain'[u].pc \in SlotPoints
  BY ConstFacts DEF Others, SlotPoints
<1>2. \A p \in Procs : Slotted(p)' <=> Slotted(p)
  BY <1>1 DEF Slotted
<1> QED BY <1>2 DEF InFlight

\* refresh_lock admits one chain of a process to the slot.
LEMMA SlotAlone ==
  ASSUME TasksOK, NEW t \in Chains, NEW u \in Chains, Owner[t] = Owner[u],
         chain[t].pc \notin {"idle", "mutex"}, chain[u].pc \notin {"idle", "mutex"}
  PROVE  t = u
BY ConstFacts DEF TasksOK, TaskOK

\* A slot is taken.
LEMMA SlotTaken ==
  ASSUME InFlight, TasksOK, NEW t \in Chains, chain[t].pc = "claim", chain'[t].pc \in SlotPoints,
         \A u \in Tasks \ {t} : chain'[u] = chain[u], inflight \in [Procs -> Int],
         inflight' = [inflight EXCEPT ![Owner[t]] = @ + 1]
  PROVE  InFlight'
<1>1. ~Slotted(Owner[t]) /\ Slotted(Owner[t])'
  BY SlotAlone DEF Slotted, SlotPoints
<1>2. \A p \in Procs \ {Owner[t]} : Slotted(p)' <=> Slotted(p)
  BY ConstFacts DEF Slotted
<1>3. Owner[t] \in Procs
  BY ConstFacts
<1> QED BY <1>1, <1>2, <1>3 DEF InFlight

\* A slot is given back.
LEMMA SlotEnded ==
  ASSUME InFlight, TasksOK, NEW t \in Chains, chain[t].pc \in SlotPoints,
         chain'[t].pc \notin SlotPoints,
         \A u \in Tasks \ {t} : chain'[u] = chain[u], inflight \in [Procs -> Int],
         EndInFlight(t)
  PROVE  InFlight'
<1>1. Slotted(Owner[t])
  BY DEF Slotted
<1>2. ~Slotted(Owner[t])'
  <2> SUFFICES ASSUME NEW u \in Chains, Owner[u] = Owner[t], chain'[u].pc \in SlotPoints PROVE FALSE
    BY DEF Slotted
  <2>1. u # t /\ chain[u].pc \in SlotPoints
    BY ConstFacts
  <2> QED BY <2>1, SlotAlone DEF SlotPoints
<1>3. \A p \in Procs \ {Owner[t]} : Slotted(p)' <=> Slotted(p)
  BY ConstFacts DEF Slotted
<1>4. Owner[t] \in Procs
  BY ConstFacts
<1> QED BY <1>1, <1>2, <1>3, <1>4 DEF InFlight, EndInFlight, P

\* The invariant after a step, from its parts.
LEMMA Assemble ==
  LockInv /\ Shape /\ TasksOK /\ Tokens /\ InFlight /\ Gated /\ Live /\ Newest => IInv
BY TypeParts DEF IInv

\* If nothing went wrong, what t has got or is about to send or to write back is
\* the newest credential.
Honest(t) ==
    /\ (t \in Chains /\ Carries(t)) => Carries(t)'
    /\ (t \in Chains /\ chain'[t].pc \in {"answered", "apply"} /\ chain'[t].out.kind = "success")
          => chain'[t].out.cred = issued
    /\ (t \in Chains /\ chain'[t].pc = "idp") => chain'[t].cred = issued
    /\ chain'[t].pc = "stomp" => chain'[t].cred = disk

\* A step of one task that leaves provider and power listener alone.
LEMMA TaskStepCore ==
  ASSUME IInv, NEW t \in Tasks, LockMove(t), Others(t), Shape', Tokens', InFlight',
         TaskOK(t)', \A u \in Tasks \ {t} : chain'[u] = chain[u] \/ TaskOK(u)',
         \A u \in Tasks \ {t} : mutex[Owner[u]] = u => mutex'[Owner[u]] = u,
         UNCHANGED <<issued, revoked, broken, gate, power>>, excused => excused',
         (chain'[t].pc \in CriticalPoints /\ lock'[t].at = "held")
             => chain[t].pc \in CriticalPoints \/ StillLive(t),
         (t \in Chains /\ chain'[t].pc \in {"idp", "answered"})
             => chain[t].pc \in {"idp", "answered"} \/ gate[Owner[t]] # TRUE,
         Newest'
  PROVE  IInv'
<1>1. /\ LockInv' /\ path' = path
      /\ lock'[t] = lock[t] \/ lock'[t].at \in {"out", "open"}
      /\ \A u \in Tasks \ {t} : lock'[u] = lock[u]
  BY LockMoveFacts DEF IInv, LockMove
<1>2. TasksOK'
  <2> SUFFICES ASSUME NEW u \in Tasks \ {t}, chain'[u] = chain[u] PROVE TaskOK(u)'
    BY DEF TasksOK
  <2>1. TaskOK(u) /\ issued \in Nat
    BY ConstFacts DEF IInv, TasksOK, TypeOK
  <2> QED BY <1>1, <2>1, TaskKept
<1>3. ASSUME NEW u \in Tasks, Critical(u)' PROVE lock'[u] = lock[u] /\ (Critical(u) \/ (u = t /\ StillLive(u)))
  <2>1. CASE u = t
    BY <1>1, <1>3, <2>1 DEF Critical, Holds, CriticalPoints
  <2>2. CASE u # t
    BY <1>1, <1>3, <2>2 DEF Critical, Holds, Others
  <2> QED BY <2>1, <2>2
<1>4. Live'
  <2>1. (~broken)' => \A u \in Tasks : Critical(u)' => StillLive(u)'
    BY <1>1, <1>3 DEF Live, IInv, StillLive
  <2> QED BY <2>1 DEF Live, IInv
<1>5. Gated'
  <2> SUFFICES ASSUME NEW p \in Procs
               PROVE  /\ power'[p] # "awake" => gate'[p] = TRUE
                      /\ power'[p] = "acked" => \A u \in Chains : Owner[u] = p =>
                            chain'[u].pc \notin {"idp", "answered"}
    BY DEF Gated
  <2>1. power'[p] # "awake" => gate'[p] = TRUE
    BY DEF IInv, Gated
  <2>2. ASSUME power'[p] = "acked", NEW u \in Chains, Owner[u] = p
        PROVE  chain'[u].pc \notin {"idp", "answered"}
    <3>1. chain[u].pc \notin {"idp", "answered"} /\ gate[p] = TRUE
      BY <2>2 DEF IInv, Gated
    <3>2. CASE u = t
      BY <2>2, <3>1, <3>2
    <3>3. CASE u # t
      BY <2>2, <3>1, <3>3, ConstFacts DEF Others
    <3> QED BY <3>2, <3>3
  <2> QED BY <2>1, <2>2
<1>7. (LockInv /\ Shape /\ TasksOK /\ Tokens /\ InFlight /\ Gated /\ Live /\ Newest)' => IInv'
  BY Assemble, PTL
<1> QED BY <1>1, <1>2, <1>4, <1>5, <1>7

\* A step of one task that leaves the disk alone, too.
LEMMA TaskStepKept ==
  ASSUME IInv, NEW t \in Tasks, LockMove(t), Others(t), Shape', Tokens', InFlight',
         TaskOK(t)', \A u \in Tasks \ {t} : chain'[u] = chain[u] \/ TaskOK(u)',
         \A u \in Tasks \ {t} : mutex[Owner[u]] = u => mutex'[Owner[u]] = u,
         UNCHANGED <<disk, issued, revoked, broken, excused, gate, power>>,
         (chain'[t].pc \in CriticalPoints /\ lock'[t].at = "held")
             => chain[t].pc \in CriticalPoints \/ StillLive(t),
         (t \in Chains /\ chain'[t].pc \in {"idp", "answered"})
             => chain[t].pc \in {"idp", "answered"} \/ gate[Owner[t]] # TRUE,
         ~excused => Honest(t)
  PROVE  IInv'
<1>1. /\ path' = path
      /\ lock'[t] = lock[t] \/ lock'[t].at \in {"out", "open"}
      /\ \A u \in Tasks \ {t} : lock'[u] = lock[u]
  BY LockMoveFacts DEF IInv, LockMove
<1>6. Newest'
  <2> SUFFICES ASSUME ~excused PROVE Newest'
    BY DEF Newest
  <2>1. Newest /\ Honest(t)
    BY DEF IInv
  <2>2. disk' = issued' \/ \E u \in Chains : Carries(u)'
    <3>1. CASE disk = issued
      BY <3>1
    <3>2. ASSUME NEW u \in Chains, Carries(u) PROVE Carries(u)'
      <4>1. CASE u = t
        BY <2>1, <3>2, <4>1 DEF Honest
      <4>2. CASE u # t
        BY <3>2, <4>2, ConstFacts DEF Others, Carries
      <4> QED BY <4>1, <4>2
    <3> QED BY <2>1, <3>1, <3>2 DEF Newest
  <2>3. ASSUME NEW u \in Chains PROVE
          /\ (chain'[u].pc \in {"answered", "apply"} /\ chain'[u].out.kind = "success")
                => chain'[u].out.cred = issued
          /\ chain'[u].pc = "idp" => chain'[u].cred = issued
    <3>1. CASE u = t
      BY <2>1, <3>1 DEF Honest
    <3>2. CASE u # t
      BY <2>1, <3>2, ConstFacts DEF Others, Newest
    <3> QED BY <3>1, <3>2
  <2>4. ASSUME NEW e \in Enrichers, chain'[e].pc = "stomp", Holds(e)', StillLive(e)'
        PROVE  chain'[e].cred = disk
    <3>1. CASE e = t
      BY <2>1, <2>4, <3>1 DEF Honest
    <3>2. CASE e # t
      <4>1. chain'[e] = chain[e] /\ lock'[e] = lock[e]
        BY <1>1, <2>4, <3>2, ConstFacts DEF Others
      <4> QED BY <1>1, <2>1, <2>4, <4>1 DEF Newest, Holds, StillLive
    <3> QED BY <3>1, <3>2
  <2>5. ~revoked'
    BY <2>1 DEF Newest
  <2> QED BY <2>2, <2>3, <2>4, <2>5 DEF Newest
<1> QED BY <1>6, TaskStepCore

\* Types and credentials after a step that changes at most memory, by a look at the
\* disk, and what the task itself keeps.
LEMMA PlainStep ==
  ASSUME IInv, chain' \in [Tasks -> ChainStates], mutex' \in [Procs -> Chains \cup {None}],
         inflight' \in [Procs -> Int],
         mem' = mem \/ \E p \in Procs : AdoptDisk(p) \/ \E g \in Known : mem' = [mem EXCEPT ![p] = g],
         blips' \in [Procs -> [key : Gens \cup {None}, count : 0..(MaxTransient - 1)]],
         UNCHANGED <<disk, verdict, issued, revoked, expired, broken, excused, gate, power>>
  PROVE  Shape' /\ Tokens'
<1>1. Shape /\ Tokens /\ issued \in Nat
  BY PartsOfType, ConstFacts DEF IInv, TypeOK
<1>2. mem' \in [Procs -> Gens \cup {None}] /\ \A p \in Procs : mem'[p] = mem[p] \/ mem'[p] \in Known
  <2>1. Known \subseteq Gens \cup {None} /\ disk \in Known
    BY <1>1, ConstFacts DEF Known, Gens, Shape, Tokens
  <2> QED BY <1>1, <2>1 DEF Shape, AdoptDisk
<1>3. Shape'
  BY <1>1, <1>2 DEF Shape
<1>4. Known' = Known
  BY DEF Known
<1>5. disk \in Known
  BY <1>1 DEF Tokens
<1>6. Tokens'
  BY <1>1, <1>2, <1>4, <1>5, TokensKept
<1> QED BY <1>3, <1>6

\* A task returns.
LEMMA ReturnFacts ==
  ASSUME IInv, NEW t \in Tasks, Return(t)
  PROVE  /\ LockMove(t) /\ TaskOK(t)'
         /\ chain' \in [Tasks -> ChainStates] /\ chain'[t] = Idle /\ chain'[t].pc = "idle"
         /\ \A u \in Tasks \ {t} : chain'[u] = chain[u]
         /\ mutex' \in [Procs -> Chains \cup {None}]
         /\ \A u \in Tasks \ {t} : mutex[Owner[u]] = u => mutex'[Owner[u]] = u
<1>1. LockMove(t)
  BY DEF Return, LockMove
<1>2. chain \in [Tasks -> ChainStates] /\ mutex \in [Procs -> Chains \cup {None}]
  BY PartsOfType DEF IInv, Shape
<1>3. Idle \in ChainStates /\ Idle.pc = "idle" /\ Idle.cred = None
  BY DEF Idle, ChainStates, Steps
<1>4. /\ chain' \in [Tasks -> ChainStates] /\ chain'[t] = Idle
      /\ \A u \in Tasks \ {t} : chain'[u] = chain[u]
  BY <1>2, <1>3 DEF Return
<1>5. mutex' \in [Procs -> Chains \cup {None}] /\ \A p \in Procs : mutex[p] # t => mutex'[p] = mutex[p]
  BY <1>2 DEF Return
<1>6. TaskOK(t)'
  BY <1>3, <1>4 DEF TaskOK, ChainPoints, EnricherPoints, FlowPoints, HoldPoints, Known
<1> QED BY <1>1, <1>3, <1>4, <1>5, <1>6, ConstFacts

\* A step after which the task is back, with disk, verdict, provider and power
\* listener as they were.
LEMMA ReturnKept ==
  ASSUME IInv, NEW t \in Tasks, Return(t),
         mem' = mem \/ \E p \in Procs : AdoptDisk(p) \/ \E g \in Known : mem' = [mem EXCEPT ![p] = g],
         t \in Chains => \/ chain[t].pc \notin SlotPoints /\ UNCHANGED inflight
                         \/ chain[t].pc \in SlotPoints /\ EndInFlight(t),
         t \notin Chains => UNCHANGED inflight,
         t \in Chains => ~Carries(t),
         UNCHANGED <<disk, verdict, blips, issued, revoked, expired, broken, excused, gate, power>>
  PROVE  IInv'
<1>1. /\ LockMove(t) /\ TaskOK(t)'
      /\ chain' \in [Tasks -> ChainStates] /\ chain'[t] = Idle /\ chain'[t].pc = "idle"
      /\ \A u \in Tasks \ {t} : chain'[u] = chain[u]
      /\ mutex' \in [Procs -> Chains \cup {None}]
      /\ \A u \in Tasks \ {t} : mutex[Owner[u]] = u => mutex'[Owner[u]] = u
  BY ReturnFacts
<1>2. Others(t)
  BY <1>1 DEF Others
<1>3. Shape
  BY PartsOfType DEF IInv
<1>4. inflight' \in [Procs -> Int]
  BY <1>3 DEF Shape, EndInFlight
<1>5. blips' \in [Procs -> [key : Gens \cup {None}, count : 0..(MaxTransient - 1)]]
  BY <1>3 DEF Shape
<1>6. Shape' /\ Tokens'
  BY <1>1, <1>4, <1>5, PlainStep
<1>7. InFlight'
  <2>1. CASE UNCHANGED inflight /\ (t \in Chains => chain[t].pc \notin SlotPoints)
    BY <1>1, <1>2, <2>1, SlotSame DEF IInv, SlotPoints
  <2>2. CASE t \in Chains /\ chain[t].pc \in SlotPoints /\ EndInFlight(t)
    BY <1>1, <1>3, <2>2, SlotEnded DEF IInv, Shape, SlotPoints
  <2> QED BY <2>1, <2>2
<1>8. Honest(t)
  BY <1>1 DEF Honest
<1> QED BY <1>1, <1>2, <1>6, <1>7, <1>8, TaskStepKept DEF CriticalPoints

\* Which tasks can be where.
LEMMA KindAt ==
  ASSUME TasksOK, NEW t \in Tasks
  PROVE  /\ chain[t].pc \in {"mutex", "revalidate", "relocking", "claim", "gate", "idp", "answered", "apply"}
               => t \in Chains
         /\ chain[t].pc \in {"fetch", "stomp"} => t \in Enrichers
         /\ chain[t].pc = "nested" => t \in Flows
<1>1. TaskOK(t) /\ (t \in Chains \/ t \in Enrichers \/ t \in Flows)
  BY ConstFacts DEF TasksOK
<1> QED BY <1>1 DEF TaskOK, ChainPoints, EnricherPoints, FlowPoints

\* A task goes on to another point of its code.
LEMMA GotoFacts ==
  ASSUME IInv, NEW t \in Tasks, NEW pc \in Steps, Goto(t, pc)
  PROVE  /\ chain' \in [Tasks -> ChainStates]
         /\ chain'[t].pc = pc /\ chain'[t].cred = chain[t].cred /\ chain'[t].out = chain[t].out
         /\ \A u \in Tasks \ {t} : chain'[u] = chain[u]
         /\ Others(t)
<1>1. chain \in [Tasks -> ChainStates]
  BY PartsOfType DEF IInv, Shape
<1> DEFINE r == [chain[t] EXCEPT !.pc = pc]
<1>2. r \in ChainStates /\ r.pc = pc /\ r.cred = chain[t].cred /\ r.out = chain[t].out
  BY <1>1 DEF ChainStates
<1>3. chain' = [chain EXCEPT ![t] = r]
  BY <1>1 DEF Goto
<1> HIDE DEF r
<1>4. /\ chain' \in [Tasks -> ChainStates] /\ chain'[t] = r
      /\ \A u \in Tasks \ {t} : chain'[u] = chain[u]
  BY <1>1, <1>2, <1>3, ChainPut
<1> QED BY <1>2, <1>4 DEF Others

\* Nothing is carried before an answer has come.
LEMMA CarriesNothing ==
  ASSUME NEW t, chain[t].pc \notin {"answered", "apply"} \/ chain[t].out.kind # "success"
  PROVE  ~Carries(t)
BY DEF Carries

\* A step of t to another point, with no credential in hand and no slot taken.
LEMMA GotoKept ==
  ASSUME IInv, NEW t \in Tasks, NEW pc \in Steps \ {"gate", "idp", "answered", "apply"}, Goto(t, pc),
         chain[t].pc \notin {"gate", "idp", "answered", "apply"},
         LockMove(t), mutex' \in [Procs -> Chains \cup {None}],
         \A u \in Tasks \ {t} : mutex[Owner[u]] = u => mutex'[Owner[u]] = u,
         TaskOK(t)', pc = "stomp" => chain[t].cred = disk,
         pc \in CriticalPoints /\ lock'[t].at = "held" => chain[t].pc \in CriticalPoints \/ StillLive(t),
         UNCHANGED <<disk, mem, verdict, blips, powerVars, issued, revoked, expired, broken, excused>>
  PROVE  IInv'
<1>1. /\ chain' \in [Tasks -> ChainStates]
      /\ chain'[t].pc = pc /\ chain'[t].cred = chain[t].cred
      /\ \A u \in Tasks \ {t} : chain'[u] = chain[u]
      /\ Others(t)
  BY GotoFacts
<1>2. Shape /\ UNCHANGED <<inflight, gate, power>>
  BY PartsOfType DEF IInv, powerVars
<1>3. inflight' \in [Procs -> Int]
      /\ blips' \in [Procs -> [key : Gens \cup {None}, count : 0..(MaxTransient - 1)]]
  BY <1>2 DEF Shape
<1>4. Shape' /\ Tokens'
  BY <1>1, <1>2, <1>3, PlainStep
<1>5. InFlight'
  BY <1>1, <1>2, SlotSame DEF IInv, SlotPoints
<1>6. Honest(t)
  BY <1>1, CarriesNothing DEF Honest
<1> QED BY <1>1, <1>2, <1>4, <1>5, <1>6, TaskStepKept

-----------------------------------------------------------------------------
(* refresh_chain up to the claim of the in-flight slot.                    *)

\* Step 0: a refusal, or the chain queues for refresh_lock.
LEMMA StartStep ==
  ASSUME IInv, NEW t \in Tasks, NEW reason \in Reasons, Start(t, reason)
  PROVE  IInv'
<1>1. /\ UNCHANGED <<lockVars, disk, verdict, blips, mutex, powerVars, idpVars, broken, excused>>
      /\ t \in Chains /\ chain[t].pc = "idle" /\ Owner[t] \in Procs
  BY ConstFacts DEF Start, At
<1>2. Shape /\ issued \in Nat
  BY PartsOfType, ConstFacts DEF IInv, TypeOK
<1>3. mem' = mem \/ \E p \in Procs : AdoptDisk(p)
  BY <1>1 DEF Start, P
<1>4. UNCHANGED <<inflight, gate, power, issued, revoked, expired>>
  BY <1>1 DEF powerVars, idpVars
<1>5. LockMove(t)
  BY <1>1 DEF LockMove, lockVars
<1>6. chain' = chain \/ \E g \in Gens \cup {None} :
         chain' = [chain EXCEPT ![t] = [Idle EXCEPT !.pc = "mutex", !.reason = reason, !.pre = g]]
  BY <1>1, <1>2 DEF Start, P, Current, Shape
<1>7. /\ chain' \in [Tasks -> ChainStates] /\ chain'[t].pc \in {"idle", "mutex"}
      /\ chain'[t] = chain[t] \/ chain'[t].cred = None
      /\ \A u \in Tasks \ {t} : chain'[u] = chain[u]
  <2>1. CASE chain' = chain
    BY <1>1, <1>2, <2>1 DEF Shape
  <2>2. ASSUME NEW g \in Gens \cup {None},
               chain' = [chain EXCEPT ![t] = [Idle EXCEPT !.pc = "mutex", !.reason = reason, !.pre = g]]
        PROVE  /\ chain' \in [Tasks -> ChainStates] /\ chain'[t].pc \in {"idle", "mutex"}
               /\ chain'[t] = chain[t] \/ chain'[t].cred = None
               /\ \A u \in Tasks \ {t} : chain'[u] = chain[u]
    <3> DEFINE r == [Idle EXCEPT !.pc = "mutex", !.reason = reason, !.pre = g]
    <3>1. r \in ChainStates /\ r.pc = "mutex" /\ r.cred = None
      BY DEF Idle, ChainStates, Steps
    <3> HIDE DEF r
    <3>2. chain' = [chain EXCEPT ![t] = r]
      BY <2>2 DEF r
    <3> QED BY <1>2, <3>1, <3>2, ChainPut DEF Shape
  <2> QED BY <1>6, <2>1, <2>2
<1>8. TaskOK(t)'
  <2>1. TaskOK(t) /\ Known' = Known
    BY <1>4 DEF IInv, TasksOK, Known
  <2> QED BY <1>1, <1>7, <2>1, ConstFacts DEF TaskOK, ChainPoints, HoldPoints, Known
<1>9. Others(t) /\ InFlight'
  BY <1>1, <1>4, <1>7, SlotSame DEF Others, SlotPoints, IInv
<1>10. Shape' /\ Tokens'
  <2>1. /\ mutex' \in [Procs -> Chains \cup {None}] /\ inflight' \in [Procs -> Int]
        /\ blips' \in [Procs -> [key : Gens \cup {None}, count : 0..(MaxTransient - 1)]]
    BY <1>1, <1>2, <1>4 DEF Shape
  <2> QED BY <1>1, <1>3, <1>4, <1>7, <2>1, PlainStep
<1>11. Honest(t)
  BY <1>1, <1>7, CarriesNothing DEF Honest
<1> QED BY <1>1, <1>4, <1>5, <1>7, <1>8, <1>9, <1>10, <1>11, TaskStepKept DEF CriticalPoints

\* Steps 1 and 1b: somebody was faster, or the chain asks for the lock.
LEMMA TakeMutexStep ==
  ASSUME IInv, NEW t \in Tasks, TakeMutex(t)
  PROVE  IInv'
<1>1. /\ UNCHANGED <<tokenVars, powerVars, Other>> /\ chain[t].pc = "mutex" /\ mutex[Owner[t]] = None
  BY DEF TakeMutex, At, P
<1>2. t \in Chains /\ Owner[t] \in Procs
  BY <1>1, KindAt, ConstFacts DEF IInv
<1>3. /\ UNCHANGED <<disk, mem, verdict, blips, inflight, gate, power, issued, revoked, expired>>
      /\ UNCHANGED <<broken, excused>>
  BY <1>1 DEF tokenVars, powerVars, Other, idpVars
<1>4. CASE Return(t)
  BY <1>1, <1>2, <1>3, <1>4, ReturnKept, CarriesNothing DEF SlotPoints
<1>5. CASE /\ mutex' = [mutex EXCEPT ![Owner[t]] = t] /\ Goto(t, "locking") /\ lock' = Begun(t)
           /\ UNCHANGED <<path, info, flock, leaked>>
  <2>1. mutex \in [Procs -> Chains \cup {None}]
    BY PartsOfType DEF IInv, Shape
  <2>2. mutex' \in [Procs -> Chains \cup {None}] /\ mutex'[Owner[t]] = t
        /\ \A p \in Procs \ {Owner[t]} : mutex'[p] = mutex[p]
    BY <1>2, <1>5, <2>1
  <2>3. \A u \in Tasks \ {t} : mutex[Owner[u]] = u => mutex'[Owner[u]] = u
    BY <1>1, <2>2, ConstFacts
  <2>4. LockMove(t) /\ "locking" \in Steps
    BY <1>5 DEF LockMove, Steps
  <2>5. chain'[t].pc = "locking" /\ chain'[t].cred = chain[t].cred
    BY <1>5, <2>4, GotoFacts
  <2>6. TaskOK(t)'
    <3>1. TaskOK(t) /\ Known' = Known
      BY <1>3 DEF IInv, TasksOK, Known
    <3> QED BY <1>2, <2>2, <2>5, <3>1, ConstFacts DEF TaskOK, ChainPoints, HoldPoints
  <2>7. UNCHANGED powerVars
    BY <1>1
  <2> QED BY <1>1, <1>3, <1>5, <2>2, <2>3, <2>4, <2>6, <2>7, GotoKept DEF CriticalPoints
<1> QED BY <1>4, <1>5 DEF TakeMutex, P

\* Step 2: a valid credential on disk is adopted, without the lock the chain ends.
LEMMA LockedStep ==
  ASSUME IInv, NEW t \in Tasks, Locked(t)
  PROVE  IInv'
<1>1. /\ UNCHANGED <<disk, verdict, blips, powerVars, Other>> /\ chain[t].pc = "locking"
      /\ t \in Chains /\ Owner[t] \in Procs
  BY ConstFacts DEF Locked, At
<1>2. /\ UNCHANGED <<disk, verdict, blips, inflight, gate, power, issued, revoked, expired>>
      /\ UNCHANGED <<broken, excused>>
  BY <1>1 DEF powerVars, Other, idpVars
<1>3. CASE Return(t) /\ (AdoptDisk(Owner[t]) \/ UNCHANGED mem)
  BY <1>1, <1>2, <1>3, ReturnKept, CarriesNothing DEF SlotPoints
<1>4. CASE Holds(t) /\ Goto(t, "revalidate") /\ UNCHANGED <<lockVars, mutex, mem>>
  <2>1. LockMove(t) /\ "revalidate" \in Steps /\ lock' = lock
    BY <1>4 DEF LockMove, Steps, lockVars
  <2>2. chain'[t].pc = "revalidate" /\ chain'[t].cred = chain[t].cred
    BY <1>4, <2>1, GotoFacts
  <2>3. TaskOK(t)'
    <3>1. TaskOK(t) /\ Known' = Known
      BY <1>2 DEF IInv, TasksOK, Known
    <3> QED BY <1>1, <1>4, <2>1, <2>2, <3>1, ConstFacts DEF TaskOK, ChainPoints, HoldPoints, Holds
  <2>4. mutex' \in [Procs -> Chains \cup {None}]
    BY <1>4, PartsOfType DEF IInv, Shape
  <2> QED BY <1>1, <1>2, <1>4, <2>1, <2>3, <2>4, GotoKept DEF CriticalPoints
<1> QED BY <1>3, <1>4 DEF Locked, P

\* Steps 3a and 3b: the chain goes on only with the lock the path names, or asks for
\* it again.
LEMMA RevalidateStep ==
  ASSUME IInv, NEW t \in Tasks, Revalidate(t)
  PROVE  IInv'
<1>1. /\ UNCHANGED <<tokenVars, powerVars, Other>> /\ chain[t].pc = "revalidate"
      /\ t \in Chains /\ Owner[t] \in Procs
  BY KindAt, ConstFacts DEF Revalidate, At, IInv
<1>2. /\ UNCHANGED <<disk, mem, verdict, blips, inflight, gate, power, issued, revoked, expired>>
      /\ UNCHANGED <<broken, excused>>
  BY <1>1 DEF tokenVars, powerVars, Other, idpVars
<1>3. CASE Return(t)
  BY <1>1, <1>2, <1>3, ReturnKept, CarriesNothing DEF SlotPoints
<1>0. TaskOK(t) /\ Known' = Known
  BY <1>2 DEF IInv, TasksOK, Known
<1>4. CASE StillLive(t) /\ Goto(t, "claim") /\ UNCHANGED <<lockVars, mutex>>
  <2>1. LockMove(t) /\ "claim" \in Steps /\ lock' = lock
    BY <1>4 DEF LockMove, Steps, lockVars
  <2>2. chain'[t].pc = "claim" /\ chain'[t].cred = chain[t].cred
    BY <1>4, <2>1, GotoFacts
  <2>3. TaskOK(t)'
    BY <1>0, <1>1, <1>4, <2>1, <2>2, ConstFacts DEF TaskOK, ChainPoints, HoldPoints
  <2>4. mutex' \in [Procs -> Chains \cup {None}]
    BY <1>4, PartsOfType DEF IInv, Shape
  <2> QED BY <1>1, <1>2, <1>4, <2>1, <2>3, <2>4, GotoKept
<1>5. CASE /\ Goto(t, "relocking") /\ flock' = Dropped({t}) /\ lock' = Begun(t)
           /\ UNCHANGED <<path, info, leaked, mutex>>
  <2>1. LockMove(t) /\ "relocking" \in Steps
    BY <1>5 DEF LockMove, Steps
  <2>2. chain'[t].pc = "relocking" /\ chain'[t].cred = chain[t].cred
    BY <1>5, <2>1, GotoFacts
  <2>3. TaskOK(t)'
    BY <1>0, <1>1, <1>5, <2>2, ConstFacts DEF TaskOK, ChainPoints, HoldPoints
  <2>4. mutex' \in [Procs -> Chains \cup {None}]
    BY <1>5, PartsOfType DEF IInv, Shape
  <2>5. lock'[t].at # "held"
    <3>1. lock \in [Tasks -> LockStates]
      BY DEF IInv, LockInv, LockTypeOK, LockStates
    <3>2. AtPhase(1).at = "open"
      BY PhaseFacts
    <3> HIDE DEF AtPhase
    <3> QED BY <1>5, <3>1, <3>2 DEF Begun
  <2> QED BY <1>1, <1>2, <1>5, <2>1, <2>3, <2>4, <2>5, GotoKept
<1> QED BY <1>3, <1>4, <1>5 DEF Revalidate, P

\* The lock asked for again is live from the moment it was won.
LEMMA RelockedStep ==
  ASSUME IInv, NEW t \in Tasks, Relocked(t)
  PROVE  IInv'
<1>1. /\ UNCHANGED <<disk, verdict, blips, powerVars, Other>> /\ chain[t].pc = "relocking"
      /\ t \in Chains /\ Owner[t] \in Procs
  BY KindAt, ConstFacts DEF Relocked, At, IInv
<1>2. /\ UNCHANGED <<disk, verdict, blips, inflight, gate, power, issued, revoked, expired>>
      /\ UNCHANGED <<broken, excused>>
  BY <1>1 DEF powerVars, Other, idpVars
<1>3. CASE Return(t) /\ (AdoptDisk(Owner[t]) \/ UNCHANGED mem)
  BY <1>1, <1>2, <1>3, ReturnKept, CarriesNothing DEF SlotPoints
<1>4. CASE Holds(t) /\ Goto(t, "claim") /\ UNCHANGED <<lockVars, mutex, mem>>
  <2>1. LockMove(t) /\ "claim" \in Steps /\ lock' = lock
    BY <1>4 DEF LockMove, Steps, lockVars
  <2>2. chain'[t].pc = "claim" /\ chain'[t].cred = chain[t].cred
    BY <1>4, <2>1, GotoFacts
  <2>3. TaskOK(t)'
    <3>1. TaskOK(t) /\ Known' = Known
      BY <1>2 DEF IInv, TasksOK, Known
    <3> QED BY <1>1, <1>4, <2>1, <2>2, <3>1, ConstFacts DEF TaskOK, ChainPoints, HoldPoints, Holds
  <2>4. mutex' \in [Procs -> Chains \cup {None}]
    BY <1>4, PartsOfType DEF IInv, Shape
  <2>5. chain[t].pc \in CriticalPoints
    BY <1>1 DEF CriticalPoints
  <2> QED BY <1>1, <1>2, <1>4, <2>1, <2>3, <2>4, <2>5, GotoKept
<1> QED BY <1>3, <1>4 DEF Relocked, P

\* Step 3c: the slot is claimed.
LEMMA ClaimStep ==
  ASSUME IInv, NEW t \in Tasks, ClaimInFlight(t)
  PROVE  IInv'
<1>1. /\ UNCHANGED <<lockVars, tokenVars, mutex, gate, power, Other>> /\ chain[t].pc = "claim"
      /\ t \in Chains /\ Owner[t] \in Procs /\ Goto(t, "gate") /\ "gate" \in Steps
      /\ inflight' = [inflight EXCEPT ![Owner[t]] = @ + 1]
  BY KindAt, ConstFacts DEF ClaimInFlight, At, IInv, P, Steps
<1>2. /\ UNCHANGED <<disk, mem, verdict, blips, issued, revoked, expired, broken, excused>>
      /\ lock' = lock /\ LockMove(t)
  BY <1>1 DEF tokenVars, Other, idpVars, LockMove, lockVars
<1>3. /\ chain' \in [Tasks -> ChainStates] /\ Others(t)
      /\ chain'[t].pc = "gate" /\ chain'[t].cred = chain[t].cred
      /\ \A u \in Tasks \ {t} : chain'[u] = chain[u]
  BY <1>1, GotoFacts
<1>4. Shape
  BY PartsOfType DEF IInv
<1>5. TaskOK(t)'
  <2>1. TaskOK(t) /\ Known' = Known
    BY <1>2 DEF IInv, TasksOK, Known
  <2> QED BY <1>1, <1>2, <1>3, <2>1, ConstFacts DEF TaskOK, ChainPoints, HoldPoints
<1>6. InFlight' /\ inflight' \in [Procs -> Int]
  <2>1. inflight \in [Procs -> Int] /\ TasksOK /\ InFlight /\ chain'[t].pc \in SlotPoints
    BY <1>3, <1>4 DEF IInv, Shape, SlotPoints
  <2>2. inflight' \in [Procs -> Int]
    BY <1>1, <2>1
  <2>3. InFlight'
    BY <1>1, <1>3, <2>1, SlotTaken
  <2> QED BY <2>2, <2>3
<1>7. mutex' \in [Procs -> Chains \cup {None}]
      /\ blips' \in [Procs -> [key : Gens \cup {None}, count : 0..(MaxTransient - 1)]]
  BY <1>1, <1>2, <1>4 DEF Shape
<1>8. Shape' /\ Tokens'
  BY <1>1, <1>2, <1>3, <1>6, <1>7, PlainStep
<1>9. Honest(t)
  BY <1>1, <1>3, CarriesNothing DEF Honest
<1> QED BY <1>1, <1>2, <1>3, <1>5, <1>6, <1>8, <1>9, TaskStepKept DEF CriticalPoints

-----------------------------------------------------------------------------
(* OidcRefresher::refresh.                                                 *)

\* The refresher returns an outcome: it is about a credential there is, and a
\* success, if nothing went wrong, brings the newest one.
LEMMA OutcomeKept ==
  ASSUME IInv, NEW t \in Tasks, chain[t].pc \in SlotPoints, NEW out \in Outcomes, Outcome(t, out),
         OutOK(out), ~excused /\ out.kind = "success" => out.cred = issued,
         ~excused /\ Carries(t) => out = chain[t].out,
         blips' \in [Procs -> [key : Gens \cup {None}, count : 0..(MaxTransient - 1)]],
         UNCHANGED <<lockVars, mutex, disk, mem, verdict, gate, power, issued, revoked, expired,
                     broken, excused>>
  PROVE  IInv'
<1>1. t \in Chains /\ Owner[t] \in Procs
  BY KindAt, ConstFacts DEF IInv, SlotPoints
<1>2. Shape /\ TasksOK /\ InFlight /\ TaskOK(t)
  BY PartsOfType DEF IInv, TasksOK
<1> DEFINE r == [chain[t] EXCEPT !.pc = "apply", !.out = out]
<1>3. r \in ChainStates /\ r.pc = "apply" /\ r.out = out /\ r.cred = chain[t].cred
  <2>1. chain[t] \in ChainStates /\ "apply" \in Steps
    BY <1>2 DEF Shape, Steps
  <2> QED BY <2>1 DEF ChainStates
<1>4. chain' = [chain EXCEPT ![t] = r]
  BY <1>2 DEF Outcome, Shape
<1> HIDE DEF r
<1>5. /\ chain' \in [Tasks -> ChainStates] /\ chain'[t] = r
      /\ \A u \in Tasks \ {t} : chain'[u] = chain[u]
  BY <1>2, <1>3, <1>4, ChainPut DEF Shape
<1>6. Others(t)
  BY <1>5 DEF Others
<1>7. inflight' \in [Procs -> Int] /\ EndInFlight(t)
  <2>1. EndInFlight(t) /\ inflight \in [Procs -> Int]
    BY <1>2 DEF Outcome, Shape
  <2> QED BY <1>1, <2>1 DEF EndInFlight, P
<1>8. InFlight'
  <2>1. inflight \in [Procs -> Int] /\ chain'[t].pc \notin SlotPoints
    BY <1>2, <1>3, <1>5 DEF Shape, SlotPoints
  <2> QED BY <1>1, <1>2, <1>5, <1>7, <2>1, SlotEnded
<1>9. Shape' /\ Tokens'
  <2>1. mutex' \in [Procs -> Chains \cup {None}]
    BY <1>2 DEF Shape
  <2> QED BY <1>5, <1>7, <2>1, PlainStep
<1>10. TaskOK(t)'
  <2>1. Known' = Known /\ OutOK(out)' /\ lock' = lock
    BY DEF Known, OutOK, Dead, lockVars
  <2>2. mutex[Owner[t]] = t /\ lock[t].at = "held"
    BY <1>1, <1>2 DEF TaskOK, SlotPoints, HoldPoints
  <2> QED BY <1>1, <1>2, <1>3, <1>5, <2>1, <2>2, ConstFacts DEF TaskOK, ChainPoints, HoldPoints
<1>11. LockMove(t)
  BY DEF LockMove, lockVars
<1>12. ~excused => Honest(t)
  <2> SUFFICES ASSUME ~excused PROVE Honest(t)
    OBVIOUS
  <2>1. Carries(t) => Carries(t)'
    BY <1>3, <1>5 DEF Carries
  <2> QED BY <1>3, <1>5, <2>1 DEF Honest
<1>13. chain[t].pc \in CriticalPoints
  BY DEF SlotPoints, CriticalPoints
<1> QED BY <1>3, <1>5, <1>6, <1>8, <1>9, <1>10, <1>11, <1>12, <1>13, TaskStepKept

\* The refresher sends a credential: if nothing went wrong, the newest.
LEMMA SendKept ==
  ASSUME IInv, NEW t \in Tasks, chain[t].pc \in SlotPoints,
         NEW g \in Known \ {None}, NEW retry \in BOOLEAN, Send(t, g, retry),
         ~excused => g = issued, ~Carries(t),
         chain[t].pc = "answered" \/ gate[Owner[t]] # TRUE,
         UNCHANGED <<lockVars, mutex, disk, mem, verdict, blips, gate, power, issued, revoked, expired,
                     broken, excused>>
  PROVE  IInv'
<1>1. t \in Chains /\ Owner[t] \in Procs
  BY KindAt, ConstFacts DEF IInv, SlotPoints
<1>2. Shape /\ TasksOK /\ InFlight /\ TaskOK(t)
  BY PartsOfType DEF IInv, TasksOK
<1> DEFINE r == [chain[t] EXCEPT !.pc = "idp", !.cred = g, !.retry = retry, !.out = None]
<1>0. g \in Gens
  BY <1>2, ConstFacts DEF Known, Shape, Gens
<1>3. r \in ChainStates /\ r.pc = "idp" /\ r.cred = g
  BY ZenonT(60), <1>0, <1>2 DEF Shape, ChainStates, Steps
<1>4. chain' = [chain EXCEPT ![t] = r] /\ UNCHANGED inflight
  BY <1>2 DEF Send, Shape
<1> HIDE DEF r
<1>5. /\ chain' \in [Tasks -> ChainStates] /\ chain'[t] = r
      /\ \A u \in Tasks \ {t} : chain'[u] = chain[u]
  BY <1>2, <1>3, <1>4, ChainPut DEF Shape
<1>6. Others(t)
  BY <1>5 DEF Others
<1>8. InFlight'
  BY <1>2, <1>3, <1>4, <1>5, <1>6, SlotSame DEF SlotPoints
<1>9. Shape' /\ Tokens'
  <2>1. /\ mutex' \in [Procs -> Chains \cup {None}] /\ inflight' \in [Procs -> Int]
        /\ blips' \in [Procs -> [key : Gens \cup {None}, count : 0..(MaxTransient - 1)]]
    BY <1>2, <1>4 DEF Shape
  <2> QED BY <1>5, <2>1, PlainStep
<1>10. TaskOK(t)'
  <2>1. Known' = Known /\ lock' = lock
    BY DEF Known, lockVars
  <2>2. mutex[Owner[t]] = t /\ lock[t].at = "held"
    BY <1>1, <1>2 DEF TaskOK, SlotPoints, HoldPoints
  <2> QED BY <1>1, <1>3, <1>5, <2>1, <2>2, ConstFacts DEF TaskOK, ChainPoints, HoldPoints
<1>11. LockMove(t)
  BY DEF LockMove, lockVars
<1>12. ~excused => Honest(t)
  BY <1>3, <1>5 DEF Honest
<1>13. chain[t].pc \in CriticalPoints
  BY DEF SlotPoints, CriticalPoints
<1> QED BY <1>3, <1>5, <1>6, <1>8, <1>9, <1>10, <1>11, <1>12, <1>13, TaskStepKept

\* The outcomes there are.
LEMMA OutcomeTypes ==
  /\ \A g \in Gens \cup {None} : /\ Success(g) \in Outcomes /\ Success(g).kind = "success"
                                 /\ Success(g).cred = g /\ Success(g).sticky = FALSE
  /\ \A g \in Gens \cup {None}, s \in BOOLEAN :
        /\ Permanent(g, s) \in Outcomes /\ Permanent(g, s).kind = "permanent"
        /\ Permanent(g, s).cred = g /\ Permanent(g, s).sticky = s
  /\ Transient \in Outcomes /\ Transient.kind = "transient" /\ Transient.cred = None
  /\ Transient.sticky = FALSE
BY DEF Success, Permanent, Transient, Outcomes

\* What would be sent is a credential there is, and the disk's if the disk has one.
LEMMA CredentialFacts ==
  ASSUME IInv, NEW p \in Procs, NEW reason
  PROVE  Credential(p, reason) \in Known /\ (disk # None => Credential(p, reason) = disk)
BY DEF IInv, Tokens, Credential, ExpiredAuth, Current, Known

\* The counter of transient failures after a step of the refresher.
LEMMA BlipsFacts ==
  ASSUME IInv, NEW t \in Tasks
  PROVE  /\ UNCHANGED blips \/ Progress(t) =>
               blips' \in [Procs -> [key : Gens \cup {None}, count : 0..(MaxTransient - 1)]]
         /\ RecordTransient(t) =>
               blips' \in [Procs -> [key : Gens \cup {None}, count : 0..(MaxTransient - 1)]]
<1>1. /\ blips \in [Procs -> [key : Gens \cup {None}, count : 0..(MaxTransient - 1)]]
      /\ Owner[t] \in Procs /\ chain[t].cred \in Gens \cup {None} /\ MaxTransient \in Nat \ {0}
  BY PartsOfType, ConstFacts, RefreshAssumption DEF IInv, Shape, ChainStates
<1>2. NoBlips \in [key : Gens \cup {None}, count : 0..(MaxTransient - 1)]
  BY <1>1 DEF NoBlips
<1>3. UNCHANGED blips \/ Progress(t) =>
         blips' \in [Procs -> [key : Gens \cup {None}, count : 0..(MaxTransient - 1)]]
  BY <1>1, <1>2 DEF Progress
<1>4. ASSUME RecordTransient(t)
      PROVE  blips' \in [Procs -> [key : Gens \cup {None}, count : 0..(MaxTransient - 1)]]
  <2>1. blips[Owner[t]].count \in 0..(MaxTransient - 1)
    BY <1>1
  <2>2. Blips(t) \in 1..MaxTransient
    BY <1>1, <2>1 DEF Blips, P
  <2> DEFINE n == IF Blips(t) >= MaxTransient THEN 0 ELSE Blips(t)
  <2>3. n \in 0..(MaxTransient - 1)
    BY <1>1, <2>2
  <2>4. blips' = [blips EXCEPT ![Owner[t]] = [key |-> chain[t].cred, count |-> n]]
    BY <1>4 DEF RecordTransient, P
  <2> HIDE DEF n
  <2> QED BY <1>1, <2>3, <2>4
<1> QED BY <1>3, <1>4

\* The gate is looked at once more with the slot held; then the disk.
LEMMA RefreshStep ==
  ASSUME IInv, NEW t \in Tasks, Refresh(t)
  PROVE  IInv'
<1>1. /\ UNCHANGED <<disk, mem, verdict, gate, power, Other>> /\ chain[t].pc = "gate"
      /\ t \in Chains /\ Owner[t] \in Procs /\ chain[t].pc \in SlotPoints
  BY KindAt, ConstFacts DEF Refresh, At, IInv, SlotPoints
<1>2. UNCHANGED <<issued, revoked, expired, broken, excused>>
  BY <1>1 DEF Other, idpVars
<1>3. ~Carries(t) /\ (~excused => disk = issued)
  <2>1. ~Carries(t)
    BY <1>1, CarriesNothing
  <2> QED BY <1>1, <2>1, DiskIsNewest DEF IInv
<1>4. disk \in Known /\ disk \in Gens \cup {None} /\ issued # None
  BY ZenonT(60), PartsOfType, ConstFacts DEF IInv, Tokens, Shape
<1>5. CASE Return(t) /\ EndInFlight(t) /\ UNCHANGED blips
  BY <1>1, <1>2, <1>3, <1>5, ReturnKept
<1>6. CASE ~gate[Owner[t]] /\ RefreshNow(t) /\ UNCHANGED <<lockVars, mutex>>
  <2>1. CASE Valid(disk) /\ Outcome(t, Success(disk)) /\ Progress(t)
    <3>1. Success(disk) \in Outcomes /\ OutOK(Success(disk)) /\ Success(disk).cred = disk
      BY <1>4, OutcomeTypes DEF OutOK
    <3>2. blips' \in [Procs -> [key : Gens \cup {None}, count : 0..(MaxTransient - 1)]]
      BY <2>1, BlipsFacts
    <3> QED BY <1>1, <1>2, <1>3, <1>6, <2>1, <3>1, <3>2, OutcomeKept
  <2>2. CASE Outcome(t, Transient) /\ UNCHANGED blips
    <3>1. Transient \in Outcomes /\ OutOK(Transient) /\ Transient.kind # "success"
      BY OutcomeTypes DEF OutOK, Known
    <3>2. blips' \in [Procs -> [key : Gens \cup {None}, count : 0..(MaxTransient - 1)]]
      BY <2>2, BlipsFacts
    <3> QED BY <1>1, <1>2, <1>3, <1>6, <2>2, <3>1, <3>2, OutcomeKept
  <2>3. CASE /\ Credential(Owner[t], Reason(t)) # None /\ UNCHANGED blips
             /\ Send(t, Credential(Owner[t], Reason(t)), FALSE)
    <3> DEFINE g == Credential(Owner[t], Reason(t))
    <3>1. g \in Known \ {None} /\ (~excused => g = issued)
      BY <1>1, <1>3, <1>4, <2>3, CredentialFacts
    <3>2. Send(t, g, FALSE) /\ FALSE \in BOOLEAN
      BY <2>3
    <3>3. gate[Owner[t]] # TRUE
      BY <1>6
    <3> HIDE DEF g
    <3> QED BY <1>1, <1>2, <1>3, <1>6, <2>3, <3>1, <3>2, <3>3, SendKept
  <2> QED BY <1>6, <2>1, <2>2, <2>3 DEF RefreshNow, P
<1> QED BY <1>5, <1>6 DEF Refresh, P

\* What the refresher makes of an answer.
LEMMA ReceiveStep ==
  ASSUME IInv, NEW t \in Tasks, Receive(t)
  PROVE  IInv'
<1>1. /\ UNCHANGED <<lockVars, disk, mem, verdict, mutex, gate, power, idpVars, broken, excused>>
      /\ chain[t].pc = "answered" /\ chain[t].pc \in SlotPoints
      /\ t \in Chains /\ Owner[t] \in Procs
  BY KindAt, ConstFacts DEF Receive, At, IInv, SlotPoints
<1>2. UNCHANGED <<issued, revoked, expired>>
  BY <1>1 DEF idpVars
<1>3. /\ TaskOK(t) /\ OutOK(chain[t].out) /\ chain[t].out \in Outcomes
      /\ chain[t].cred \in Known /\ chain[t].cred # None
      /\ chain[t].cred \in Gens \cup {None}
  BY <1>1, PartsOfType DEF IInv, TasksOK, TaskOK, OutOK, Shape, ChainStates
<1>4. disk \in Known /\ disk \in Gens \cup {None} /\ issued # None
  BY PartsOfType, ConstFacts DEF IInv, Tokens, Shape
<1>5. ~Carries(t) => (~excused => disk = issued)
  BY <1>1, DiskIsNewest DEF IInv
<1>6. ASSUME NEW out \in Outcomes, OutOK(out), Outcome(t, out),
             out.kind = "success" => out = chain[t].out \/ (out.cred = disk /\ ~Carries(t)),
             Carries(t) => out = chain[t].out,
             blips' \in [Procs -> [key : Gens \cup {None}, count : 0..(MaxTransient - 1)]]
      PROVE  IInv'
  <2>1. ~excused /\ out.kind = "success" => out.cred = issued
    BY <1>1, <1>5, <1>6 DEF IInv, Newest
  <2> QED BY <1>1, <1>2, <1>6, <2>1, OutcomeKept
<1>7. CASE chain[t].out.kind = "success" /\ Outcome(t, chain[t].out) /\ Progress(t)
  BY <1>3, <1>6, <1>7, BlipsFacts
<1>8. CASE chain[t].out.kind = "transient" /\ RecordTransient(t)
  <2>1. Permanent(chain[t].cred, FALSE) \in Outcomes /\ OutOK(Permanent(chain[t].cred, FALSE))
        /\ Permanent(chain[t].cred, FALSE).kind = "permanent"
    BY <1>3, OutcomeTypes DEF OutOK
  <2>2. Transient \in Outcomes /\ OutOK(Transient) /\ Transient.kind = "transient"
    BY OutcomeTypes DEF OutOK, Known
  <2>3. blips' \in [Procs -> [key : Gens \cup {None}, count : 0..(MaxTransient - 1)]]
    BY <1>8, BlipsFacts
  <2>4. Outcome(t, Permanent(chain[t].cred, FALSE)) \/ Outcome(t, Transient)
    BY <1>8 DEF RecordTransient
  <2>5. ~Carries(t)
    BY <1>8, CarriesNothing
  <2> QED BY <1>6, <2>1, <2>2, <2>3, <2>4, <2>5
<1>9. CASE chain[t].out.kind = "transient" /\ Outcome(t, Transient) /\ UNCHANGED blips
  <2>1. Transient \in Outcomes /\ OutOK(Transient) /\ Transient.kind = "transient"
    BY OutcomeTypes DEF OutOK, Known
  <2>2. ~Carries(t)
    BY <1>9, CarriesNothing
  <2> QED BY <1>6, <1>9, <2>1, <2>2, BlipsFacts
<1>10. CASE chain[t].out.kind = "permanent" /\ Valid(disk) /\ Outcome(t, Success(disk)) /\ Progress(t)
  <2>1. Success(disk) \in Outcomes /\ OutOK(Success(disk)) /\ Success(disk).cred = disk
    BY <1>4, OutcomeTypes DEF OutOK
  <2>2. ~Carries(t)
    BY <1>10, CarriesNothing
  <2> QED BY <1>6, <1>10, <2>1, <2>2, BlipsFacts
<1>11. CASE /\ chain[t].out.kind = "permanent" /\ disk \notin {None, chain[t].cred}
            /\ Send(t, disk, TRUE) /\ UNCHANGED blips
  <2>1. ~Carries(t)
    BY <1>11, CarriesNothing
  <2>2. disk \in Known \ {None} /\ TRUE \in BOOLEAN
    BY <1>4, <1>11
  <2> QED BY <1>1, <1>2, <1>5, <1>11, <2>1, <2>2, SendKept
<1>12. CASE chain[t].out.kind = "permanent" /\ Outcome(t, chain[t].out) /\ UNCHANGED blips
  BY <1>3, <1>6, <1>12, BlipsFacts
<1> QED BY <1>7, <1>8, <1>9, <1>10, <1>11, <1>12 DEF Receive

\* A chain's answer comes, or is lost.
LEMMA AnswerKept ==
  ASSUME IInv, NEW t \in Tasks, chain[t].pc \in {"idp", "answered"}, NEW r \in ChainStates,
         chain' = [chain EXCEPT ![t] = r], r.pc = "answered", r.cred = chain[t].cred, OutOK(r.out)',
         UNCHANGED <<lockVars, tokenVars, mutex, powerVars, expired, broken>>,
         issued' \in {issued, issued + 1} \cap Gens, revoked' \in BOOLEAN, revoked => revoked',
         excused' \in BOOLEAN, excused => excused', Newest'
  PROVE  IInv'
<1>1. t \in Chains /\ Owner[t] \in Procs
  BY KindAt, ConstFacts DEF IInv
<1>2. Shape /\ TasksOK /\ InFlight /\ TaskOK(t) /\ issued \in Nat
  BY PartsOfType, ConstFacts DEF IInv, TasksOK, TypeOK
<1>3. /\ chain' \in [Tasks -> ChainStates] /\ chain'[t] = r
      /\ \A u \in Tasks \ {t} : chain'[u] = chain[u]
  BY <1>2, ChainPut DEF Shape
<1>4. Others(t)
  BY <1>3 DEF Others
<1>5. /\ UNCHANGED <<path, info, flock, lock, leaked, disk, mem, verdict, blips>>
      /\ UNCHANGED <<inflight, gate, power>>
  BY DEF lockVars, tokenVars, powerVars
<1>6. LockInv'
  <2>1. LockMove(t)
    BY <1>5 DEF LockMove
  <2> QED BY <2>1, LockMoveFacts DEF IInv
<1>7. Shape'
  BY <1>2, <1>3, <1>5 DEF Shape
<1>8. Known \subseteq Known'
  BY <1>2 DEF Known
<1>9. TasksOK'
  <2> SUFFICES ASSUME NEW u \in Tasks PROVE TaskOK(u)'
    BY DEF TasksOK
  <2>1. CASE u = t
    BY <1>1, <1>2, <1>3, <1>5, <1>8, <2>1, ConstFacts DEF TaskOK, ChainPoints, HoldPoints
  <2>2. CASE u # t
    <3>1. TaskOK(u)
      BY <1>2 DEF TasksOK
    <3> QED BY <1>2, <1>3, <1>5, <2>2, <3>1, TaskKept
  <2> QED BY <2>1, <2>2
<1>10. Tokens'
  <2>1. Tokens /\ disk' \in Known'
    BY <1>5, <1>8 DEF IInv, Tokens
  <2> QED BY <1>2, <1>5, <2>1, TokensKept
<1>11. InFlight'
  BY <1>2, <1>3, <1>4, <1>5, SlotSame DEF SlotPoints
<1>12. Gated'
  BY <1>3, <1>5, ConstFacts DEF IInv, Gated
<1>13. Live'
  <2>1. \A u \in Tasks : Critical(u)' => Critical(u)
    BY <1>2, <1>3, <1>5 DEF Critical, Holds, TaskOK, HoldPoints
  <2> QED BY <1>5, <2>1 DEF IInv, Live, StillLive
<1>14. (LockInv /\ Shape /\ TasksOK /\ Tokens /\ InFlight /\ Gated /\ Live /\ Newest)' => IInv'
  BY Assemble, PTL
<1> QED BY <1>6, <1>7, <1>9, <1>10, <1>11, <1>12, <1>13, <1>14

\* The provider's answer: it sees the newest credential unless something went wrong.
LEMMA IdpAnswersStep ==
  ASSUME IInv, NEW t \in Tasks, IdpAnswers(t)
  PROVE  IInv'
<1>1. /\ UNCHANGED <<lockVars, tokenVars, mutex, powerVars, expired, broken, excused>>
      /\ chain[t].pc = "idp" /\ t \in Chains
  BY KindAt DEF IdpAnswers, At, IInv
<1>2. /\ Shape /\ TaskOK(t) /\ issued \in Gens /\ issued \in Nat /\ chain[t] \in ChainStates
      /\ revoked \in BOOLEAN /\ excused \in BOOLEAN /\ MaxGen \in Nat
  BY PartsOfType, ConstFacts DEF IInv, TasksOK, Shape
<1>3. chain[t].cred \in 0..issued /\ chain[t].cred \in Gens
  BY <1>1, <1>2 DEF TaskOK, Known, Gens
<1>4. /\ disk' = disk /\ lock' = lock /\ path' = path
      /\ ~broken \/ excused
  BY <1>1 DEF tokenVars, lockVars, IInv, Live
\* If nothing went wrong no other chain has, gets or sends anything.
<1>5. ~excused => /\ chain[t].cred = issued /\ ~revoked
                  /\ \A u \in Chains \ {t} : chain[u].pc \notin {"idp", "answered", "apply"}
                  /\ disk = issued
  <2> SUFFICES ASSUME ~excused
               PROVE  /\ chain[t].cred = issued /\ ~revoked
                      /\ \A u \in Chains \ {t} : chain[u].pc \notin {"idp", "answered", "apply"}
                      /\ disk = issued
    OBVIOUS
  <2>1. chain[t].cred = issued /\ ~revoked
    BY <1>1 DEF IInv, Newest
  <2>2. ASSUME NEW u \in Chains \ {t}, chain[u].pc \in {"idp", "answered", "apply"} PROVE FALSE
    <3>1. Critical(t) /\ Critical(u) /\ u \in Tasks
      BY <1>1, <2>2, HoldersCritical, ConstFacts DEF IInv
    <3> QED BY <1>4, <3>1, CriticalIsAlone DEF IInv
  <2>3. ~Carries(t)
    BY <1>1, CarriesNothing
  <2> QED BY <1>1, <2>1, <2>2, <2>3, DiskIsNewest DEF IInv
<1>6. ASSUME NEW out \in Outcomes, chain' = [chain EXCEPT ![t].pc = "answered", ![t].out = out],
             issued' \in {issued, issued + 1} \cap Gens, revoked' \in BOOLEAN, revoked => revoked',
             OutOK(out)', ~excused => ~revoked',
             ~excused /\ out.kind = "success" => out.cred = issued',
             ~excused /\ out.kind # "success" => issued' = issued
      PROVE  IInv'
  <2> DEFINE r == [chain[t] EXCEPT !.pc = "answered", !.out = out]
  <2>1. r \in ChainStates /\ r.pc = "answered" /\ r.cred = chain[t].cred /\ r.out = out
    <3>1. "answered" \in Steps
      BY DEF Steps
    <3> QED BY <1>2, <3>1 DEF ChainStates
  <2>2. chain' = [chain EXCEPT ![t] = r]
    BY <1>2, <1>6 DEF Shape
  <2> HIDE DEF r
  <2>3. chain'[t] = r /\ \A u \in Tasks \ {t} : chain'[u] = chain[u]
    BY <1>2, <2>1, <2>2, ChainPut DEF Shape
  <2>4. Newest'
    <3> SUFFICES ASSUME ~excused PROVE Newest'
      BY <1>1 DEF Newest
    <3>1. disk' = issued' \/ Carries(t)'
      BY <1>4, <1>5, <1>6, <2>1, <2>3 DEF Carries
    <3>2. ASSUME NEW u \in Chains PROVE
            /\ (chain'[u].pc \in {"answered", "apply"} /\ chain'[u].out.kind = "success")
                  => chain'[u].out.cred = issued'
            /\ chain'[u].pc = "idp" => chain'[u].cred = issued'
      BY <1>5, <1>6, <2>1, <2>3, ConstFacts
    <3>3. ASSUME NEW e \in Enrichers, chain'[e].pc = "stomp", Holds(e)', StillLive(e)'
          PROVE  chain'[e].cred = disk'
      <4>1. chain'[e] = chain[e]
        BY <1>1, <2>3, ConstFacts
      <4> QED BY <1>4, <3>3, <4>1 DEF IInv, Newest, Holds, StillLive
    <3>4. ~revoked'
      BY <1>6
    <3> QED BY <1>1, <3>1, <3>2, <3>3, <3>4 DEF Newest
  <2> QED BY <1>1, <1>2, <1>6, <2>1, <2>2, <2>4, AnswerKept
<1>7. CASE /\ chain[t].cred = issued /\ ~revoked /\ issued < MaxGen /\ issued' = issued + 1
           /\ chain' = [chain EXCEPT ![t].pc = "answered", ![t].out = Success(issued + 1)]
           /\ UNCHANGED revoked
  <2>1. issued + 1 \in Gens
    BY <1>2, <1>7 DEF Gens
  <2>2. PICK x \in Outcomes : x = Success(issued + 1)
    BY <2>1, OutcomeTypes
  <2>3. x.kind = "success" /\ x.cred = issued + 1 /\ x.sticky = FALSE
    BY <2>1, <2>2, OutcomeTypes
  <2>4. OutOK(x)'
    BY <1>2, <1>7, <2>3 DEF OutOK, Known
  <2>5. chain' = [chain EXCEPT ![t].pc = "answered", ![t].out = x]
    BY <1>7, <2>2
  <2> QED BY <1>2, <1>6, <1>7, <2>1, <2>3, <2>4, <2>5
<1>8. CASE /\ ~(chain[t].cred = issued /\ ~revoked) /\ revoked' \in {revoked, TRUE}
           /\ chain' = [chain EXCEPT ![t].pc = "answered", ![t].out = Permanent(chain[t].cred, TRUE)]
           /\ UNCHANGED issued
  <2> DEFINE out == Permanent(chain[t].cred, TRUE)
  <2>1. out \in Outcomes /\ out.kind = "permanent" /\ out.cred = chain[t].cred /\ out.sticky = TRUE
    BY <1>3, OutcomeTypes
  <2>2. chain' = [chain EXCEPT ![t].pc = "answered", ![t].out = out]
    BY <1>8
  <2>3. PICK x \in Outcomes : x = out
    BY <2>1
  <2> HIDE DEF out
  <2>4. OutOK(x)'
    <3>1. x.cred \in Known' /\ x.cred # None /\ (revoked' \/ x.cred # issued')
      BY <1>2, <1>3, <1>8, <2>1, <2>3, ConstFacts DEF Known
    <3> QED BY <2>1, <2>3, <3>1 DEF OutOK, Dead
  <2>5. excused
    BY <1>5, <1>8
  <2>6. chain' = [chain EXCEPT ![t].pc = "answered", ![t].out = x]
    BY <2>2, <2>3
  <2> QED BY <1>2, <1>6, <1>8, <2>4, <2>5, <2>6
<1>9. CASE /\ chain' = [chain EXCEPT ![t].pc = "answered", ![t].out = Transient]
           /\ UNCHANGED <<issued, revoked>>
  <2>1. Transient \in Outcomes /\ Transient.kind = "transient" /\ OutOK(Transient)
    BY OutcomeTypes DEF OutOK, Known
  <2>2. OutOK(Transient)'
    BY <1>9, <2>1 DEF OutOK, Known, Dead
  <2> QED BY <1>2, <1>5, <1>6, <1>9, <2>1, <2>2
<1> QED BY <1>7, <1>8, <1>9 DEF IdpAnswers

\* A lost answer is one of the excuses.
LEMMA LoseAnswerStep ==
  ASSUME IInv, NEW t \in Tasks, LoseAnswer(t)
  PROVE  IInv'
<1>1. /\ UNCHANGED <<lockVars, tokenVars, mutex, powerVars, idpVars, broken>> /\ excused' = TRUE
      /\ chain[t].pc = "answered" /\ chain' = [chain EXCEPT ![t].out = Transient]
  BY DEF LoseAnswer, At
<1>2. Shape /\ issued \in Gens /\ chain[t] \in ChainStates /\ revoked \in BOOLEAN
  BY PartsOfType DEF IInv, Shape
<1>3. UNCHANGED <<issued, revoked, expired>>
  BY <1>1 DEF idpVars
<1>4. Transient \in Outcomes /\ OutOK(Transient)
  BY OutcomeTypes DEF OutOK, Known
<1>5. PICK r \in ChainStates : /\ r = [chain[t] EXCEPT !.out = Transient]
                               /\ r.pc = "answered" /\ r.cred = chain[t].cred /\ r.out = Transient
  <2> DEFINE q == [chain[t] EXCEPT !.out = Transient]
  <2>1. q \in ChainStates /\ q.pc = "answered" /\ q.cred = chain[t].cred /\ q.out = Transient
    <3> HIDE DEF Transient
    <3> QED BY <1>1, <1>2, <1>4 DEF ChainStates
  <2> QED BY <2>1
<1>6. chain' = [chain EXCEPT ![t] = r]
  BY <1>1, <1>2, <1>5 DEF Shape
<1>7. OutOK(Transient)'
  BY <1>3, <1>4 DEF OutOK, Known, Dead
<1>8. Newest'
  BY <1>1 DEF Newest
<1>9. OutOK(r.out)'
  BY <1>5, <1>7
<1> QED BY <1>1, <1>2, <1>3, <1>5, <1>6, <1>8, <1>9, AnswerKept

-----------------------------------------------------------------------------
(* apply_refresh_outcome.                                                  *)

\* The chain writes what it has got, which is the newest credential if nothing went
\* wrong, and nobody else holds the lock to write another.
LEMMA ApplySuccessStep ==
  ASSUME IInv, NEW t \in Tasks, ApplySuccess(t)
  PROVE  IInv'
<1>1. /\ UNCHANGED <<verdict, blips, powerVars, idpVars, broken>> /\ chain[t].pc = "apply"
      /\ chain[t].out.kind = "success" /\ t \in Chains /\ Owner[t] \in Procs
  BY KindAt, ConstFacts DEF ApplySuccess, At, IInv
<1>2. UNCHANGED <<inflight, gate, power, issued, revoked, expired>>
  BY <1>1 DEF powerVars, idpVars
<1>3. Shape /\ TasksOK /\ TaskOK(t) /\ Tokens /\ InFlight /\ issued \in Nat
  BY PartsOfType, ConstFacts DEF IInv, TasksOK, TypeOK
<1> DEFINE g == chain[t].out.cred
<1>4. g \in Known /\ g \in Gens \cup {None} /\ mutex[Owner[t]] = t
  BY <1>1, <1>3 DEF TaskOK, OutOK, Outcomes
<1>5. ~excused => g = issued
  BY <1>1 DEF IInv, Newest
<1> HIDE DEF g
<1>6. Update(t, g) /\ DropGuards(t)
  BY DEF ApplySuccess, g
<1>7. mem' = [mem EXCEPT ![Owner[t]] = g]
  BY <1>6 DEF Update, P
<1>8. /\ disk' = g \/ (disk' = disk /\ excused' = TRUE)
      /\ excused' = excused \/ excused' = TRUE
  BY <1>6 DEF Update, Persist
<1>9. Idle \in ChainStates /\ Idle.pc = "idle" /\ Idle.cred = None
  BY DEF Idle, ChainStates, Steps
<1>10. /\ chain' \in [Tasks -> ChainStates] /\ chain'[t] = Idle
       /\ \A u \in Tasks \ {t} : chain'[u] = chain[u]
             \/ (/\ chain[u].pc = "idle" /\ u \in Enrichers
                 /\ chain'[u].pc = "fetch" /\ chain'[u].cred = g)
  <2>1. CASE chain' = [chain EXCEPT ![t] = Idle]
    BY <1>3, <1>9, <2>1 DEF Shape
  <2>2. ASSUME NEW e \in IdleEnrichers(Owner[t]),
               chain' = [chain EXCEPT ![t] = Idle, ![e] = [Idle EXCEPT !.pc = "fetch", !.cred = g]]
        PROVE  /\ chain' \in [Tasks -> ChainStates] /\ chain'[t] = Idle
               /\ \A u \in Tasks \ {t} : chain'[u] = chain[u]
                     \/ (/\ chain[u].pc = "idle" /\ u \in Enrichers
                         /\ chain'[u].pc = "fetch" /\ chain'[u].cred = g)
    <3>1. e \in Enrichers /\ chain[e].pc = "idle" /\ e # t /\ e \in Tasks
      BY <1>1, ConstFacts DEF IdleEnrichers, At
    <3> DEFINE r == [Idle EXCEPT !.pc = "fetch", !.cred = g]
    <3>2. r \in ChainStates /\ r.pc = "fetch" /\ r.cred = g
      BY <1>4 DEF Idle, ChainStates, Steps
    <3>3. chain' = [chain EXCEPT ![t] = Idle, ![e] = r]
      BY <2>2
    <3> HIDE DEF r
    <3> QED BY <1>3, <1>9, <3>1, <3>2, <3>3 DEF Shape
  <2> QED BY <1>6, <2>1, <2>2 DEF Update, P
<1>11. Others(t)
  BY <1>10 DEF Others
<1>12. LockMove(t)
  BY <1>6 DEF DropGuards, LockMove
<1>13. /\ mutex' \in [Procs -> Chains \cup {None}]
       /\ \A u \in Tasks \ {t} : mutex[Owner[u]] = u => mutex'[Owner[u]] = u
  <2>1. mutex' = [mutex EXCEPT ![Owner[t]] = None]
    BY <1>6 DEF DropGuards, P
  <2> QED BY <1>1, <1>3, <1>4, <2>1, ConstFacts DEF Shape
<1>14. Shape'
  BY <1>1, <1>2, <1>3, <1>4, <1>7, <1>8, <1>10, <1>13 DEF Shape
<1>15. Known' = Known
  BY <1>2 DEF Known
<1>16. Tokens'
  <2>1. disk' \in Known' /\ \A p \in Procs : mem'[p] = mem[p] \/ mem'[p] \in Known'
    BY <1>3, <1>4, <1>7, <1>8, <1>15 DEF Tokens, Shape
  <2> QED BY <1>1, <1>2, <1>3, <2>1, TokensKept
<1>17. InFlight'
  BY <1>1, <1>2, <1>3, <1>9, <1>10, <1>11, SlotSame DEF SlotPoints
<1>18. TaskOK(t)'
  BY <1>1, <1>9, <1>10, ConstFacts DEF TaskOK, ChainPoints, HoldPoints, Known
<1>19. \A u \in Tasks \ {t} : chain'[u] = chain[u] \/ TaskOK(u)'
  BY <1>4, <1>10, <1>15, ConstFacts DEF TaskOK, EnricherPoints, HoldPoints
<1>20. Newest'
  <2> SUFFICES ASSUME ~excused' PROVE Newest'
    BY DEF Newest
  <2>1. ~excused /\ disk' = issued' /\ ~broken
    BY <1>2, <1>5, <1>8 DEF IInv, Live
  <2>2. ~revoked'
    BY <1>2, <2>1 DEF IInv, Newest
  <2>3. ASSUME NEW u \in Chains PROVE
          /\ (chain'[u].pc \in {"answered", "apply"} /\ chain'[u].out.kind = "success")
                => chain'[u].out.cred = issued'
          /\ chain'[u].pc = "idp" => chain'[u].cred = issued'
    <3>1. chain'[u] = chain[u] \/ chain'[u].pc = "idle"
      BY <1>9, <1>10, ConstFacts
    <3> QED BY <1>2, <2>1, <3>1 DEF IInv, Newest
  <2>4. ASSUME NEW e \in Enrichers, chain'[e].pc = "stomp", Holds(e)', StillLive(e)' PROVE FALSE
    <3>1. e \in Tasks \ {t} /\ chain'[e] = chain[e]
      BY <1>1, <1>9, <1>10, <2>4, ConstFacts
    <3>2. lock'[e] = lock[e] /\ path' = path
      BY <1>12, <3>1, LockMoveFacts DEF IInv, LockMove
    <3>3. Holds(e) /\ StillLive(e)
      BY <2>4, <3>2 DEF Holds, StillLive
    <3>4. Critical(t)
      BY <1>1, HoldersCritical DEF IInv
    <3> QED BY <2>1, <3>1, <3>3, <3>4, CriticalIsAlone DEF IInv
  <2> QED BY <2>1, <2>2, <2>3, <2>4 DEF Newest
<1>21. excused => excused'
  BY <1>8
<1> QED BY <1>1, <1>2, <1>9, <1>10, <1>11, <1>12, <1>13, <1>14, <1>16, <1>17, <1>18, <1>19, <1>20,
           <1>21, TaskStepCore DEF CriticalPoints

\* A rejection: the verdict is on the credential that was sent.
LEMMA ApplyPermanentStep ==
  ASSUME IInv, NEW t \in Tasks, ApplyPermanent(t)
  PROVE  IInv'
<1>1. /\ UNCHANGED <<disk, blips, powerVars, Other>> /\ chain[t].pc = "apply"
      /\ chain[t].out.kind = "permanent" /\ t \in Chains /\ Owner[t] \in Procs /\ Return(t)
  BY KindAt, ConstFacts DEF ApplyPermanent, At, IInv
<1>2. UNCHANGED <<inflight, gate, power, issued, revoked, expired, broken, excused>>
  BY <1>1 DEF powerVars, Other, idpVars
<1>3. ~Carries(t) /\ chain[t].pc \notin SlotPoints
  BY <1>1, CarriesNothing DEF SlotPoints
<1>4. CASE UNCHANGED verdict /\ (AdoptDisk(Owner[t]) \/ UNCHANGED mem)
  BY <1>1, <1>2, <1>3, <1>4, ReturnKept
<1>5. CASE /\ verdict' = [verdict EXCEPT ![Owner[t]] = [key |-> chain[t].out.cred,
                                                         sticky |-> chain[t].out.sticky]]
           /\ UNCHANGED mem
  <2>1. Shape /\ Tokens /\ InFlight /\ TaskOK(t) /\ OutOK(chain[t].out) /\ issued \in Nat
    BY <1>1, PartsOfType, ConstFacts DEF IInv, TasksOK, TaskOK, TypeOK
  <2>2. /\ LockMove(t) /\ TaskOK(t)'
        /\ chain' \in [Tasks -> ChainStates] /\ chain'[t].pc = "idle"
        /\ \A u \in Tasks \ {t} : chain'[u] = chain[u]
        /\ mutex' \in [Procs -> Chains \cup {None}]
        /\ \A u \in Tasks \ {t} : mutex[Owner[u]] = u => mutex'[Owner[u]] = u
    BY <1>1, ReturnFacts
  <2>3. /\ chain[t].out.cred \in 0..issued /\ chain[t].out.cred \in Gens
        /\ chain[t].out.sticky \in BOOLEAN
        /\ chain[t].out.sticky => Dead(chain[t].out.cred)
    <3>1. chain[t].out \in Outcomes
      BY <2>1 DEF OutOK
    <3>2. chain[t].out.sticky \in BOOLEAN /\ chain[t].out.cred \in Gens \cup {None}
      BY <3>1 DEF Outcomes
    <3> QED BY <1>1, <2>1, <3>2 DEF OutOK, Known
  <2>4. PICK v \in [key : Gens, sticky : BOOLEAN] :
           /\ verdict' = [verdict EXCEPT ![Owner[t]] = v]
           /\ v.key \in 0..issued /\ (v.sticky => Dead(v.key))
    <3> DEFINE v == [key |-> chain[t].out.cred, sticky |-> chain[t].out.sticky]
    <3>1. v \in [key : Gens, sticky : BOOLEAN] /\ v.key = chain[t].out.cred
          /\ v.sticky = chain[t].out.sticky
      BY <2>3
    <3> QED BY <1>5, <2>3, <3>1
  <2>5. /\ verdict' \in [Procs -> [key : Gens, sticky : BOOLEAN] \cup {None}]
        /\ verdict'[Owner[t]] = v /\ \A p \in Procs \ {Owner[t]} : verdict'[p] = verdict[p]
    BY <1>1, <2>1, <2>4 DEF Shape
  <2>6. Shape'
    BY <1>1, <1>2, <1>5, <2>1, <2>2, <2>5 DEF Shape
  <2>7. Tokens'
    <3>1. Known' = Known /\ \A x : Dead(x)' <=> revoked \/ x # issued
      BY <1>2 DEF Known, Dead
    <3> QED BY <1>1, <1>2, <1>5, <2>1, <2>4, <2>5, <3>1 DEF Tokens, Dead
  <2>8. Others(t) /\ InFlight'
    BY <1>2, <1>3, <2>1, <2>2, SlotSame DEF Others, SlotPoints
  <2>9. Honest(t)
    BY <1>3, <2>2 DEF Honest
  <2> QED BY <1>1, <1>2, <2>2, <2>6, <2>7, <2>8, <2>9, TaskStepKept DEF CriticalPoints
<1> QED BY <1>4, <1>5 DEF ApplyPermanent, P

\* A transient failure changes nothing but that the chain is over.
LEMMA ApplyTransientStep ==
  ASSUME IInv, NEW t \in Tasks, ApplyTransient(t)
  PROVE  IInv'
<1>1. /\ UNCHANGED <<tokenVars, powerVars, Other>> /\ chain[t].pc = "apply"
      /\ chain[t].out.kind = "transient" /\ t \in Chains /\ Return(t)
  BY KindAt DEF ApplyTransient, At, IInv
<1>2. /\ UNCHANGED <<disk, mem, verdict, blips, inflight, gate, power, issued, revoked, expired>>
      /\ UNCHANGED <<broken, excused>>
  BY <1>1 DEF tokenVars, powerVars, Other, idpVars
<1>3. ~Carries(t) /\ chain[t].pc \notin SlotPoints
  BY <1>1, CarriesNothing DEF SlotPoints
<1> QED BY <1>1, <1>2, <1>3, ReturnKept

-----------------------------------------------------------------------------
(* run_user_info_enrichment and the startup flow.                          *)

\* The profile has come: the enrichment asks for the lock.
LEMMA FetchedStep ==
  ASSUME IInv, NEW t \in Tasks, Fetched(t)
  PROVE  IInv'
<1>1. /\ UNCHANGED <<path, info, flock, leaked, mutex, tokenVars, powerVars, Other>>
      /\ chain[t].pc = "fetch" /\ t \in Enrichers /\ Goto(t, "locking") /\ lock' = Begun(t)
  BY KindAt DEF Fetched, At, IInv
<1>2. UNCHANGED <<disk, mem, verdict, blips, issued, revoked, expired, broken, excused>>
  BY <1>1 DEF tokenVars, Other, idpVars
<1>3. LockMove(t) /\ "locking" \in Steps
  BY <1>1 DEF LockMove, Steps
<1>4. chain'[t].pc = "locking" /\ chain'[t].cred = chain[t].cred
  BY <1>1, <1>3, GotoFacts
<1>5. TaskOK(t)'
  <2>1. TaskOK(t) /\ Known' = Known
    BY <1>2 DEF IInv, TasksOK, Known
  <2> QED BY <1>1, <1>4, <2>1, ConstFacts DEF TaskOK, EnricherPoints, HoldPoints
<1>6. mutex' \in [Procs -> Chains \cup {None}]
  BY <1>1, PartsOfType DEF IInv, Shape
<1> QED BY <1>1, <1>2, <1>3, <1>5, <1>6, GotoKept DEF CriticalPoints

\* With the lock or without it, what is on the disk decides whether to write.
LEMMA EnrichReadStep ==
  ASSUME IInv, NEW t \in Tasks, EnrichRead(t)
  PROVE  IInv'
<1>1. /\ UNCHANGED <<tokenVars, powerVars, Other>> /\ chain[t].pc = "locking"
      /\ t \in Enrichers /\ t \notin Chains /\ t \notin Flows /\ lock[t].at \in {"held", "failed"}
  BY ConstFacts DEF EnrichRead, At
<1>2. /\ UNCHANGED <<disk, mem, verdict, blips, inflight, gate, power, issued, revoked, expired>>
      /\ UNCHANGED <<broken, excused>>
  BY <1>1 DEF tokenVars, powerVars, Other, idpVars
<1>3. CASE Return(t)
  BY <1>1, <1>2, <1>3, ReturnKept
<1>4. CASE disk = chain[t].cred /\ Goto(t, "stomp") /\ UNCHANGED <<lockVars, mutex>>
  <2>1. LockMove(t) /\ "stomp" \in Steps /\ lock' = lock
    BY <1>4 DEF LockMove, Steps, lockVars
  <2>2. chain'[t].pc = "stomp" /\ chain'[t].cred = chain[t].cred
    BY <1>4, <2>1, GotoFacts
  <2>3. TaskOK(t)'
    <3>1. TaskOK(t) /\ Known' = Known
      BY <1>2 DEF IInv, TasksOK, Known
    <3> QED BY <1>1, <2>1, <2>2, <3>1 DEF TaskOK, EnricherPoints, HoldPoints
  <2>4. mutex' \in [Procs -> Chains \cup {None}]
    BY <1>4, PartsOfType DEF IInv, Shape
  <2> QED BY <1>1, <1>2, <1>4, <2>1, <2>3, <2>4, GotoKept DEF CriticalPoints
<1> QED BY <1>3, <1>4 DEF EnrichRead

\* What is written back is what is there, or it was written without a live lock.
LEMMA EnrichWriteStep ==
  ASSUME IInv, NEW t \in Tasks, EnrichWrite(t)
  PROVE  IInv'
<1>1. /\ UNCHANGED <<verdict, blips, powerVars, idpVars, broken>> /\ chain[t].pc = "stomp"
      /\ t \in Enrichers /\ t \notin Chains /\ Owner[t] \in Procs /\ Return(t)
  BY KindAt, ConstFacts DEF EnrichWrite, At, IInv
<1>2. UNCHANGED <<inflight, gate, power, issued, revoked, expired>>
  BY <1>1 DEF powerVars, idpVars
<1>3. PICK g \in Known : g = chain[t].cred
  BY DEF IInv, TasksOK, TaskOK
<1>4. /\ disk' = g /\ mem' = [mem EXCEPT ![Owner[t]] = g]
      /\ excused' = (excused \/ (disk # g /\ ~(Holds(t) /\ StillLive(t))))
  BY <1>3 DEF EnrichWrite, P
<1>5. CASE disk = g
  <2>1. disk' = disk /\ excused' = excused
    BY <1>4, <1>5, PartsOfType DEF IInv, Shape
  <2> QED BY <1>1, <1>2, <1>4, <2>1, ReturnKept
<1>6. CASE disk # g
  <2>1. excused' = TRUE
    BY <1>1, <1>3, <1>4, <1>6, PartsOfType DEF IInv, Shape, Newest
  <2>2. /\ LockMove(t) /\ TaskOK(t)'
        /\ chain' \in [Tasks -> ChainStates] /\ chain'[t].pc = "idle"
        /\ \A u \in Tasks \ {t} : chain'[u] = chain[u]
        /\ mutex' \in [Procs -> Chains \cup {None}]
        /\ \A u \in Tasks \ {t} : mutex[Owner[u]] = u => mutex'[Owner[u]] = u
    BY <1>1, ReturnFacts
  <2>3. Shape /\ Tokens /\ InFlight /\ issued \in Nat
    BY PartsOfType, ConstFacts DEF IInv, TypeOK
  <2>4. g \in Gens \cup {None}
    BY <2>3, ConstFacts DEF Known, Gens, Shape
  <2>5. Shape'
    BY <1>1, <1>2, <1>4, <2>1, <2>2, <2>3, <2>4 DEF Shape
  <2>6. Tokens'
    <3>1. Known' = Known
      BY <1>2 DEF Known
    <3>2. \A p \in Procs : mem'[p] = mem[p] \/ mem'[p] \in Known'
      BY <1>4, <2>3, <3>1 DEF Shape
    <3> QED BY <1>1, <1>2, <1>4, <2>3, <3>1, <3>2, TokensKept
  <2>7. Others(t) /\ InFlight'
    BY <1>1, <1>2, <2>2, <2>3, SlotSame DEF Others
  <2>8. Newest'
    BY <2>1 DEF Newest
  <2> QED BY <1>1, <1>2, <2>1, <2>2, <2>5, <2>6, <2>7, <2>8, TaskStepCore DEF CriticalPoints
<1> QED BY <1>5, <1>6

\* A startup flow asks for the lock.
LEMMA StartFlowStep ==
  ASSUME IInv, NEW t \in Tasks, StartFlow(t)
  PROVE  IInv'
<1>1. /\ UNCHANGED <<path, info, flock, leaked, tokenVars, mutex, powerVars, idpVars, broken, excused>>
      /\ chain[t].pc = "idle" /\ t \in Flows /\ Goto(t, "locking") /\ lock' = Begun(t)
  BY DEF StartFlow, At
<1>2. UNCHANGED <<disk, mem, verdict, blips, issued, revoked, expired>>
  BY <1>1 DEF tokenVars, idpVars
<1>3. LockMove(t) /\ "locking" \in Steps
  BY <1>1 DEF LockMove, Steps
<1>4. chain'[t].pc = "locking" /\ chain'[t].cred = chain[t].cred
  BY <1>1, <1>3, GotoFacts
<1>5. TaskOK(t)'
  <2>1. TaskOK(t) /\ Known' = Known
    BY <1>2 DEF IInv, TasksOK, Known
  <2> QED BY <1>1, <1>4, <2>1, ConstFacts DEF TaskOK, FlowPoints, HoldPoints
<1>6. mutex' \in [Procs -> Chains \cup {None}]
  BY <1>1, PartsOfType DEF IInv, Shape
<1> QED BY <1>1, <1>2, <1>3, <1>5, <1>6, GotoKept DEF CriticalPoints

\* With the lock or without it, the flow adopts what is there, gives up, or calls
\* the refresh chain of its process.
LEMMA FlowReadStep ==
  ASSUME IInv, NEW t \in Tasks, FlowRead(t)
  PROVE  IInv'
<1>1. /\ UNCHANGED <<disk, verdict, blips, powerVars, Other>> /\ chain[t].pc = "locking"
      /\ t \in Flows /\ t \notin Chains /\ t \notin Enrichers /\ Owner[t] \in Procs
  BY ConstFacts DEF FlowRead, At
<1>2. /\ UNCHANGED <<inflight, gate, power, issued, revoked, expired>>
      /\ UNCHANGED <<broken, excused>>
  BY <1>1 DEF powerVars, Other, idpVars
<1>3. CASE Return(t) /\ (AdoptDisk(Owner[t]) \/ UNCHANGED mem)
  BY <1>1, <1>2, <1>3, ReturnKept
<1>4. CASE /\ chain[Callee(t)].pc = "idle"
           /\ chain' = [chain EXCEPT ![t].pc = "nested", ![t].cred = disk,
                           ![Callee(t)] = [Idle EXCEPT !.pc = "mutex", !.reason = "PreRequest",
                                                       !.pre = Current(Owner[t])]]
           /\ UNCHANGED <<lockVars, mutex, mem>>
  <2>1. PICK c \in Chains : c = Callee(t)
    BY <1>1, CalleeFacts
  <2>2. c \in Tasks /\ c # t /\ chain[c].pc = "idle"
    BY <1>1, <1>4, <2>1, ConstFacts
  <2>3. Shape /\ Tokens /\ InFlight /\ issued \in Nat
    BY PartsOfType, ConstFacts DEF IInv, TypeOK
  <2>4. disk \in Known /\ disk \in Gens \cup {None} /\ Known' = Known
    BY <1>2, <2>3 DEF Tokens, Shape, Known
  <2>5. PICK q \in ChainStates : /\ q = [chain[t] EXCEPT !.pc = "nested", !.cred = disk]
                                 /\ q.pc = "nested" /\ q.cred = disk
    <3> DEFINE q == [chain[t] EXCEPT !.pc = "nested", !.cred = disk]
    <3>1. chain[t] \in ChainStates
      BY <2>3 DEF Shape
    <3>2. q \in ChainStates /\ q.pc = "nested" /\ q.cred = disk
      BY <2>4, <3>1 DEF ChainStates, Steps
    <3> QED BY <3>2
  <2>6. PICK r \in ChainStates : /\ r = [Idle EXCEPT !.pc = "mutex", !.reason = "PreRequest",
                                                     !.pre = Current(Owner[t])]
                                 /\ r.pc = "mutex" /\ r.cred = None
    <3>1. PICK g \in Gens \cup {None} : g = Current(Owner[t])
      BY <1>1, <2>3 DEF Current, Shape
    <3> DEFINE r == [Idle EXCEPT !.pc = "mutex", !.reason = "PreRequest", !.pre = g]
    <3>2. r \in ChainStates /\ r.pc = "mutex" /\ r.cred = None
      BY DEF Idle, ChainStates, Steps, Reasons
    <3> QED BY <3>1, <3>2
  <2>7. chain' = [chain EXCEPT ![t] = q, ![c] = r]
    <3> HIDE DEF Idle
    <3> QED BY <1>4, <2>1, <2>2, <2>3, <2>5, <2>6 DEF Shape
  <2>8. /\ chain' \in [Tasks -> ChainStates] /\ chain'[t] = q /\ chain'[c] = r
        /\ \A u \in Tasks \ {t, c} : chain'[u] = chain[u]
    BY <2>2, <2>3, <2>5, <2>6, <2>7 DEF Shape
  <2>9. LockMove(t) /\ lock' = lock /\ UNCHANGED <<mutex, mem>>
    BY <1>4 DEF LockMove, lockVars
  <2>10. Others(t)
    BY <2>2, <2>6, <2>8 DEF Others
  <2>11. TaskOK(t)'
    BY <1>1, <2>4, <2>5, <2>8 DEF TaskOK, FlowPoints, HoldPoints
  <2>12. TaskOK(c)'
    BY <2>2, <2>6, <2>8, ConstFacts DEF TaskOK, ChainPoints, HoldPoints, Known
  <2>13. \A u \in Tasks \ {t} : chain'[u] = chain[u] \/ TaskOK(u)'
    BY <2>8, <2>12
  <2>14. Shape' /\ Tokens'
    <3>1. /\ mutex' \in [Procs -> Chains \cup {None}] /\ inflight' \in [Procs -> Int]
          /\ blips' \in [Procs -> [key : Gens \cup {None}, count : 0..(MaxTransient - 1)]]
      BY <1>1, <1>2, <2>3, <2>9 DEF Shape
    <3> QED BY <1>1, <1>2, <2>8, <2>9, <3>1, PlainStep
  <2>15. InFlight'
    BY <1>1, <1>2, <2>3, <2>10, SlotSame
  <2>16. Honest(t)
    BY <1>1, <2>5, <2>8 DEF Honest
  <2> QED BY <1>1, <1>2, <2>5, <2>8, <2>9, <2>10, <2>11, <2>13, <2>14, <2>15, <2>16, TaskStepKept
          DEF CriticalPoints
<1> QED BY <1>3, <1>4 DEF FlowRead, P, At

\* auth() is back; what the flow then puts in memory was read from the disk.
LEMMA FlowReturnsStep ==
  ASSUME IInv, NEW t \in Tasks, FlowReturns(t)
  PROVE  IInv'
<1>1. /\ UNCHANGED <<disk, verdict, blips, powerVars, Other>>
      /\ t \in Flows /\ t \notin Chains /\ Owner[t] \in Procs /\ Return(t)
  BY KindAt, ConstFacts DEF FlowReturns, At, IInv
<1>2. /\ UNCHANGED <<inflight, gate, power, issued, revoked, expired>>
      /\ UNCHANGED <<broken, excused>>
  BY <1>1 DEF powerVars, Other, idpVars
<1>3. mem' = mem \/ \E p \in Procs : AdoptDisk(p) \/ \E g \in Known : mem' = [mem EXCEPT ![p] = g]
  <2>1. chain[t].cred \in Known
    BY DEF IInv, TasksOK, TaskOK
  <2> QED BY <1>1, <2>1 DEF FlowReturns, P
<1> QED BY <1>1, <1>2, <1>3, ReturnKept

-----------------------------------------------------------------------------
(* The steps of no task.                                                   *)

\* A step that leaves the tasks alone.  It may make the lock file, which nobody past
\* the last check can be waiting for, and take the credential from the disk, which
\* excuses.
LEMMA QuietStep ==
  ASSUME IInv, UNCHANGED <<flock, lock, leaked, chain, mutex, inflight, issued, revoked, broken, blips>>,
         info' \in [Inodes -> Procs \cup {"new", "stale"}], path' \in Inodes \cup {None},
         path' = path \/ path = None,
         disk' \in Known, \A p \in Procs : mem'[p] = mem[p] \/ mem'[p] \in Known,
         mem' \in [Procs -> Gens \cup {None}],
         verdict' \in [Procs -> [key : Gens, sticky : BOOLEAN] \cup {None}],
         \A p \in Procs : verdict'[p] = verdict[p] \/ verdict'[p] = None,
         expired' \subseteq Gens, gate' \in [Procs -> BOOLEAN],
         power' \in [Procs -> {"awake", "raised", "acked", "timedOut", "slept"}], Gated',
         excused' = TRUE \/ (excused' = excused /\ disk' = disk /\ path' = path)
  PROVE  IInv'
<1>1. Shape /\ issued \in Nat /\ Known' = Known /\ LockInv /\ Tokens /\ InFlight
  BY PartsOfType, ConstFacts DEF IInv, TypeOK, Known
<1>2. LockInv'
  BY <1>1, InfoMoves
<1>3. Shape'
  <2>1. Known \subseteq Gens \cup {None}
    BY <1>1, ConstFacts DEF Known, Gens, Shape
  <2> QED BY <1>1, <2>1 DEF Shape
<1>4. TasksOK'
  <2> SUFFICES ASSUME NEW u \in Tasks PROVE TaskOK(u)'
    BY DEF TasksOK
  <2>1. TaskOK(u)
    BY DEF IInv, TasksOK
  <2> QED BY <1>1, <2>1, TaskKept
<1>5. Tokens'
  BY <1>1, TokensKept
<1>6. InFlight'
  BY <1>1 DEF InFlight, Slotted
<1>7. Live'
  <2>1. broken' => excused'
    BY DEF IInv, Live
  <2>2. ASSUME ~broken', NEW u \in Tasks, Critical(u)' PROVE StillLive(u)'
    <3>1. Critical(u)
      BY <2>2 DEF Critical, Holds
    <3>2. StillLive(u)
      BY <2>2, <3>1 DEF IInv, Live
    <3> QED BY <3>2 DEF StillLive
  <2> QED BY <2>1, <2>2 DEF Live
<1>8. Newest'
  BY DEF IInv, Newest, Carries, Holds, StillLive
<1>9. (LockInv /\ Shape /\ TasksOK /\ Tokens /\ InFlight /\ Gated /\ Live /\ Newest)' => IInv'
  BY Assemble, PTL
<1> QED BY <1>2, <1>3, <1>4, <1>5, <1>6, <1>7, <1>8, <1>9

\* What such a step starts from.
LEMMA QuietFacts ==
  ASSUME IInv
  PROVE  /\ Shape /\ disk \in Known /\ Gated
         /\ path \in Inodes \cup {None} /\ info \in [Inodes -> Procs \cup {"new", "stale"}]
BY PartsOfType DEF IInv, Tokens, LockInv, LockTypeOK

\* A verdict's time is up.
LEMMA VerdictExpiresStep ==
  ASSUME IInv, NEW p \in Procs, VerdictExpires(p)
  PROVE  IInv'
<1>1. UNCHANGED <<path, info, flock, lock, leaked, disk, mem, blips, mutex, chain, inflight, gate, power,
                  issued, revoked, expired, broken, excused>>
  BY DEF VerdictExpires, lockVars, powerVars, Other, idpVars
<1>2. Gated'
  BY <1>1, QuietFacts DEF Gated
<1>3. /\ verdict' \in [Procs -> [key : Gens, sticky : BOOLEAN] \cup {None}]
      /\ \A q \in Procs : verdict'[q] = verdict[q] \/ verdict'[q] = None
  BY QuietFacts DEF VerdictExpires, Shape
<1>4. /\ mem' \in [Procs -> Gens \cup {None}] /\ expired' \subseteq Gens /\ gate' \in [Procs -> BOOLEAN]
      /\ power' \in [Procs -> {"awake", "raised", "acked", "timedOut", "slept"}]
      /\ \A q \in Procs : mem'[q] = mem[q]
  BY <1>1, QuietFacts DEF Shape
<1> QED BY <1>1, <1>2, <1>3, <1>4, QuietFacts, QuietStep

\* A logout takes the credential from the disk only with the lock free, and then the
\* newest one may be gone.
LEMMA LogoutStep ==
  ASSUME IInv, NEW p \in Procs, Logout(p)
  PROVE  IInv'
<1>1. UNCHANGED <<flock, lock, leaked, verdict, blips, mutex, chain, inflight, gate, power, issued, revoked,
                  expired, broken>>
  BY DEF Logout, powerVars, idpVars
<1>2. Gated'
  BY <1>1, QuietFacts DEF Gated
<1>3. Shape /\ None \in Known
  BY QuietFacts DEF Known
<1>4. mem' \in [Procs -> Gens \cup {None}] /\ \A q \in Procs : mem'[q] = mem[q] \/ mem'[q] = None
  BY <1>3 DEF Logout, Shape
<1>5. /\ path' \in Inodes \cup {None} /\ (path' = path \/ path = None)
      /\ info' \in [Inodes -> Procs \cup {"new", "stale"}]
      /\ disk' = None \/ (disk' = disk /\ path' = path)
  <2>1. CASE path # None
    BY <2>1, QuietFacts DEF Logout
  <2>2. CASE path = None
    <3>1. path' \in Inodes
      BY <2>2, FreeInode DEF IInv, Logout, FreeInodes
    <3> QED BY <2>2, <3>1, QuietFacts DEF Logout
  <2> QED BY <2>1, <2>2
<1>6. excused' = TRUE \/ (excused' = excused /\ disk' = disk /\ path' = path)
  <2>1. excused' = (excused \/ disk' = None) /\ excused \in BOOLEAN
    BY <1>3 DEF Logout, Shape
  <2> QED BY <1>5, <2>1
<1>7. /\ verdict' \in [Procs -> [key : Gens, sticky : BOOLEAN] \cup {None}]
      /\ expired' \subseteq Gens /\ gate' \in [Procs -> BOOLEAN]
      /\ power' \in [Procs -> {"awake", "raised", "acked", "timedOut", "slept"}]
      /\ \A q \in Procs : verdict'[q] = verdict[q]
  BY <1>1, <1>3 DEF Shape
<1>8. disk' \in Known /\ \A q \in Procs : mem'[q] = mem[q] \/ mem'[q] \in Known
  BY <1>3, <1>4, <1>5, QuietFacts
<1> QED BY <1>1, <1>2, <1>4, <1>5, <1>6, <1>7, <1>8, QuietStep

\* A reload puts what is on the disk in memory.
LEMMA ReloadStep ==
  ASSUME IInv, NEW p \in Procs, Reload(p)
  PROVE  IInv'
<1>1. UNCHANGED <<path, info, flock, lock, leaked, disk, verdict, blips, mutex, chain, inflight, gate, power,
                  issued, revoked, expired, broken, excused>>
  BY DEF Reload, lockVars, powerVars, Other, idpVars
<1>2. Gated'
  BY <1>1, QuietFacts DEF Gated
<1>3. mem' \in [Procs -> Gens \cup {None}] /\ \A q \in Procs : mem'[q] = mem[q] \/ mem'[q] \in Known
  BY QuietFacts DEF Reload, AdoptDisk, Shape
<1>4. /\ verdict' \in [Procs -> [key : Gens, sticky : BOOLEAN] \cup {None}]
      /\ expired' \subseteq Gens /\ gate' \in [Procs -> BOOLEAN]
      /\ power' \in [Procs -> {"awake", "raised", "acked", "timedOut", "slept"}]
      /\ \A q \in Procs : verdict'[q] = verdict[q]
  BY <1>1, QuietFacts DEF Shape
<1> QED BY <1>1, <1>2, <1>3, <1>4, QuietFacts, QuietStep

\* A credential expires.
LEMMA ExpireStep ==
  ASSUME IInv, Expire
  PROVE  IInv'
<1>1. UNCHANGED <<path, info, flock, lock, leaked, disk, mem, verdict, blips, mutex, chain, inflight, gate,
                  power, issued, revoked, broken, excused>>
  BY DEF Expire, lockVars, tokenVars, powerVars
<1>2. Gated'
  BY <1>1, QuietFacts DEF Gated
<1>3. expired' \subseteq Gens
  <2>1. issued \in Gens /\ expired \subseteq Gens
    BY QuietFacts DEF Shape
  <2>2. 0..issued \subseteq Gens
    BY <2>1, ConstFacts DEF Gens
  <2> QED BY <2>1, <2>2 DEF Expire
<1>4. /\ verdict' \in [Procs -> [key : Gens, sticky : BOOLEAN] \cup {None}]
      /\ mem' \in [Procs -> Gens \cup {None}] /\ gate' \in [Procs -> BOOLEAN]
      /\ power' \in [Procs -> {"awake", "raised", "acked", "timedOut", "slept"}]
      /\ \A q \in Procs : verdict'[q] = verdict[q] /\ mem'[q] = mem[q]
  BY <1>1, QuietFacts DEF Shape
<1> QED BY <1>1, <1>2, <1>3, <1>4, QuietFacts, QuietStep

\* The steps of a power listener: those that change the gate, the listener and the
\* text of the lock files alone.
LEMMA PowerStep ==
  ASSUME IInv, UNCHANGED <<path, flock, lock, leaked, tokenVars, mutex, chain, inflight, idpVars, broken, excused>>,
         info' \in [Inodes -> Procs \cup {"new", "stale"}], gate' \in [Procs -> BOOLEAN],
         power' \in [Procs -> {"awake", "raised", "acked", "timedOut", "slept"}], Gated'
  PROVE  IInv'
<1>1. UNCHANGED <<path, flock, lock, leaked, disk, mem, verdict, blips, mutex, chain, inflight,
                  issued, revoked, expired, broken, excused>>
  BY DEF tokenVars, idpVars
<1>2. /\ verdict' \in [Procs -> [key : Gens, sticky : BOOLEAN] \cup {None}]
      /\ mem' \in [Procs -> Gens \cup {None}] /\ expired' \subseteq Gens
      /\ \A q \in Procs : verdict'[q] = verdict[q] /\ mem'[q] = mem[q]
  BY <1>1, QuietFacts DEF Shape
<1> QED BY <1>1, <1>2, QuietFacts, QuietStep

\* The gate goes up before the listener waits.
LEMMA WillSleepStep ==
  ASSUME IInv, NEW p \in Procs, WillSleep(p)
  PROVE  IInv'
<1>1. UNCHANGED <<path, info, flock, lock, leaked, tokenVars, mutex, chain, inflight, idpVars, broken, excused>>
  BY DEF WillSleep, lockVars, Other
<1>2. /\ gate' = [gate EXCEPT ![p] = TRUE] /\ power' = [power EXCEPT ![p] = "raised"]
      /\ gate \in [Procs -> BOOLEAN]
      /\ power \in [Procs -> {"awake", "raised", "acked", "timedOut", "slept"}]
  BY QuietFacts DEF WillSleep, Shape
<1>3. /\ gate' \in [Procs -> BOOLEAN] /\ gate'[p] = TRUE /\ power'[p] = "raised"
      /\ power' \in [Procs -> {"awake", "raised", "acked", "timedOut", "slept"}]
      /\ \A q \in Procs \ {p} : gate'[q] = gate[q] /\ power'[q] = power[q]
  BY <1>2
<1>4. Gated'
  BY ZenonT(60), <1>1, <1>3, QuietFacts DEF Gated
<1> QED BY <1>1, <1>3, <1>4, QuietFacts, PowerStep

\* The suspend is acknowledged in time only with no slot taken, and so with no
\* request on the wire.
LEMMA SleepAckStep ==
  ASSUME IInv, NEW p \in Procs, SleepAck(p)
  PROVE  IInv'
<1>1. UNCHANGED <<path, info, flock, lock, leaked, tokenVars, mutex, chain, inflight, gate, idpVars, broken, excused>>
  BY DEF SleepAck, lockVars, Other
<1>2. /\ power' \in [Procs -> {"awake", "raised", "acked", "timedOut", "slept"}]
      /\ power'[p] = "acked" => inflight[p] = 0
      /\ power[p] = "raised" /\ \A q \in Procs \ {p} : power'[q] = power[q]
  BY QuietFacts DEF SleepAck, Shape
<1>3. inflight[p] = 0 => \A t \in Chains : Owner[t] = p => chain[t].pc \notin {"idp", "answered"}
  BY DEF IInv, InFlight, Slotted, SlotPoints
<1>4. Gated'
  BY ZenonT(60), <1>1, <1>2, <1>3, QuietFacts DEF Gated
<1>5. gate' \in [Procs -> BOOLEAN]
  BY <1>1, QuietFacts DEF Shape
<1> QED BY <1>1, <1>2, <1>4, <1>5, QuietFacts, PowerStep

\* The machine sleeps; every lock file looks old.
LEMMA SleepStep ==
  ASSUME IInv, Sleep
  PROVE  IInv'
<1>1. UNCHANGED <<path, flock, lock, leaked, tokenVars, mutex, chain, inflight, gate, idpVars, broken, excused>>
  BY DEF Sleep
<1>2. /\ power' \in [Procs -> {"awake", "raised", "acked", "timedOut", "slept"}]
      /\ \A q \in Procs : power'[q] = power[q] \/ (power'[q] = "slept" /\ power[q] # "awake")
  BY QuietFacts, RefreshAssumption DEF Sleep, Shape
<1>3. Gated'
  BY <1>1, <1>2, QuietFacts DEF Gated
<1>4. gate' \in [Procs -> BOOLEAN] /\ info' \in [Inodes -> Procs \cup {"new", "stale"}]
  BY <1>1, QuietFacts DEF Shape, Sleep, AgeAll
<1> QED BY <1>1, <1>2, <1>3, <1>4, PowerStep

\* The wake-up takes the gate down.
LEMMA DidWakeStep ==
  ASSUME IInv, NEW p \in Procs, DidWake(p)
  PROVE  IInv'
<1>1. UNCHANGED <<path, info, flock, lock, leaked, tokenVars, mutex, chain, inflight, idpVars, broken, excused>>
  BY DEF DidWake, lockVars, Other
<1>2. /\ gate' = [gate EXCEPT ![p] = FALSE] /\ power' = [power EXCEPT ![p] = "awake"]
      /\ gate \in [Procs -> BOOLEAN]
      /\ power \in [Procs -> {"awake", "raised", "acked", "timedOut", "slept"}]
  BY QuietFacts DEF DidWake, Shape
<1>3. /\ gate' \in [Procs -> BOOLEAN] /\ power'[p] = "awake"
      /\ power' \in [Procs -> {"awake", "raised", "acked", "timedOut", "slept"}]
      /\ \A q \in Procs \ {p} : gate'[q] = gate[q] /\ power'[q] = power[q]
  BY <1>2
<1>4. Gated'
  BY <1>1, <1>3, QuietFacts DEF Gated
<1> QED BY <1>1, <1>3, <1>4, QuietFacts, PowerStep

\* A process dies and starts again: its tasks are gone, with what they carried.
LEMMA RestartStep ==
  ASSUME IInv, NEW p \in Procs, Restart(p)
  PROVE  IInv'
<1>1. /\ UNCHANGED <<disk, issued, revoked, expired, broken>> /\ KillLocks(p)
      /\ excused' = (excused \/ \E t \in TasksOf(p) : Carries(t))
      /\ chain' = [t \in Tasks |-> IF t \in TasksOf(p) THEN Idle ELSE chain[t]]
  BY DEF Restart, idpVars
<1>2. /\ Shape /\ disk \in Known /\ Gated /\ issued \in Nat /\ LockInv /\ Tokens /\ InFlight /\ TasksOK
      /\ Known' = Known
  BY <1>1, QuietFacts, ConstFacts DEF IInv, TypeOK, Known
<1>3. /\ LockInv' /\ path' = path
      /\ \A u \in TasksOf(p) : lock'[u] = NotLocking
      /\ \A u \in Tasks \ TasksOf(p) : lock'[u] = lock[u]
  BY <1>1, <1>2, KillMoves
<1>4. Idle \in ChainStates /\ Idle.pc = "idle" /\ Idle.cred = None
  BY DEF Idle, ChainStates, Steps
<1>5. /\ chain' \in [Tasks -> ChainStates]
      /\ \A u \in TasksOf(p) : chain'[u] = Idle
      /\ \A u \in Tasks \ TasksOf(p) : chain'[u] = chain[u]
  <2> HIDE DEF Idle
  <2> QED BY <1>1, <1>2, <1>4 DEF Shape, TasksOf
<1>6. TasksOf(p) \subseteq Tasks /\ \A u \in Tasks : u \in TasksOf(p) <=> Owner[u] = p
  BY DEF TasksOf
<1>7. /\ mutex' \in [Procs -> Chains \cup {None}] /\ \A q \in Procs \ {p} : mutex'[q] = mutex[q]
      /\ mem' \in [Procs -> Gens \cup {None}] /\ \A q \in Procs : mem'[q] = mem[q] \/ mem'[q] \in Known'
  BY <1>2 DEF Restart, Shape
<1>8. /\ verdict' \in [Procs -> [key : Gens, sticky : BOOLEAN] \cup {None}]
      /\ \A q \in Procs : verdict'[q] = verdict[q] \/ verdict'[q] = None
  BY <1>2 DEF Restart, Shape
<1>9. blips' \in [Procs -> [key : Gens \cup {None}, count : 0..(MaxTransient - 1)]]
  <2>1. NoBlips \in [key : Gens \cup {None}, count : 0..(MaxTransient - 1)]
    BY RefreshAssumption DEF NoBlips
  <2> HIDE DEF NoBlips
  <2> QED BY <1>2, <2>1 DEF Restart, Shape
<1>10. /\ inflight' \in [Procs -> Int] /\ inflight'[p] = 0
       /\ \A q \in Procs \ {p} : inflight'[q] = inflight[q]
  BY <1>2 DEF Restart, Shape
<1>11. /\ gate' \in [Procs -> BOOLEAN] /\ power'[p] = "awake"
       /\ power' \in [Procs -> {"awake", "raised", "acked", "timedOut", "slept"}]
       /\ \A q \in Procs \ {p} : gate'[q] = gate[q] /\ power'[q] = power[q]
  BY <1>2 DEF Restart, Shape
<1>12. excused' \in BOOLEAN
  BY <1>1
<1>13. Shape'
  BY <1>1, <1>2, <1>5, <1>7, <1>8, <1>9, <1>10, <1>11, <1>12 DEF Shape
<1>14. TasksOK'
  <2> SUFFICES ASSUME NEW u \in Tasks PROVE TaskOK(u)'
    BY DEF TasksOK
  <2>1. CASE u \in TasksOf(p)
    <3>1. chain'[u].pc = "idle" /\ chain'[u].cred = None
      BY <1>4, <1>5, <2>1
    <3> QED BY <3>1 DEF TaskOK, ChainPoints, EnricherPoints, FlowPoints, HoldPoints, Known
  <2>2. CASE u \notin TasksOf(p)
    <3>1. TaskOK(u) /\ chain'[u] = chain[u] /\ lock'[u] = lock[u] /\ Owner[u] \in Procs \ {p}
      BY <1>2, <1>3, <1>5, <1>6, <2>2, ConstFacts DEF TasksOK
    <3>2. mutex'[Owner[u]] = mutex[Owner[u]]
      BY <1>7, <3>1
    <3> QED BY <1>1, <1>2, <3>1, <3>2, TaskKept
  <2> QED BY <2>1, <2>2
<1>15. Tokens'
  BY <1>1, <1>2, <1>7, <1>8, TokensKept
<1>16. InFlight'
  <2>1. ~Slotted(p)'
    BY <1>4, <1>5, <1>6, ConstFacts DEF Slotted, SlotPoints
  <2>2. \A q \in Procs \ {p} : Slotted(q)' <=> Slotted(q)
    BY <1>5, <1>6, ConstFacts DEF Slotted
  <2> QED BY <1>2, <1>10, <2>1, <2>2 DEF InFlight
<1>17. Gated'
  <2> SUFFICES ASSUME NEW q \in Procs
               PROVE  /\ power'[q] # "awake" => gate'[q] = TRUE
                      /\ power'[q] = "acked" => \A t \in Chains : Owner[t] = q =>
                            chain'[t].pc \notin {"idp", "answered"}
    BY DEF Gated
  <2>1. CASE q = p
    BY <1>11, <2>1
  <2>2. CASE q # p
    BY <1>2, <1>5, <1>6, <1>11, <2>2, ConstFacts DEF Gated
  <2> QED BY <2>1, <2>2
<1>18. ASSUME NEW u \in Tasks, chain'[u].pc # "idle"
       PROVE  u \notin TasksOf(p) /\ chain'[u] = chain[u] /\ lock'[u] = lock[u]
  BY <1>3, <1>4, <1>5, <1>18
<1>19. Live'
  <2>1. broken' => excused'
    BY <1>1 DEF IInv, Live
  <2>2. ASSUME ~broken', NEW u \in Tasks, Critical(u)' PROVE StillLive(u)'
    <3>1. Critical(u) /\ lock'[u] = lock[u]
      BY <1>18, <2>2 DEF Critical, Holds
    <3> QED BY <1>1, <1>3, <2>2, <3>1 DEF IInv, Live, StillLive
  <2> QED BY <2>1, <2>2 DEF Live
<1>20. Newest'
  <2> SUFFICES ASSUME ~excused' PROVE Newest'
    BY DEF Newest
  <2>1. ~excused /\ Newest /\ \A t \in TasksOf(p) : ~Carries(t)
    BY <1>1 DEF IInv
  <2>2. ~revoked'
    BY <1>1, <2>1 DEF Newest
  <2>3. disk' = issued' \/ \E u \in Chains : Carries(u)'
    <3>1. CASE disk = issued
      BY <1>1, <3>1
    <3>2. ASSUME NEW u \in Chains, Carries(u) PROVE Carries(u)'
      <4>1. chain'[u] = chain[u]
        BY <1>5, <2>1, <3>2, ConstFacts
      <4> QED BY <1>1, <3>2, <4>1 DEF Carries
    <3> QED BY <2>1, <3>1, <3>2 DEF Newest
  <2>4. ASSUME NEW u \in Chains PROVE
          /\ (chain'[u].pc \in {"answered", "apply"} /\ chain'[u].out.kind = "success")
                => chain'[u].out.cred = issued'
          /\ chain'[u].pc = "idp" => chain'[u].cred = issued'
    BY <1>1, <1>18, <2>1, ConstFacts DEF Newest
  <2>5. ASSUME NEW e \in Enrichers, chain'[e].pc = "stomp", Holds(e)', StillLive(e)'
        PROVE  chain'[e].cred = disk'
    <3>1. chain'[e] = chain[e] /\ lock'[e] = lock[e]
      BY <1>18, <2>5, ConstFacts
    <3> QED BY <1>1, <1>3, <2>1, <2>5, <3>1 DEF Newest, Holds, StillLive
  <2> QED BY <2>2, <2>3, <2>4, <2>5 DEF Newest
<1>21. (LockInv /\ Shape /\ TasksOK /\ Tokens /\ InFlight /\ Gated /\ Live /\ Newest)' => IInv'
  BY Assemble, PTL
<1> QED BY <1>3, <1>13, <1>14, <1>15, <1>16, <1>17, <1>19, <1>20, <1>21

\* The lock's own steps: a lock is lost under its holder only when the path is
\* unlinked, which the histories record, and a lock no longer live never is again.
LEMMA LockStepsStep ==
  ASSUME IInv, LockSteps
  PROVE  IInv'
<1>1. /\ UNCHANGED <<disk, mem, verdict, blips, mutex, chain, inflight, gate, power, issued, revoked, expired>>
      /\ broken' = (broken \/ BreaksCritical) /\ excused' = (excused \/ BreaksCritical)
  BY DEF LockSteps, tokenVars, powerVars, idpVars
<1>2. LockInv' /\ PathMoved /\ \A u \in Tasks : Settled(u)
  BY LockStepsMove DEF IInv, LockMoved
<1>3. Shape /\ issued \in Nat /\ disk \in Known /\ Tokens /\ Known' = Known
  BY <1>1, QuietFacts, ConstFacts DEF IInv, TypeOK, Known
<1>4. Shape'
  BY <1>1, <1>3 DEF Shape
<1>5. TasksOK'
  <2> SUFFICES ASSUME NEW u \in Tasks PROVE TaskOK(u)'
    BY DEF TasksOK
  <2>1. TaskOK(u) /\ (lock[u].at \in {"held", "failed"} => lock'[u].at = lock[u].at)
    BY <1>2 DEF IInv, TasksOK, Settled
  <2> QED BY <1>1, <1>3, <2>1, TaskKept
<1>6. Tokens'
  BY <1>1, <1>3, TokensKept
<1>7. InFlight' /\ Gated'
  BY <1>1 DEF IInv, InFlight, Slotted, Gated
<1>8. Live'
  <2>1. broken' => excused'
    BY <1>1 DEF IInv, Live
  <2>2. ASSUME ~broken', NEW u \in Tasks, Critical(u)' PROVE StillLive(u)'
    <3>1. ~broken /\ ~BreaksCritical /\ Settled(u) /\ lock'[u].at = "held"
      BY <1>1, <1>2, <2>2 DEF Critical, Holds
    <3>2. CASE lock'[u] = lock[u]
      <4>1. Critical(u)
        BY <1>1, <2>2, <3>2 DEF Critical, Holds
      <4>2. StillLive(u)
        BY <3>1, <4>1 DEF IInv, Live
      <4>3. path' = path
        BY <3>1, <4>1, <4>2 DEF BreaksCritical
      <4> QED BY <3>2, <4>2, <4>3 DEF StillLive
    <3>3. CASE path # None /\ lock'[u].fd = path /\ path' = path
      BY <3>3 DEF StillLive
    <3> QED BY <3>1, <3>2, <3>3 DEF Settled
  <2> QED BY <2>1, <2>2 DEF Live
<1>9. Newest'
  <2> SUFFICES ASSUME ~excused' PROVE Newest'
    BY DEF Newest
  <2>1. ~excused /\ Newest
    BY <1>1 DEF IInv
  <2>2. ASSUME NEW e \in Enrichers, chain'[e].pc = "stomp", Holds(e)', StillLive(e)'
        PROVE  chain'[e].cred = disk'
    <3>1. e \in Tasks /\ chain[e].pc = "stomp" /\ lock[e].at \in {"held", "failed"}
      BY <1>1, <2>2, ConstFacts DEF IInv, TasksOK, TaskOK
    <3>2. lock'[e] = lock[e] /\ Holds(e)
      BY <1>2, <2>2, <3>1 DEF Settled, Holds
    <3>3. path' # None /\ lock[e].fd = path'
      BY <2>2, <3>2 DEF StillLive
    <3>4. lock[e].fd \in InUse
      BY <3>1 DEF InUse
    <3>5. path' = path
      BY <1>2, <3>3, <3>4 DEF PathMoved
    <3> QED BY <1>1, <2>1, <3>1, <3>2, <3>3, <3>5 DEF Newest, StillLive
  <2> QED BY <1>1, <2>1, <2>2 DEF Newest, Carries
<1>10. (LockInv /\ Shape /\ TasksOK /\ Tokens /\ InFlight /\ Gated /\ Live /\ Newest)' => IInv'
  BY Assemble, PTL
<1> QED BY <1>2, <1>4, <1>5, <1>6, <1>7, <1>8, <1>9, <1>10

-----------------------------------------------------------------------------
(* The invariant holds.                                                    *)

\* It holds at the start: one credential, on the disk and in every process.
LEMMA InitInv == Init => IInv
<1> SUFFICES ASSUME Init PROVE IInv
  OBVIOUS
<1>1. LockInv
  <2>1. LockTypeOK
    <3>1. 1 \in Inodes
      <4>1. Cardinality(Tasks) \in Nat /\ MaxLeaked \in Nat /\ MaxInodes \in Nat
        BY LockAssumption, FS_CardinalityType
      <4> QED BY <4>1, LockAssumption DEF Inodes
    <3>2. NotLocking \in [at : Places, fd : Inodes \cup {None}, phase : 0..4]
      BY DEF NotLocking, Places
    <3> HIDE DEF NotLocking, Inodes
    <3> QED BY <3>1, <3>2 DEF Init, LockInit, LockTypeOK
  <2>2. \A t \in Tasks : LockOK(t)
    BY DEF Init, LockInit, LockOK, NotLocking
  <2>3. Cardinality(Abandoned) <= MaxLeaked
    <3>1. Abandoned = {}
      BY DEF Init, LockInit, Abandoned
    <3> QED BY <3>1, FS_EmptySet, LockAssumption
  <2> QED BY <2>1, <2>2, <2>3 DEF LockInv
<1>2. Idle \in ChainStates /\ Idle.pc = "idle" /\ Idle.cred = None
  BY DEF Idle, ChainStates, Steps
<1>3. chain \in [Tasks -> ChainStates] /\ \A t \in Tasks : chain[t].pc = "idle" /\ chain[t].cred = None
  <2> HIDE DEF Idle
  <2> QED BY <1>2 DEF Init
<1>4. 0 \in Gens
  BY ConstFacts DEF Gens
<1>5. blips \in [Procs -> [key : Gens \cup {None}, count : 0..(MaxTransient - 1)]]
  BY RefreshAssumption DEF Init
<1>6. Shape
  <2>1. /\ disk \in Gens \cup {None} /\ mem \in [Procs -> Gens \cup {None}]
        /\ verdict \in [Procs -> [key : Gens, sticky : BOOLEAN] \cup {None}]
        /\ mutex \in [Procs -> Chains \cup {None}]
    BY <1>4 DEF Init
  <2>2. /\ inflight \in [Procs -> Int] /\ gate \in [Procs -> BOOLEAN]
        /\ power \in [Procs -> {"awake", "raised", "acked", "timedOut", "slept"}]
    BY DEF Init
  <2>3. issued \in Gens /\ revoked \in BOOLEAN /\ expired \subseteq Gens
        /\ broken \in BOOLEAN /\ excused \in BOOLEAN
    BY <1>4 DEF Init
  <2> QED BY <1>3, <1>5, <2>1, <2>2, <2>3 DEF Shape
<1>7. TasksOK
  BY <1>3 DEF TasksOK, TaskOK, ChainPoints, EnricherPoints, FlowPoints, HoldPoints, Known
<1>8. Tokens
  BY DEF Init, Tokens, Known
<1>9. InFlight /\ Gated
  BY <1>3, ConstFacts DEF Init, InFlight, Slotted, SlotPoints, Gated
<1>10. Live /\ Newest
  BY <1>3, ConstFacts DEF Init, Live, Newest, Critical
<1> QED BY <1>1, <1>6, <1>7, <1>8, <1>9, <1>10, Assemble

\* Every step keeps it.
LEMMA InvStep == IInv /\ [Next]_vars => IInv'
<1> SUFFICES ASSUME IInv, [Next]_vars PROVE IInv'
  OBVIOUS
<1>1. CASE LockSteps
  BY <1>1, LockStepsStep
<1>2. ASSUME NEW t \in Tasks, ChainStep(t) PROVE IInv'
  BY <1>2, TakeMutexStep, LockedStep, RevalidateStep, RelockedStep, ClaimStep, RefreshStep,
     IdpAnswersStep, ReceiveStep, ApplySuccessStep, ApplyPermanentStep, ApplyTransientStep DEF ChainStep
<1>3. ASSUME NEW t \in Tasks, TaskStep(t) \/ LoseAnswer(t) \/ StartFlow(t) PROVE IInv'
  BY <1>2, <1>3, FetchedStep, EnrichReadStep, EnrichWriteStep, FlowReadStep, FlowReturnsStep,
     LoseAnswerStep, StartFlowStep DEF TaskStep
<1>4. ASSUME NEW t \in Tasks, NEW reason \in Reasons, Start(t, reason) PROVE IInv'
  BY <1>4, StartStep
<1>5. ASSUME NEW p \in Procs, \/ VerdictExpires(p) \/ Logout(p) \/ Reload(p) \/ Restart(p)
                              \/ WillSleep(p) \/ SleepAck(p) \/ DidWake(p)
      PROVE  IInv'
  BY <1>5, VerdictExpiresStep, LogoutStep, ReloadStep, RestartStep, WillSleepStep, SleepAckStep, DidWakeStep
<1>6. CASE Expire \/ Sleep
  BY <1>6, ExpireStep, SleepStep
<1>7. CASE UNCHANGED vars
  <2>1. UNCHANGED <<path, info, flock, lock, leaked, tokenVars, mutex, chain, inflight, gate, power, idpVars,
                    broken, excused>>
    BY <1>7 DEF vars, lockVars, powerVars
  <2>2. gate' \in [Procs -> BOOLEAN] /\ power' \in [Procs -> {"awake", "raised", "acked", "timedOut", "slept"}]
    BY <2>1, QuietFacts DEF Shape
  <2>3. Gated'
    BY <2>1, QuietFacts DEF Gated
  <2> QED BY <2>1, <2>2, <2>3, QuietFacts, PowerStep
<1> QED BY <1>1, <1>3, <1>4, <1>5, <1>6, <1>7 DEF Next

\* The invariant holds in every reachable state.
THEOREM Invariance == Spec => []IInv
BY InitInv, InvStep, PTL DEF Spec

-----------------------------------------------------------------------------
(* What it says.                                                           *)

\* Every field of AuthManager, every task's locals and the lock file's state keep
\* their types; in particular refresh_in_flight never goes below zero.
THEOREM TypeCorrect == Spec => []TypeOK
<1>1. IInv => TypeOK
  BY DEF IInv
<1> QED BY <1>1, Invariance, PTL

\* However many processes and tasks share auth.json.lock, and whatever dies, times
\* out or finds the lock stale: unless a lock is unlinked under a holder past
\* revalidate_lock_or_reacquire, one refresh_chain at most talks to the provider.
THEOREM SpendersAreExclusive == Spec => []SpendersExclusive
<1>1. IInv => SpendersExclusive
  <2> SUFFICES ASSUME IInv, ~broken
               PROVE  Cardinality({t \in Chains : AtIdp(t)}) <= 1
    BY DEF SpendersExclusive
  <2> DEFINE S == {t \in Chains : AtIdp(t)}
  <2>1. ASSUME NEW t \in S, NEW u \in S PROVE t = u
    <3>1. t \in Tasks /\ u \in Tasks /\ Critical(t) /\ Critical(u)
      BY HoldersCritical, ConstFacts DEF IInv, AtIdp
    <3> QED BY <3>1, CriticalIsAlone DEF IInv
  <2> HIDE DEF S
  <2>2. S = {} \/ \E t : S = {t}
    BY <2>1
  <2>3. \A x : Cardinality({x}) = 1
    BY FS_Singleton
  <2>4. Cardinality({}) = 0
    BY FS_EmptySet
  <2>5. Cardinality(S) \in {0, 1}
    BY <2>2, <2>3, <2>4
  <2>6. Cardinality(S) <= 1
    BY <2>5
  <2> QED BY <2>6 DEF S
<1> QED BY <1>1, Invariance, PTL

\* The provider revokes the family only after the newest credential was lost: with
\* an answer, a failed write, a logout, a death before the write, a lock broken
\* under its holder, or an enrichment that wrote without a live lock.
THEOREM FamilyIsKept == Spec => []FamilySurvives
<1>1. IInv => FamilySurvives
  BY DEF IInv, Newest, FamilySurvives
<1> QED BY <1>1, Invariance, PTL

\* Until one of those happens, the newest credential is in auth.json, or the
\* refresh_chain that got it is on its way to write it.
THEOREM NewestCredentialKept == Spec => []NewestKept
<1>1. IInv => NewestKept
  BY DEF IInv, Newest, NewestKept
<1> QED BY <1>1, Invariance, PTL

\* A verdict that only a new credential lifts is about one the provider accepts no
\* more: apply_refresh_outcome keys it by what was sent.
THEOREM StickyVerdictsAreDead == Spec => []StickyVerdictIsDead
<1>1. IInv => StickyVerdictIsDead
  BY DEF IInv, Tokens, Dead, StickyVerdictIsDead
<1> QED BY <1>1, Invariance, PTL

\* A process that acknowledged a suspend in time has no refresh on the wire until
\* the wake-up: the slot is claimed before the gate is looked at again.
THEOREM AckedProcessesAreDrained == Spec => []AckedMeansDrained
<1>1. IInv => AckedMeansDrained
  BY ConstFacts DEF IInv, Gated, AckedMeansDrained, AtIdp, P
<1> QED BY <1>1, Invariance, PTL

=============================================================================
