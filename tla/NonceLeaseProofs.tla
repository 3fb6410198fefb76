------------------------- MODULE NonceLeaseProofs --------------------------
(***************************************************************************)
(* For every set of containers, keys and threads, and every bound: the     *)
(* process lock is the newest one, lease versions only move forward, and   *)
(* the leases implement the fenced nonce.                                  *)
(***************************************************************************)
EXTENDS NonceLease, TLAPS

-----------------------------------------------------------------------------
(* The process lock.                                                       *)

\* The variables of the lock keep their types.
LEMMA LockTypes ==
  ASSUME LockTypeOK,
         \/ \E p \in Procs : LockStep(p) \/ LockEnd(p)
         \/ LockExpiry
         \/ UNCHANGED lockVars
  PROVE  LockTypeOK'
<1> USE DEF LockTypeOK, Roles, LockValue, Identities, Id, MyLock
<1>1. ASSUME NEW p \in Procs, Boot(p) PROVE LockTypeOK'
  BY <1>1 DEF Boot
<1>2. ASSUME NEW p \in Procs, Acquire(p) PROVE LockTypeOK'
  BY <1>2 DEF Acquire
<1>3. ASSUME NEW p \in Procs, Refused(p) PROVE LockTypeOK'
  BY <1>3 DEF Refused
<1>4. ASSUME NEW p \in Procs, Activate(p) PROVE LockTypeOK'
  BY <1>4 DEF Activate
<1>5. ASSUME NEW p \in Procs, NEW s \in BOOLEAN, Inspect(p, s) PROVE LockTypeOK'
  BY <1>5 DEF Inspect
<1>6. ASSUME NEW p \in Procs, Reclaim(p) PROVE LockTypeOK'
  BY <1>6 DEF Reclaim
<1>7. ASSUME NEW p \in Procs, Renew(p) PROVE LockTypeOK'
  BY <1>7 DEF Renew
<1>8. ASSUME NEW p \in Procs, FindLost(p) \/ GraceExpired(p) PROVE LockTypeOK'
  BY <1>8 DEF FindLost, GraceExpired
<1>9. ASSUME NEW p \in Procs, ReleaseForReelection(p) PROVE LockTypeOK'
  BY <1>9 DEF ReleaseForReelection, DeleteOwn
<1>10. ASSUME NEW p \in Procs, Crash(p) PROVE LockTypeOK'
  BY <1>10 DEF Crash, Forget
<1>11. ASSUME NEW p \in Procs, Shutdown(p) PROVE LockTypeOK'
  BY <1>11 DEF Shutdown, Forget, DeleteOwn
<1>12. ASSUME LockExpiry PROVE LockTypeOK'
  BY <1>12 DEF LockExpiry, ExpireLock, ExpireMeta
<1>13. ASSUME UNCHANGED lockVars PROVE LockTypeOK'
  BY <1>13 DEF lockVars
<1>14. ASSUME NEW p \in Procs, Reelect(p) PROVE LockTypeOK'
  BY <1>14 DEF Reelect
<1> QED
  BY <1>1, <1>2, <1>3, <1>4, <1>5, <1>6, <1>7, <1>8, <1>9, <1>10, <1>11,
     <1>12, <1>13, <1>14 DEF LockStep, LockEnd

\* No step of the lock leaves a lock behind that a later token has superseded.
LEMMA LockStaysNewest ==
  ASSUME LockTypeOK, LockIsNewest,
         \/ \E p \in Procs : LockStep(p) \/ LockEnd(p)
         \/ LockExpiry
         \/ UNCHANGED lockVars
  PROVE  LockIsNewest'
<1> USE DEF LockIsNewest
<1>1. ASSUME NEW p \in Procs, Acquire(p) PROVE LockIsNewest'
  BY <1>1 DEF Acquire
<1>2. ASSUME NEW p \in Procs, Renew(p) PROVE LockIsNewest'
  BY <1>2 DEF Renew, CanRenew, MyLock
<1>3. ASSUME NEW p \in Procs, LockStep(p), ~Acquire(p), ~Renew(p)
      PROVE  LockIsNewest'
  BY <1>3 DEF LockStep, Boot, Refused, Activate, Inspect, Reclaim, FindLost,
              GraceExpired, ReleaseForReelection, DeleteOwn, Reelect
<1>4. ASSUME NEW p \in Procs, LockEnd(p) PROVE LockIsNewest'
  BY <1>4 DEF LockEnd, Crash, Shutdown, DeleteOwn
<1>5. ASSUME LockExpiry PROVE LockIsNewest'
  BY <1>5 DEF LockExpiry, ExpireLock, ExpireMeta
<1>6. ASSUME UNCHANGED lockVars PROVE LockIsNewest'
  BY <1>6 DEF lockVars
<1> QED
  BY <1>1, <1>2, <1>3, <1>4, <1>5, <1>6

\* What a step of the specification does to the lock.
LEMMA StepOfLock ==
  ASSUME [Next]_vars
  PROVE  \/ \E p \in Procs : LockStep(p) \/ LockEnd(p)
         \/ LockExpiry
         \/ UNCHANGED lockVars
BY Zenon DEF Next, vars

\* The process lock in Redis is always the one of the last fencing token.
THEOREM LockNewest == Spec => []LockIsNewest
<1>1. Init => LockTypeOK /\ LockIsNewest
  <2> SUFFICES ASSUME Init PROVE LockTypeOK /\ LockIsNewest
    OBVIOUS
  <2>1. LockTypeOK
    BY DEF Init, LockInit, LockTypeOK, Roles
  <2>2. LockIsNewest
    BY DEF Init, LockInit, LockIsNewest
  <2> QED
    BY <2>1, <2>2
<1>2. LockTypeOK /\ LockIsNewest /\ [Next]_vars => (LockTypeOK /\ LockIsNewest)'
  BY LockTypes, LockStaysNewest, StepOfLock
<1> QED
  BY <1>1, <1>2, PTL DEF Spec

-----------------------------------------------------------------------------
(* The leases: types.                                                      *)

\* The process and the key of a call.
LEMMA CallParts ==
  ASSUME NEW c \in Calls
  PROVE  /\ c[1] \in Procs
         /\ c[2] \in Keys
BY CallsAssumption DEF Threads

\* A recorded identity is one of the identities.
LEMMA IdType ==
  ASSUME LockTypeOK, NEW p \in Procs
  PROVE  Id(p) \in Identities
BY DEF LockTypeOK, Id, Identities

\* A lease that is there is an owner and a version.
LEMMA LeaseType ==
  ASSUME DataOK, NEW k \in Keys, lease[k] # None
  PROVE  /\ lease[k] \in Lease
         /\ lease[k].version \in Nat
         /\ RenewedVersion(k) \in Nat
BY DEF DataOK, Lease, RenewedVersion

\* The ways in which a step writes a call keep its type.
LEMMA StepType ==
  ASSUME DataOK, NEW c \in Calls, NEW pc \in CallPCs, Step(c, pc)
  PROVE  call' \in [Calls -> Call]
<1>1. PICK r \in Call : r = call[c]
  BY DEF DataOK
<1>2. [r EXCEPT !.pc = pc] \in Call
  BY DEF Call
<1>3. call' = [call EXCEPT ![c] = [r EXCEPT !.pc = pc]]
  BY <1>1 DEF Step
<1> QED
  BY <1>2, <1>3 DEF DataOK

LEMMA ReturnType ==
  ASSUME DataOK, NEW c \in Calls, Return(c)
  PROVE  call' \in [Calls -> Call]
<1>1. Idle \in Call
  BY DEF Call, Idle, CallPCs
<1> QED
  BY <1>1 DEF DataOK, Return

LEMMA SeenType ==
  ASSUME DataOK, NEW c \in Calls, NEW pc \in CallPCs, NEW seen \in BOOLEAN,
         call' = [call EXCEPT ![c].pc = pc, ![c].seen = seen]
  PROVE  call' \in [Calls -> Call]
<1>1. PICK r \in Call : r = call[c]
  BY DEF DataOK
<1>2. [r EXCEPT !.pc = pc, !.seen = seen] \in Call
  BY DEF Call
<1>3. call' = [call EXCEPT ![c] = [r EXCEPT !.pc = pc, !.seen = seen]]
  BY <1>1
<1> QED
  BY <1>2, <1>3 DEF DataOK

LEMMA GrantedType ==
  ASSUME LockTypeOK, DataOK, NEW c \in Calls, NEW v \in Nat, Granted(c, v)
  PROVE  /\ lease' \in [Keys -> Lease \cup {None}]
         /\ call' \in [Calls -> Call]
         /\ loose' \subseteq Procs \X Keys
<1>1. PICK r \in Call : r = call[c]
  BY DEF DataOK
<1>2. [r EXCEPT !.pc = "storing", !.version = v] \in Call
  BY DEF Call, CallPCs
<1>3. \/ call' = [call EXCEPT ![c] = [r EXCEPT !.pc = "storing", !.version = v]]
      \/ Return(c)
  BY <1>1 DEF Granted
<1>4. call' \in [Calls -> Call]
  BY <1>2, <1>3, ReturnType DEF DataOK
<1>5. [owner |-> Id(c[1]), version |-> v] \in Lease
  BY CallParts, IdType DEF Lease
<1>6. lease' \in [Keys -> Lease \cup {None}]
  BY <1>5, CallParts DEF Granted, DataOK
<1>7. loose' \subseteq Procs \X Keys
  BY CallParts DEF Granted, DataOK
<1> QED
  BY <1>4, <1>6, <1>7

LEMMA GoOnType ==
  ASSUME DataOK, NEW c \in Calls, NEW next \in {"idle", "issuing"}, GoOn(c, next)
  PROVE  call' \in [Calls -> Call]
<1>1. "issuing" \in CallPCs
  BY DEF CallPCs
<1> QED
  BY <1>1, SeenType, ReturnType DEF GoOn

LEMMA StoppedType ==
  ASSUME DataOK, NEW c \in Calls, Stopped(c)
  PROVE  call' \in [Calls -> Call]
<1>1. Idle \in Call
  BY DEF Call, Idle, CallPCs
<1>2. \A d \in Calls : [call[d] EXCEPT !.stopped = TRUE] \in Call
  BY DEF DataOK, Call
<1> QED
  BY <1>1, <1>2 DEF Stopped, DataOK

\* The history only speaks of containers and keys.
LEMMA LooseType ==
  ASSUME DataOK, NEW p \in Procs, NEW k \in Keys,
         Overlapping(p, k) \/ Settled(p, k)
  PROVE  loose' \subseteq Procs \X Keys
BY DEF DataOK, Overlapping, Settled

\* Every step of a call keeps the types.
LEMMA CallTypes ==
  ASSUME LockTypeOK, DataOK, NEW c \in Calls, CallStep(c)
  PROVE  DataOK'
<1> DEFINE p == c[1]  k == c[2]
<1>0. p \in Procs /\ k \in Keys /\ Id(p) \in Identities
  BY CallParts, IdType
<1> HIDE DEF p, k
<1>pc. {"asserted", "releasing", "leasing", "contended", "forcing", "registering",
        "popping", "stopping"} \subseteq CallPCs
  BY DEF CallPCs
<1>1. CASE BeginCall(c) \/ BeginRelease(c)
  <2>1. call' \in [Calls -> Call]
    BY <1>1, <1>pc, StepType DEF BeginCall, BeginRelease
  <2>2. loose' \subseteq Procs \X Keys
    BY <1>1, <1>0, LooseType DEF BeginCall, BeginRelease, DataOK, p, k
  <2> QED
    BY <1>1, <2>1, <2>2 DEF BeginCall, BeginRelease, DataOK
<1>2. CASE ReadHeld(c)
  <2>1. prev[p][k] \in BOOLEAN
    BY <1>0 DEF DataOK
  <2>2. call' = [call EXCEPT ![c].pc = "leasing", ![c].seen = prev[p][k]]
    BY <1>2 DEF ReadHeld, p, k
  <2>3. call' \in [Calls -> Call]
    BY <1>pc, <2>1, <2>2, SeenType
  <2> QED
    BY <1>2, <2>3 DEF ReadHeld, DataOK
\* A script that grants, and one that does not.
<1>g. ASSUME Granted(c, generation + 1), generation' = generation + 1,
             UNCHANGED <<nonce, prev, beat, issued>>
      PROVE  DataOK'
  <2>1. generation + 1 \in Nat
    BY DEF DataOK
  <2>2. /\ lease' \in [Keys -> Lease \cup {None}]
        /\ call' \in [Calls -> Call]
        /\ loose' \subseteq Procs \X Keys
    BY <1>g, <2>1, GrantedType
  <2> QED
    BY <1>g, <2>1, <2>2 DEF DataOK
<1>o. ASSUME Owns(p, k), Granted(c, RenewedVersion(k)), UNCHANGED generation,
             UNCHANGED <<nonce, prev, beat, issued>>
      PROVE  DataOK'
  <2>1. RenewedVersion(k) \in Nat
    BY <1>o, LeaseType, <1>0 DEF Owns
  <2>2. /\ lease' \in [Keys -> Lease \cup {None}]
        /\ call' \in [Calls -> Call]
        /\ loose' \subseteq Procs \X Keys
    BY <1>o, <2>1, GrantedType
  <2> QED
    BY <1>o, <2>2 DEF DataOK
<1>q. ASSUME NEW pc \in CallPCs, Step(c, pc) \/ Return(c),
             UNCHANGED <<lease, generation, nonce, prev, beat, issued, loose>>
      PROVE  DataOK'
  <2>1. call' \in [Calls -> Call]
    BY <1>q, StepType, ReturnType
  <2> QED
    BY <1>q, <2>1 DEF DataOK
<1>4. CASE RunLeaseScript(c)
  BY <1>4, <1>g, <1>o, <1>q, <1>pc DEF RunLeaseScript, Raised, p, k
<1>5. CASE Reassert(c)
  BY <1>5, <1>q, <1>pc DEF Reassert
<1>6. CASE TakeOver(c)
  BY <1>6, <1>g, <1>o, <1>q, <1>pc DEF TakeOver, Raised, p, k
<1>7. ASSUME NEW next \in {"idle", "issuing"}, StoreLease(c, next) PROVE DataOK'
  <2>1. call' \in [Calls -> Call]
    BY <1>7, <1>pc, StepType, GoOnType DEF StoreLease
  <2>2. prev' \in [Procs -> [Keys -> BOOLEAN]]
    BY <1>7, <1>0 DEF StoreLease, DataOK, p, k
  <2>3. loose' \subseteq Procs \X Keys
    BY <1>7, <1>0, LooseType DEF StoreLease, p, k
  <2> QED
    BY <1>7, <2>1, <2>2, <2>3 DEF StoreLease, DataOK
<1>8. ASSUME NEW next \in {"idle", "issuing"}, Register(c, next) PROVE DataOK'
  <2>1. call' \in [Calls -> Call]
    BY <1>8, GoOnType DEF Register
  <2>2. beat' \in [Procs -> [Keys -> {"none", "running", "finished"}]]
    BY <1>8, <1>0 DEF Register, DataOK, p, k
  <2>3. loose' \subseteq Procs \X Keys
    BY <1>8, <1>0, LooseType DEF Register, p, k
  <2> QED
    BY <1>8, <2>1, <2>2, <2>3 DEF Register, DataOK
<1>9. ASSUME NEW floor \in Floors, Issue(c, floor) PROVE DataOK'
  <2>1. PICK n : /\ n = Larger(nonce[k] + 1, floor)
                 /\ nonce' = [nonce EXCEPT ![k] = n]
                 /\ issued' = [issued EXCEPT ![k] =
                      [nonce |-> n, version |-> lease[k].version, owner |-> Id(p)]]
                 /\ Fenced(c)
    BY <1>9 DEF Issue, p, k
  <2>2. n \in Nat
    BY <1>0, <2>1, FloorsAssumption DEF Larger, DataOK
  <2>3. lease[k].version \in Nat
    BY <1>0, <2>1, LeaseType DEF Fenced, Owns, p, k
  <2>4. issued' \in [Keys -> Issued]
    BY <1>0, <2>1, <2>2, <2>3 DEF Issued, DataOK
  <2>5. call' \in [Calls -> Call]
    BY <1>9, ReturnType DEF Issue
  <2> QED
    BY <1>9, <1>0, <2>1, <2>2, <2>4, <2>5 DEF Issue, DataOK
<1>10. CASE Reject(c)
  BY <1>10, <1>q, <1>pc DEF Reject
<1>11. CASE ReleaseScript(c)
  <2>1. call' \in [Calls -> Call]
    BY <1>11, <1>pc, StepType, ReturnType DEF ReleaseScript, EndRelease
  <2>2. /\ lease' \in [Keys -> Lease \cup {None}]
        /\ loose' \subseteq Procs \X Keys
    BY <1>11, <1>0 DEF ReleaseScript, DataOK, p, k
  <2>3. beat' \in [Procs -> [Keys -> {"none", "running", "finished"}]]
    <3>1. beat' = beat \/ beat' = [beat EXCEPT ![p][k] = "finished"]
      BY <1>11 DEF ReleaseScript, EndRelease, p, k
    <3> QED
      BY <1>0, <3>1 DEF DataOK
  <2> QED
    BY <1>11, <2>1, <2>2, <2>3 DEF ReleaseScript, DataOK
<1>12. CASE PopLease(c)
  <2>1. call' \in [Calls -> Call]
    BY <1>12, <1>pc, StepType DEF PopLease
  <2>2. prev' \in [Procs -> [Keys -> BOOLEAN]]
    BY <1>12, <1>0 DEF PopLease, DataOK, p, k
  <2> QED
    BY <1>12, <2>1, <2>2 DEF PopLease, DataOK
<1>13. CASE StopBeat(c)
  <2>1. call' \in [Calls -> Call]
    BY <1>13, StoppedType DEF StopBeat
  <2>2. beat' \in [Procs -> [Keys -> {"none", "running", "finished"}]]
    BY <1>13, <1>0 DEF StopBeat, DataOK, p, k
  <2> QED
    BY <1>13, <2>1, <2>2 DEF StopBeat, DataOK
<1> QED
  BY <1>1, <1>2, <1>4, <1>5, <1>6, <1>7, <1>8, <1>9, <1>10, <1>11, <1>12, <1>13
     DEF CallStep

\* So do the steps of Redis, of the recovery and of the end of a process.
LEMMA KeyTypes ==
  ASSUME LockTypeOK, DataOK, NEW k \in Keys, KeyStep(k)
  PROVE  DataOK'
<1>2. CASE ExpireLease(k)
  BY <1>2 DEF ExpireLease, DataOK
<1>3. CASE EvictVersion(k)
  <2>1. PICK r \in Lease : r = lease[k]
    BY <1>3, LeaseType DEF EvictVersion
  <2>2. [r EXCEPT !.version = 0] \in Lease
    BY DEF Lease
  <2>3. lease' = [lease EXCEPT ![k] = [r EXCEPT !.version = 0]]
    BY <1>3, <2>1 DEF EvictVersion
  <2> QED
    BY <1>3, <2>2, <2>3 DEF EvictVersion, DataOK
<1>4. ASSUME NEW floor \in Floors, AdvanceToFloor(k, floor) PROVE DataOK'
  BY <1>4, FloorsAssumption DEF AdvanceToFloor, Larger, DataOK
<1>5. ASSUME NEW floor \in Floors, ResetKey(k, floor) PROVE DataOK'
  <2>1. PICK r \in Issued : r = issued[k]
    BY DEF DataOK
  <2>2. [r EXCEPT !.nonce = 0] \in Issued
    BY DEF Issued
  <2>3. issued' = [issued EXCEPT ![k] = [r EXCEPT !.nonce = 0]]
    BY <1>5, <2>1 DEF ResetKey
  <2>4. floor \in Nat
    BY FloorsAssumption
  <2> QED
    BY <1>5, <2>2, <2>3, <2>4 DEF ResetKey, DataOK
<1> QED
  BY <1>2, <1>3, <1>4, <1>5 DEF KeyStep

LEMMA EndTypes ==
  ASSUME DataOK, NEW p \in Procs, EndCalls(p)
  PROVE  DataOK'
BY DEF EndCalls, DataOK, Call, Idle, CallPCs

-----------------------------------------------------------------------------
(* What a process remembers.                                               *)

\* A call carries a version from the lease script to its return, and what it read
\* of the memory until it has stored the lease.
Carries(r) ==
  /\ r.version # 0 <=> r.pc \in {"storing", "registering", "issuing"}
  /\ r.seen => r.pc \in {"leasing", "storing"}

CallsCarry == \A c \in Calls : Carries(call[c])

\* A process that is down remembers nothing and runs no call.
DownIsEmpty ==
  /\ \A p \in Procs, k \in Keys :
       role[p] = "down" => ~prev[p][k] /\ beat[p][k] = "none"
  /\ \A c \in Calls : role[c[1]] = "down" => call[c].pc = "idle"

\* A lease belongs to a start of its owner that has happened.
OwnersBooted ==
  \A k \in Keys, p \in Procs :
    lease[k] # None /\ lease[k].owner[1] = p => lease[k].owner[2] <= boot[p]

\* The lease of k has, or is about to get, its heartbeat in p.
Kept(p, k) ==
  \/ beat[p][k] # "none"
  \/ \E c \in CallsOf(p, k) :
       call[c].pc \in {"storing", "registering"} /\ ~call[c].seen

InRelease == {"popping", "stopping"}

\* Memory, heartbeat and calls of one key in one process, while no release has
\* overlapped a call: the windows of a release exclude the other calls, and what is
\* owned, remembered or was read as remembered is kept.
PairOK(p, k) ==
  /\ \A c, d \in CallsOf(p, k) :
       call[c].pc \in InRelease => call[d].pc \in {"idle", "releasing"} \cup InRelease
  /\ \A c \in CallsOf(p, k) :
       /\ call[c].pc = "registering" => prev[p][k]
       /\ call[c].pc = "stopping" => ~prev[p][k]
       /\ call[c].pc \in InRelease => ~Owns(p, k)
       /\ call[c].seen => Kept(p, k)
  /\ beat[p][k] # "none" =>
       prev[p][k] \/ \E c \in CallsOf(p, k) : call[c].pc = "stopping"
  /\ Owns(p, k) /\ role[p] # "down" => Kept(p, k)
  /\ prev[p][k] => Kept(p, k)

PairInv(p, k) == <<p, k>> \notin loose => PairOK(p, k)

KeepInv ==
  /\ CallsCarry
  /\ DownIsEmpty
  /\ OwnersBooted
  /\ \A p \in Procs, k \in Keys : PairInv(p, k)

\* The inductive invariant.
IInv == LockTypeOK /\ DataOK /\ KeepInv /\ VersionsAdvance

\* A step that leaves the calls, the memory and the heartbeat of a key alone, and
\* brings its process no lease.
LEMMA PairFrame ==
  ASSUME NEW p \in Procs, NEW k \in Keys, PairInv(p, k),
         Owns(p, k)' => Owns(p, k),
         Owns(p, k)' /\ role'[p] # "down" => role[p] # "down",
         prev'[p][k] = prev[p][k], beat'[p][k] = beat[p][k],
         <<p, k>> \in loose => <<p, k>> \in loose',
         \A c \in CallsOf(p, k) :
           call'[c].pc = call[c].pc /\ call'[c].seen = call[c].seen
  PROVE  PairInv(p, k)'
<1> SUFFICES ASSUME <<p, k>> \notin loose' PROVE PairOK(p, k)'
  BY DEF PairInv
<1>1. PairOK(p, k)
  BY DEF PairInv
<1>2. Kept(p, k)' <=> Kept(p, k)
  BY DEF Kept
<1> QED
  BY <1>1, <1>2 DEF PairOK

\* The lock starts a process under a new identity, and changes none that is up.
LEMMA LockIdentities ==
  ASSUME LockTypeOK, NEW p \in Procs,
         (\E q \in Procs : LockStep(q)) \/ LockExpiry \/ UNCHANGED lockVars
  PROVE  /\ boot[p] \in Nat /\ boot'[p] \in Nat /\ boot'[p] >= boot[p]
         /\ role'[p] # "down" => role[p] # "down" \/ boot'[p] > boot[p]
<1>1. CASE \E q \in Procs : Boot(q)
  BY <1>1 DEF Boot, LockTypeOK
<1>2. CASE ~\E q \in Procs : Boot(q)
  <2>1. UNCHANGED boot
    BY <1>2 DEF LockStep, LockExpiry, ExpireLock, ExpireMeta, lockVars, Acquire,
       Refused, Activate, Inspect, Reclaim, Renew, FindLost, GraceExpired,
       ReleaseForReelection, Reelect
  <2>2. role'[p] # "down" => role[p] # "down"
    BY <1>2 DEF LockStep, LockExpiry, ExpireLock, ExpireMeta, lockVars, Acquire,
       Refused, Activate, Inspect, Reclaim, Renew, FindLost, GraceExpired,
       ReleaseForReelection, Reelect, LockTypeOK
  <2> QED
    BY <2>1, <2>2 DEF LockTypeOK
<1> QED
  BY <1>1, <1>2

\* Whose lease it is, in terms of the recorded identity.
LEMMA OwnerParts ==
  ASSUME DataOK, NEW k \in Keys, lease[k] # None
  PROVE  lease[k].owner[1] \in Procs /\ lease[k].owner[2] \in Nat
BY DEF DataOK, Lease, Identities

\* The lock never touches the memory of a process that stays up, and never
\* resurrects one.
LEMMA LockKeeps ==
  ASSUME LockTypeOK, DataOK, KeepInv, UNCHANGED leaseVars,
         (\E q \in Procs : LockStep(q)) \/ LockExpiry \/ UNCHANGED lockVars
  PROVE  KeepInv'
<1>1. OwnersBooted'
  BY LockIdentities, OwnerParts DEF KeepInv, OwnersBooted, leaseVars
<1>2. CallsCarry'
  BY DEF KeepInv, CallsCarry, leaseVars
<1>3. ASSUME NEW p \in Procs, role'[p] = "down" PROVE role[p] = "down"
  BY <1>3 DEF LockTypeOK, LockStep, LockExpiry, ExpireLock, ExpireMeta, Boot,
     Acquire, Refused, Activate, Inspect, Reclaim, Renew, FindLost, lockVars,
     GraceExpired, ReleaseForReelection, Reelect
<1>4. DownIsEmpty'
  BY <1>3, CallParts DEF KeepInv, DownIsEmpty, leaseVars
<1>5. ASSUME NEW p \in Procs, NEW k \in Keys PROVE PairInv(p, k)'
  <2>1. ASSUME Owns(p, k)' PROVE Owns(p, k) /\ (role'[p] # "down" => role[p] # "down")
    <3>1. lease[k] # None /\ lease[k].owner = <<p, boot'[p]>>
      BY <2>1 DEF Owns, Id, leaseVars
    <3>2. boot'[p] <= boot[p]
      BY <3>1 DEF KeepInv, OwnersBooted
    <3> QED
      BY <3>1, <3>2, LockIdentities DEF Owns, Id
  <2>2. PairInv(p, k)
    BY DEF KeepInv
  <2> QED
    BY <2>1, <2>2, PairFrame DEF leaseVars
<1> QED
  BY <1>1, <1>2, <1>4, <1>5 DEF KeepInv

\* The end of a process leaves nothing of it behind.
LEMMA EndKeeps ==
  ASSUME LockTypeOK, DataOK, KeepInv, NEW q \in Procs, LockEnd(q), EndCalls(q)
  PROVE  KeepInv'
<1>1. /\ role' = [role EXCEPT ![q] = "down"] /\ boot' = boot /\ lease' = lease
      /\ prev' = [prev EXCEPT ![q] = [k \in Keys |-> FALSE]]
      /\ beat' = [beat EXCEPT ![q] = [k \in Keys |-> "none"]]
      /\ call' = [c \in Calls |-> IF c[1] = q THEN Idle ELSE call[c]]
      /\ loose' = {pair \in loose : pair[1] # q}
  BY DEF LockEnd, Crash, Shutdown, Forget, EndCalls
<1>2. OwnersBooted'
  BY <1>1 DEF KeepInv, OwnersBooted
<1>3. CallsCarry'
  BY <1>1 DEF KeepInv, CallsCarry, Carries, Idle
<1>4. ASSUME NEW p \in Procs, p # q
      PROVE  /\ role'[p] = role[p] /\ prev'[p] = prev[p] /\ beat'[p] = beat[p]
             /\ \A c \in Calls : c[1] = p => call'[c] = call[c]
             /\ \A k \in Keys : <<p, k>> \in loose' <=> <<p, k>> \in loose
  BY <1>1, <1>4 DEF LockTypeOK, DataOK
<1>5. /\ role'[q] = "down"
      /\ \A k \in Keys : ~prev'[q][k] /\ beat'[q][k] = "none"
      /\ \A c \in Calls : c[1] = q => call'[c].pc = "idle" /\ ~call'[c].seen
  BY <1>1 DEF LockTypeOK, DataOK, Idle
<1>6. DownIsEmpty'
  BY <1>4, <1>5, CallParts DEF KeepInv, DownIsEmpty
<1>7. ASSUME NEW p \in Procs, NEW k \in Keys PROVE PairInv(p, k)'
  <2>1. CASE p = q
    BY <1>5, <2>1 DEF PairInv, PairOK, CallsOf, InRelease
  <2>2. CASE p # q
    <3>1. PairInv(p, k) /\ (Owns(p, k)' => Owns(p, k))
      BY <1>1 DEF KeepInv, Owns, Id
    <3>2. \A c \in CallsOf(p, k) : call'[c] = call[c]
      BY <1>4, <2>2 DEF CallsOf
    <3> QED
      BY <1>4, <2>2, <3>1, <3>2, PairFrame
  <2> QED
    BY <2>1, <2>2
<1> QED
  BY <1>2, <1>3, <1>6, <1>7 DEF KeepInv

\* So do the steps of Redis and of the recovery.
LEMMA KeyKeeps ==
  ASSUME DataOK, KeepInv, UNCHANGED lockVars, NEW k \in Keys, KeyStep(k)
  PROVE  KeepInv'
<1>1. UNCHANGED <<prev, beat, call, loose>>
  BY DEF KeyStep, ExpireLease, EvictVersion, AdvanceToFloor, ResetKey
<1>2. ASSUME NEW j \in Keys, lease'[j] # None
      PROVE  lease[j] # None /\ lease'[j].owner = lease[j].owner
  BY <1>2 DEF KeyStep, ExpireLease, EvictVersion, AdvanceToFloor, ResetKey, DataOK,
              Lease
<1>3. OwnersBooted' /\ CallsCarry' /\ DownIsEmpty'
  BY <1>1, <1>2 DEF KeepInv, OwnersBooted, CallsCarry, DownIsEmpty, lockVars
<1>4. ASSUME NEW p \in Procs, NEW j \in Keys PROVE PairInv(p, j)'
  <2>1. PairInv(p, j) /\ (Owns(p, j)' => Owns(p, j))
    BY <1>2 DEF KeepInv, Owns, Id, lockVars
  <2> QED
    BY <1>1, <2>1, PairFrame DEF lockVars
<1> QED
  BY <1>3, <1>4 DEF KeepInv

\* A version that is drawn or renewed is never zero.
LEMMA VersionsPositive ==
  ASSUME IInv, NEW k \in Keys
  PROVE  /\ generation + 1 \in Nat /\ generation + 1 # 0
         /\ lease[k] # None => RenewedVersion(k) \in Nat /\ RenewedVersion(k) # 0
<1>1. lease[k] # None => generation > 0 /\ RenewedVersion(k) \in Nat
  BY LeaseType DEF IInv, VersionsAdvance, LeaseInv
<1> QED
  BY <1>1 DEF IInv, DataOK, RenewedVersion

-----------------------------------------------------------------------------
(* The steps of a call.                                                    *)

\* What a step of c leaves alone.
Alike(d) ==
  /\ call'[d].pc = call[d].pc
  /\ call'[d].seen = call[d].seen
  /\ call'[d].version = call[d].version

Elsewhere(c) ==
  /\ \A d \in Calls : d # c => Alike(d)
  /\ \A p \in Procs, k \in Keys :
       p # c[1] \/ k # c[2] =>
         /\ prev'[p][k] = prev[p][k]
         /\ beat'[p][k] = beat[p][k]
         /\ <<p, k>> \in loose => <<p, k>> \in loose'
  /\ \A k \in Keys : k # c[2] => lease'[k] = lease[k]

\* The ways in which a step writes its call.
LEMMA StepWrites ==
  ASSUME DataOK, NEW c \in Calls, NEW pc, Step(c, pc)
  PROVE  /\ \A d \in Calls : d # c => Alike(d)
         /\ call'[c].pc = pc
         /\ call'[c].seen = call[c].seen /\ call'[c].version = call[c].version
<1>1. call[c] \in Call
  BY DEF DataOK
<1> QED
  BY <1>1 DEF Step, DataOK, Call, Alike

LEMMA ReturnWrites ==
  ASSUME DataOK, NEW c \in Calls, Return(c)
  PROVE  /\ \A d \in Calls : d # c => Alike(d)
         /\ call'[c] = Idle
BY DEF Return, DataOK, Alike

LEMMA GrantWrites ==
  ASSUME DataOK, NEW c \in Calls, NEW v, Granted(c, v)
  PROVE  /\ \A d \in Calls : d # c => Alike(d)
         /\ \/ /\ call'[c].pc = "storing" /\ call'[c].version = v
               /\ call'[c].seen = call[c].seen
            \/ call'[c] = Idle
<1>1. call[c] \in Call
  BY DEF DataOK
<1>2. CASE Return(c)
  BY <1>2, ReturnWrites
<1>3. CASE call' = [call EXCEPT ![c].pc = "storing", ![c].version = v]
  BY <1>1, <1>3 DEF DataOK, Call, Alike
<1> QED
  BY <1>2, <1>3 DEF Granted

LEMMA GoOnWrites ==
  ASSUME DataOK, NEW c \in Calls, NEW next \in {"idle", "issuing"}, GoOn(c, next)
  PROVE  /\ \A d \in Calls : d # c => Alike(d)
         /\ \/ /\ call'[c].pc = "issuing" /\ call'[c].version = call[c].version
               /\ call'[c].seen = FALSE
            \/ call'[c] = Idle
<1>1. call[c] \in Call
  BY DEF DataOK
<1>2. CASE next = "idle"
  BY <1>2, ReturnWrites DEF GoOn
<1>3. CASE next = "issuing"
  BY <1>1, <1>3 DEF GoOn, DataOK, Call, Alike
<1> QED
  BY <1>2, <1>3

LEMMA StoppedWrites ==
  ASSUME DataOK, NEW c \in Calls, Stopped(c)
  PROVE  /\ \A d \in Calls : d # c => Alike(d)
         /\ call'[c] = Idle
<1>1. \A d \in Calls : call[d] \in Call
  BY DEF DataOK
<1> QED
  BY <1>1 DEF Stopped, Call, Alike

\* The rest of the world, when nothing but the call and the history is written.
LEMMA LocalElsewhere ==
  ASSUME NEW c \in Calls, UNCHANGED <<lease, prev, beat>>,
         \A d \in Calls : d # c => Alike(d),
         loose \subseteq loose'
  PROVE  Elsewhere(c)
BY DEF Elsewhere

\* Registered heartbeats and the history outside of one key.
LEMMA SettledElsewhere ==
  ASSUME NEW p, NEW k, Settled(p, k)
  PROVE  \A q \in Procs, j \in Keys :
           (q # p \/ j # k) /\ <<q, j>> \in loose => <<q, j>> \in loose'
BY DEF Settled

LEMMA CallElsewhere ==
  ASSUME DataOK, NEW c \in Calls, CallStep(c)
  PROVE  Elsewhere(c)
<1> DEFINE p == c[1]  k == c[2]
<1>0. p \in Procs /\ k \in Keys
  BY CallParts
<1> HIDE DEF p, k
<1>1. CASE \/ BeginCall(c) \/ BeginRelease(c) \/ Reassert(c) \/ Reject(c)
           \/ \E floor \in Floors : Issue(c, floor)
  <2>1. /\ (\E pc : Step(c, pc)) \/ Return(c)
        /\ UNCHANGED <<lease, prev, beat>> /\ loose \subseteq loose'
    BY <1>1 DEF BeginCall, BeginRelease, Reassert, Reject, Issue, Overlapping
  <2> QED
    BY <2>1, StepWrites, ReturnWrites, LocalElsewhere
<1>2. CASE ReadHeld(c)
  <2>1. \A d \in Calls : d # c => Alike(d)
    BY <1>2 DEF ReadHeld, DataOK, Alike
  <2> QED
    BY <1>2, <2>1, LocalElsewhere DEF ReadHeld
<1>3. CASE RunLeaseScript(c) \/ TakeOver(c)
  <2>1. UNCHANGED <<prev, beat>>
    BY <1>3 DEF RunLeaseScript, TakeOver
  <2>2. CASE \E v : Granted(c, v)
    <3>1. /\ \A d \in Calls : d # c => Alike(d)
          /\ loose \subseteq loose'
          /\ \A j \in Keys : j # k => lease'[j] = lease[j]
      BY <1>0, <2>2, GrantWrites DEF Granted, DataOK, k
    <3> QED
      BY <2>1, <3>1 DEF Elsewhere, k
  <2>3. CASE (Step(c, "contended") \/ Return(c)) /\ UNCHANGED <<lease, loose>>
    BY <2>1, <2>3, StepWrites, ReturnWrites, LocalElsewhere
  <2> QED
    BY <1>3, <2>2, <2>3 DEF RunLeaseScript, TakeOver, Raised
<1>4. ASSUME NEW next \in {"idle", "issuing"}, StoreLease(c, next) \/ Register(c, next)
      PROVE  Elsewhere(c)
  <2>1. /\ UNCHANGED lease /\ Settled(p, k)
        /\ Step(c, "registering") \/ GoOn(c, next)
        /\ \A q \in Procs, j \in Keys :
             q # p \/ j # k => prev'[q][j] = prev[q][j] /\ beat'[q][j] = beat[q][j]
    BY <1>0, <1>4 DEF StoreLease, Register, DataOK, p, k
  <2>2. \A d \in Calls : d # c => Alike(d)
    BY <2>1, StepWrites, GoOnWrites
  <2> QED
    BY <2>1, <2>2, SettledElsewhere DEF Elsewhere, p, k
<1>5. CASE ReleaseScript(c) \/ PopLease(c) \/ StopBeat(c)
  <2>1. (\E pc : Step(c, pc)) \/ Return(c) \/ Stopped(c)
    BY <1>5 DEF ReleaseScript, EndRelease, PopLease, StopBeat
  <2>2. \A d \in Calls : d # c => Alike(d)
    BY <2>1, StepWrites, ReturnWrites, StoppedWrites
  <2>3. /\ loose \subseteq loose'
        /\ \A j \in Keys : j # k => lease'[j] = lease[j]
        /\ \A q \in Procs, j \in Keys :
             q # p \/ j # k => prev'[q][j] = prev[q][j] /\ beat'[q][j] = beat[q][j]
    BY <1>0, <1>5 DEF ReleaseScript, EndRelease, PopLease, StopBeat, DataOK, p, k
  <2> QED
    BY <2>2, <2>3 DEF Elsewhere, p, k
<1> QED
  BY <1>1, <1>2, <1>3, <1>4, <1>5 DEF CallStep

\* What a step of c does to its own call, and to its own key.
Own(c) == Carries(call'[c]) /\ PairInv(c[1], c[2])'

\* The steps that write nothing but their call: none makes a promise to register a
\* heartbeat or breaks one.
LEMMA QuietOwn ==
  ASSUME DataOK, KeepInv, UNCHANGED lockVars, NEW c \in Calls, Elsewhere(c),
         UNCHANGED <<lease, prev, beat>>,
         Carries(call'[c]),
         call[c].pc \notin {"storing", "registering"} \cup InRelease,
         call'[c].pc \notin {"registering"} \cup InRelease,
         call'[c].seen => call[c].seen \/ prev[c[1]][c[2]],
         <<c[1], c[2]>> \in loose => <<c[1], c[2]>> \in loose',
         <<c[1], c[2]>> \notin loose' =>
           \/ call'[c].pc \in {"idle", "releasing"}
           \/ call[c].pc \notin {"idle", "releasing"}
           \/ ~Dropping(c[1], c[2])
  PROVE  Own(c)
<1> DEFINE p == c[1]  k == c[2]
<1>0. p \in Procs /\ k \in Keys /\ c \in CallsOf(p, k)
  BY CallParts DEF CallsOf
<1> SUFFICES ASSUME <<p, k>> \notin loose' PROVE PairOK(p, k)'
  BY DEF Own, PairInv
<1>1. PairOK(p, k) /\ (<<p, k>> \notin loose)
  BY <1>0 DEF KeepInv, PairInv
<1>2. \A d \in CallsOf(p, k) : d # c => Alike(d)
  BY DEF Elsewhere, CallsOf
<1>3. Kept(p, k) => Kept(p, k)'
  BY <1>2 DEF Kept, Alike
<1>4. Owns(p, k)' <=> Owns(p, k)
  BY DEF Owns, Id, lockVars
<1>5. \A d, e \in CallsOf(p, k) :
        call'[d].pc \in InRelease =>
          call'[e].pc \in {"idle", "releasing"} \cup InRelease
  BY <1>1, <1>2 DEF PairOK, Alike, Dropping, InRelease
<1>6. \A d \in CallsOf(p, k) :
        /\ call'[d].pc = "registering" => prev'[p][k]
        /\ call'[d].pc = "stopping" => ~prev'[p][k]
        /\ call'[d].pc \in InRelease => ~Owns(p, k)'
        /\ call'[d].seen => Kept(p, k)'
  BY <1>0, <1>1, <1>2, <1>3, <1>4 DEF PairOK, Alike, InRelease
<1>7. beat'[p][k] # "none" =>
        prev'[p][k] \/ \E d \in CallsOf(p, k) : call'[d].pc = "stopping"
  BY <1>0, <1>1, <1>2 DEF PairOK, Alike, InRelease
<1>8. /\ Owns(p, k)' /\ role'[p] # "down" => Kept(p, k)'
      /\ prev'[p][k] => Kept(p, k)'
  BY <1>1, <1>3, <1>4 DEF PairOK, lockVars
<1> QED
  BY <1>5, <1>6, <1>7, <1>8 DEF PairOK

\* A grant: the call is about to remember the lease and to register a heartbeat,
\* unless it read the lease as remembered or its reply is lost.
LEMMA GrantOwn ==
  ASSUME DataOK, KeepInv, UNCHANGED lockVars, NEW c \in Calls, Elsewhere(c),
         UNCHANGED <<prev, beat>>,
         NEW v, v # 0, Granted(c, v), call[c].pc \in {"leasing", "forcing"}
  PROVE  Own(c)
<1> DEFINE p == c[1]  k == c[2]
<1>0. p \in Procs /\ k \in Keys /\ c \in CallsOf(p, k)
  BY CallParts DEF CallsOf
<1>1. \/ /\ call'[c].pc = "storing" /\ call'[c].version = v
         /\ call'[c].seen = call[c].seen
      \/ call'[c] = Idle
  BY GrantWrites
<1>2. Carries(call'[c])
  BY <1>1 DEF Carries, Idle
<1> SUFFICES ASSUME <<p, k>> \notin loose' PROVE PairOK(p, k)'
  BY <1>2 DEF Own, PairInv
<1>3. <<p, k>> \notin loose /\ (call'[c].pc = "storing" \/ beat[p][k] # "none")
  BY <1>1 DEF Granted, Return, DataOK, Idle
<1>4. PairOK(p, k)
  BY <1>0, <1>3 DEF KeepInv, PairInv
<1>5. \A d \in CallsOf(p, k) : d # c => Alike(d)
  BY DEF Elsewhere, CallsOf
<1>6. \A d \in CallsOf(p, k) : call[d].pc \notin InRelease
  BY <1>0, <1>4 DEF PairOK, InRelease
<1>7. \A d \in CallsOf(p, k) : call'[d].pc \notin InRelease
  BY <1>1, <1>5, <1>6 DEF Alike, InRelease, Idle
<1>8. Kept(p, k) => Kept(p, k)'
  BY <1>0, <1>5 DEF Kept, Alike
<1>9. Kept(p, k)'
  <2>1. CASE beat[p][k] # "none"
    BY <2>1 DEF Kept
  <2>2. CASE call'[c].pc = "storing" /\ ~call[c].seen
    BY <1>0, <1>1, <2>2 DEF Kept, Idle
  <2>3. CASE call[c].seen
    BY <1>0, <1>4, <1>8, <2>3 DEF PairOK
  <2> QED
    BY <1>3, <2>1, <2>2, <2>3
<1>10. \A d \in CallsOf(p, k) : call'[d].pc = "registering" => prev'[p][k]
  BY <1>1, <1>4, <1>5 DEF PairOK, Alike, Idle
<1>11. beat'[p][k] # "none" => prev'[p][k]
  BY <1>4, <1>6 DEF PairOK, InRelease
<1> QED
  BY <1>7, <1>9, <1>10, <1>11 DEF PairOK, InRelease

\* The lease enters the memory.
LEMMA StoreOwn ==
  ASSUME DataOK, KeepInv, UNCHANGED lockVars, NEW c \in Calls, Elsewhere(c),
         NEW next \in {"idle", "issuing"}, StoreLease(c, next)
  PROVE  Own(c)
<1> DEFINE p == c[1]  k == c[2]
<1>0. p \in Procs /\ k \in Keys /\ c \in CallsOf(p, k)
  BY CallParts DEF CallsOf
<1>1. call[c].pc = "storing" /\ call[c].version # 0
  BY DEF StoreLease, KeepInv, CallsCarry, Carries
<1>2. \/ /\ call'[c].pc = "registering" /\ call'[c].version = call[c].version
         /\ ~call[c].seen /\ ~call'[c].seen
      \/ /\ call[c].seen /\ call'[c].pc = "issuing"
         /\ call'[c].version = call[c].version /\ ~call'[c].seen
      \/ call[c].seen /\ call'[c] = Idle
  BY StepWrites, GoOnWrites DEF StoreLease
<1>3. Carries(call'[c])
  BY <1>1, <1>2 DEF Carries, Idle
<1> SUFFICES ASSUME <<p, k>> \notin loose' PROVE PairOK(p, k)'
  BY <1>3 DEF Own, PairInv
<1>4. prev'[p][k] /\ UNCHANGED <<beat, lease>>
  BY <1>0 DEF StoreLease, DataOK
<1>5. \A d \in CallsOf(p, k) : d # c => Alike(d)
  BY DEF Elsewhere, CallsOf
<1>6. \A d \in CallsOf(p, k) : call'[d].pc \notin InRelease
  <2>1. CASE <<p, k>> \notin loose
    <3>1. \A d \in CallsOf(p, k) : call[d].pc \notin InRelease
      BY <1>0, <1>1, <2>1 DEF KeepInv, PairInv, PairOK, InRelease
    <3> QED
      BY <1>2, <1>5, <3>1 DEF Alike, InRelease, Idle
  <2>2. CASE <<p, k>> \in loose
    <3>1. ~Dropping(p, k)
      BY <2>2 DEF StoreLease, Settled
    <3> QED
      BY <1>2, <1>5, <3>1 DEF Alike, InRelease, Dropping, Idle
  <2> QED
    BY <2>1, <2>2
<1>7. Kept(p, k)'
  <2>1. CASE <<p, k>> \in loose
    <3>1. beat'[p][k] # "none"
      BY <2>1 DEF StoreLease, Settled
    <3> QED
      BY <3>1 DEF Kept
  <2>2. CASE ~call[c].seen
    BY <1>0, <1>2, <2>2 DEF Kept
  <2>3. CASE call[c].seen /\ <<p, k>> \notin loose
    <3>1. Kept(p, k)
      BY <1>0, <2>3 DEF KeepInv, PairInv, PairOK
    <3> QED
      BY <1>4, <1>5, <2>3, <3>1 DEF Kept, Alike
  <2> QED
    BY <2>1, <2>2, <2>3
<1> QED
  BY <1>4, <1>6, <1>7 DEF PairOK, InRelease

\* The heartbeat is registered.
LEMMA RegisterOwn ==
  ASSUME DataOK, KeepInv, UNCHANGED lockVars, NEW c \in Calls, Elsewhere(c),
         NEW next \in {"idle", "issuing"}, Register(c, next)
  PROVE  Own(c)
<1> DEFINE p == c[1]  k == c[2]
<1>0. p \in Procs /\ k \in Keys /\ c \in CallsOf(p, k)
  BY CallParts DEF CallsOf
<1>1. call[c].pc = "registering" /\ call[c].version # 0
  BY DEF Register, KeepInv, CallsCarry, Carries
<1>2. \/ /\ call'[c].pc = "issuing" /\ call'[c].version = call[c].version
         /\ ~call'[c].seen
      \/ call'[c] = Idle
  BY GoOnWrites DEF Register
<1>3. Carries(call'[c])
  BY <1>1, <1>2 DEF Carries, Idle
<1> SUFFICES ASSUME <<p, k>> \notin loose' PROVE PairOK(p, k)'
  BY <1>3 DEF Own, PairInv
<1>4. beat'[p][k] # "none" /\ UNCHANGED <<prev, lease>>
  BY <1>0 DEF Register, DataOK
<1>5. \A d \in CallsOf(p, k) : d # c => Alike(d)
  BY DEF Elsewhere, CallsOf
<1>6. prev[p][k] /\ \A d \in CallsOf(p, k) : call'[d].pc \notin InRelease
  <2>1. CASE <<p, k>> \notin loose
    <3>1. prev[p][k] /\ \A d \in CallsOf(p, k) : call[d].pc \notin InRelease
      BY <1>0, <1>1, <2>1 DEF KeepInv, PairInv, PairOK, InRelease
    <3> QED
      BY <1>2, <1>5, <3>1 DEF Alike, InRelease, Idle
  <2>2. CASE <<p, k>> \in loose
    <3>1. prev'[p][k] /\ ~Dropping(p, k)
      BY <2>2 DEF Register, Settled
    <3> QED
      BY <1>2, <1>4, <1>5, <3>1 DEF Alike, InRelease, Dropping, Idle
  <2> QED
    BY <2>1, <2>2
<1>7. Kept(p, k)'
  BY <1>4 DEF Kept
<1> QED
  BY <1>4, <1>6, <1>7 DEF PairOK, InRelease

\* A release ends without a word to the memory.
LEMMA EndOwn ==
  ASSUME DataOK, KeepInv, UNCHANGED lockVars, NEW c \in Calls, Elsewhere(c),
         call[c].pc = "releasing", EndRelease(c), UNCHANGED <<prev, loose>>,
         lease' = lease \/ lease'[c[2]] = None
  PROVE  Own(c)
<1> DEFINE p == c[1]  k == c[2]
<1>0. p \in Procs /\ k \in Keys /\ c \in CallsOf(p, k)
  BY CallParts DEF CallsOf
<1>1. call'[c] = Idle
  BY ReturnWrites DEF EndRelease
<1>2. Carries(call'[c])
  BY <1>1 DEF Carries, Idle
<1> SUFFICES ASSUME <<p, k>> \notin loose PROVE PairOK(p, k)'
  BY <1>2 DEF Own, PairInv
<1>3. beat'[p][k] = "none" <=> beat[p][k] = "none"
  BY <1>0 DEF EndRelease, DataOK
<1>4. PairOK(p, k)
  BY <1>0 DEF KeepInv, PairInv
<1>5. \A d \in CallsOf(p, k) : d # c => Alike(d)
  BY DEF Elsewhere, CallsOf
<1>6. Kept(p, k) => Kept(p, k)'
  BY <1>3, <1>5 DEF Kept, Alike
<1>7. Owns(p, k)' => Owns(p, k)
  BY DEF Owns, Id, lockVars
<1>8. \A d \in CallsOf(p, k) :
        /\ call'[d].pc \in {call[d].pc, "idle"}
        /\ call'[d].seen => call[d].seen
        /\ call[d].pc = "stopping" => call'[d].pc = "stopping"
  BY <1>1, <1>5 DEF Alike, Idle
<1>9. \A d, e \in CallsOf(p, k) :
        call'[d].pc \in InRelease =>
          call'[e].pc \in {"idle", "releasing"} \cup InRelease
  BY <1>4, <1>8 DEF PairOK, InRelease
<1>10. \A d \in CallsOf(p, k) :
        /\ call'[d].pc = "registering" => prev'[p][k]
        /\ call'[d].pc = "stopping" => ~prev'[p][k]
        /\ call'[d].pc \in InRelease => ~Owns(p, k)'
        /\ call'[d].seen => Kept(p, k)'
  BY <1>4, <1>6, <1>7, <1>8 DEF PairOK, InRelease
<1>11. /\ beat'[p][k] # "none" =>
            prev'[p][k] \/ \E d \in CallsOf(p, k) : call'[d].pc = "stopping"
       /\ Owns(p, k)' /\ role'[p] # "down" => Kept(p, k)'
       /\ prev'[p][k] => Kept(p, k)'
  BY <1>3, <1>4, <1>6, <1>7, <1>8 DEF PairOK, lockVars
<1> QED
  BY <1>9, <1>10, <1>11 DEF PairOK

\* A release that goes on to the memory overlaps no call, or is on record.
LEMMA ReleaseOwn ==
  ASSUME DataOK, KeepInv, UNCHANGED lockVars, NEW c \in Calls, Elsewhere(c),
         ReleaseScript(c)
  PROVE  Own(c)
<1> DEFINE p == c[1]  k == c[2]
<1>0. p \in Procs /\ k \in Keys /\ c \in CallsOf(p, k)
  BY CallParts DEF CallsOf
<1>1. CASE EndRelease(c) /\ UNCHANGED loose
  <2>1. lease' = lease \/ lease'[k] = None
    BY <1>0, <1>1 DEF ReleaseScript, DataOK
  <2> QED
    BY <1>1, <2>1, EndOwn DEF ReleaseScript
<1>2. CASE /\ lease' = [lease EXCEPT ![k] = None]
           /\ Step(c, "popping")
           /\ loose' = IF \E d \in CallsOf(p, k) \ {c} : call[d].pc # "idle"
                       THEN loose \cup {<<p, k>>} ELSE loose
           /\ UNCHANGED <<beat, prev>>
  <2>1. /\ call'[c].pc = "popping" /\ call'[c].seen = call[c].seen
        /\ call'[c].version = call[c].version
    BY <1>2, StepWrites
  <2>2. Carries(call[c]) /\ call[c].pc = "releasing"
    BY DEF KeepInv, CallsCarry, ReleaseScript
  <2>3. Carries(call'[c]) /\ ~call'[c].seen
    BY <2>1, <2>2 DEF Carries
  <2> SUFFICES ASSUME <<p, k>> \notin loose' PROVE PairOK(p, k)'
    BY <2>3 DEF Own, PairInv
  <2>4. /\ <<p, k>> \notin loose
        /\ \A d \in CallsOf(p, k) : d # c => call[d].pc = "idle"
    BY <1>2
  <2>5. PairOK(p, k)
    BY <1>0, <2>4 DEF KeepInv, PairInv
  <2>6. \A d \in CallsOf(p, k) : d # c => call'[d].pc = "idle" /\ ~call'[d].seen
    BY <2>4 DEF Elsewhere, CallsOf, Alike, KeepInv, CallsCarry, Carries
  <2>7. ~Owns(p, k)'
    BY <1>0, <1>2 DEF Owns, DataOK
  <2>8. /\ beat[p][k] # "none" => prev[p][k]
        /\ prev[p][k] => beat[p][k] # "none"
    BY <2>2, <2>4, <2>5 DEF PairOK, Kept
  <2>9. prev'[p][k] => Kept(p, k)'
    BY <1>2, <2>8 DEF Kept
  <2> QED
    BY <1>2, <2>1, <2>3, <2>6, <2>7, <2>8, <2>9 DEF PairOK, InRelease
<1> QED
  BY <1>1, <1>2 DEF ReleaseScript

\* The lease leaves the memory, and then its heartbeat is gone.
LEMMA PopOwn ==
  ASSUME DataOK, KeepInv, UNCHANGED lockVars, NEW c \in Calls, Elsewhere(c),
         PopLease(c)
  PROVE  Own(c)
<1> DEFINE p == c[1]  k == c[2]
<1>0. p \in Procs /\ k \in Keys /\ c \in CallsOf(p, k)
  BY CallParts DEF CallsOf
<1>1. /\ call[c].pc = "popping" /\ call'[c].pc = "stopping"
      /\ call'[c].seen = call[c].seen /\ call'[c].version = call[c].version
  BY StepWrites DEF PopLease
<1>2. Carries(call'[c]) /\ ~call'[c].seen
  BY <1>1 DEF KeepInv, CallsCarry, Carries
<1> SUFFICES ASSUME <<p, k>> \notin loose PROVE PairOK(p, k)'
  BY <1>2 DEF Own, PairInv, PopLease
<1>3. PairOK(p, k)
  BY <1>0 DEF KeepInv, PairInv
<1>4. \A d \in CallsOf(p, k) : d # c => Alike(d)
  BY DEF Elsewhere, CallsOf
<1>5. \A d \in CallsOf(p, k) :
        call[d].pc \in {"idle", "releasing"} \cup InRelease /\ ~call[d].seen
  <2>1. \A d \in CallsOf(p, k) : call[d].pc \in {"idle", "releasing"} \cup InRelease
    BY <1>0, <1>1, <1>3 DEF PairOK, InRelease
  <2> QED
    BY <2>1 DEF KeepInv, CallsCarry, Carries, InRelease, CallsOf
<1>6. \A d \in CallsOf(p, k) :
        call'[d].pc \in {"idle", "releasing"} \cup InRelease /\ ~call'[d].seen
  BY <1>1, <1>2, <1>4, <1>5 DEF Alike, InRelease
<1>7. ~prev'[p][k] /\ UNCHANGED lease /\ ~Owns(p, k)'
  BY <1>0, <1>1, <1>3 DEF PopLease, DataOK, PairOK, Owns, Id, lockVars, InRelease
<1> QED
  BY <1>0, <1>1, <1>6, <1>7 DEF PairOK, InRelease

LEMMA StopOwn ==
  ASSUME DataOK, KeepInv, UNCHANGED lockVars, NEW c \in Calls, Elsewhere(c),
         StopBeat(c)
  PROVE  Own(c)
<1> DEFINE p == c[1]  k == c[2]
<1>0. p \in Procs /\ k \in Keys /\ c \in CallsOf(p, k)
  BY CallParts DEF CallsOf
<1>1. call[c].pc = "stopping" /\ call'[c] = Idle
  BY StoppedWrites DEF StopBeat
<1>2. Carries(call'[c])
  BY <1>1 DEF Carries, Idle
<1> SUFFICES ASSUME <<p, k>> \notin loose PROVE PairOK(p, k)'
  BY <1>2 DEF Own, PairInv, StopBeat
<1>3. PairOK(p, k)
  BY <1>0 DEF KeepInv, PairInv
<1>4. \A d \in CallsOf(p, k) : d # c => Alike(d)
  BY DEF Elsewhere, CallsOf
<1>5. \A d \in CallsOf(p, k) :
        call[d].pc \in {"idle", "releasing"} \cup InRelease /\ ~call[d].seen
  <2>1. \A d \in CallsOf(p, k) : call[d].pc \in {"idle", "releasing"} \cup InRelease
    BY <1>0, <1>1, <1>3 DEF PairOK, InRelease
  <2> QED
    BY <2>1 DEF KeepInv, CallsCarry, Carries, InRelease, CallsOf
<1>6. \A d \in CallsOf(p, k) :
        call'[d].pc \in {"idle", "releasing"} \cup InRelease /\ ~call'[d].seen
  BY <1>1, <1>4, <1>5 DEF Alike, InRelease, Idle
<1>7. ~prev[p][k] /\ ~Owns(p, k)
  BY <1>0, <1>1, <1>3 DEF PairOK, InRelease
<1>8. ~prev'[p][k] /\ ~Owns(p, k)' /\ beat'[p][k] = "none"
  BY <1>0, <1>7 DEF StopBeat, DataOK, Owns, Id, lockVars
<1> QED
  BY <1>6, <1>8 DEF PairOK, InRelease

\* Every step of a call.
LEMMA CallOwn ==
  ASSUME IInv, UNCHANGED lockVars, NEW c \in Calls, CallStep(c)
  PROVE  Own(c)
<1> DEFINE p == c[1]  k == c[2]
<1>0. p \in Procs /\ k \in Keys
  BY CallParts
<1>t. DataOK /\ KeepInv /\ Elsewhere(c) /\ Carries(call[c])
  BY CallElsewhere DEF IInv, KeepInv, CallsCarry
<1> HIDE DEF p, k
<1>1. CASE BeginCall(c) \/ BeginRelease(c)
  <2>1. PICK pc \in {"asserted", "releasing"} : Step(c, pc)
    BY <1>1 DEF BeginCall, BeginRelease
  <2>2. call'[c].pc = pc /\ Carries(call'[c]) /\ call[c].pc = "idle" /\ ~call'[c].seen
    BY <1>1, <1>t, <2>1, StepWrites DEF BeginCall, BeginRelease, Carries
  <2>3. /\ loose \subseteq loose'
        /\ <<p, k>> \in loose' \/ pc = "releasing" \/ ~Dropping(p, k)
    BY <1>1, <2>2, <2>1, StepWrites, <1>t DEF BeginCall, BeginRelease, Overlapping, p, k
  <2> QED
    BY <1>1, <1>t, <2>2, <2>3, QuietOwn DEF BeginCall, BeginRelease, InRelease, p, k
<1>2. CASE ReadHeld(c)
  <2>1. /\ call'[c].pc = "leasing" /\ call'[c].seen = prev[p][k]
        /\ call'[c].version = call[c].version
    BY <1>2, <1>t DEF ReadHeld, DataOK, Call, p, k
  <2>2. Carries(call'[c])
    BY <1>2, <1>t, <2>1 DEF Carries, ReadHeld
  <2> QED
    BY <1>2, <1>t, <2>1, <2>2, QuietOwn DEF ReadHeld, InRelease, p, k
<1>r. ASSUME Return(c), UNCHANGED <<lease, prev, beat, loose>>,
             call[c].pc \notin {"storing", "registering"} \cup InRelease
      PROVE  Own(c)
  <2>1. Carries(call'[c]) /\ call'[c].pc = "idle" /\ ~call'[c].seen
    BY <1>r, <1>t, ReturnWrites DEF Carries, Idle
  <2>2. call'[c].pc \notin {"registering"} \cup InRelease
    BY <2>1 DEF InRelease
  <2> QED
    BY <1>r, <1>t, <2>1, <2>2, QuietOwn
<1>s. ASSUME NEW pc \in {"contended", "forcing"}, Step(c, pc),
             UNCHANGED <<lease, prev, beat, loose>>,
             call[c].pc \in {"leasing", "contended"}, ~call[c].seen
      PROVE  Own(c)
  <2>1. call'[c].pc = pc /\ Carries(call'[c]) /\ ~call'[c].seen
    BY <1>s, <1>t, StepWrites DEF Carries
  <2> QED
    BY <1>s, <1>t, <2>1, QuietOwn DEF InRelease
<1>3. CASE RunLeaseScript(c)
  <2>1. CASE Granted(c, generation + 1)
    BY <1>0, <1>3, <1>t, <2>1, GrantOwn, VersionsPositive DEF RunLeaseScript
  <2>2. CASE Owns(p, k) /\ Granted(c, RenewedVersion(k))
    <3>1. RenewedVersion(k) # 0
      BY <1>0, <2>2, VersionsPositive DEF Owns
    <3> QED
      BY <1>3, <1>t, <2>2, <3>1, GrantOwn DEF RunLeaseScript
  <2>3. CASE ~call[c].seen /\ Step(c, "contended") /\ UNCHANGED <<lease, loose>>
    BY <1>3, <1>s, <2>3 DEF RunLeaseScript
  <2>4. CASE Raised(c)
    BY <1>3, <1>r, <2>4 DEF RunLeaseScript, Raised, InRelease
  <2> QED
    BY <1>3, <2>1, <2>2, <2>3, <2>4 DEF RunLeaseScript, p, k
<1>4. CASE TakeOver(c)
  <2>1. CASE Granted(c, generation + 1)
    BY <1>0, <1>4, <1>t, <2>1, GrantOwn, VersionsPositive DEF TakeOver
  <2>2. CASE Owns(p, k) /\ Granted(c, RenewedVersion(k))
    <3>1. RenewedVersion(k) # 0
      BY <1>0, <2>2, VersionsPositive DEF Owns
    <3> QED
      BY <1>4, <1>t, <2>2, <3>1, GrantOwn DEF TakeOver
  <2>3. CASE Raised(c)
    BY <1>4, <1>r, <2>3 DEF TakeOver, Raised, InRelease
  <2> QED
    BY <1>4, <2>1, <2>2, <2>3 DEF TakeOver, p, k
<1>5. CASE Reassert(c)
  <2>1. ~call[c].seen
    BY <1>5, <1>t DEF Reassert, Carries
  <2> QED
    BY <1>5, <1>r, <1>s, <2>1 DEF Reassert, InRelease
<1>6. ASSUME (\E floor \in Floors : Issue(c, floor)) \/ Reject(c) PROVE Own(c)
  BY <1>6, <1>r DEF Issue, Reject, InRelease
<1>7. ASSUME NEW next \in {"idle", "issuing"}, StoreLease(c, next) \/ Register(c, next)
      PROVE  Own(c)
  BY <1>7, <1>t, StoreOwn, RegisterOwn
<1>8. CASE ReleaseScript(c) \/ PopLease(c) \/ StopBeat(c)
  BY <1>8, <1>t, ReleaseOwn, PopOwn, StopOwn
<1> QED
  BY <1>1, <1>2, <1>3, <1>4, <1>5, <1>6, <1>7, <1>8 DEF CallStep

\* A step of a call grants leases to no other process.
LEMMA CallOwners ==
  ASSUME DataOK, NEW c \in Calls, CallStep(c), lease'[c[2]] # None
  PROVE  \/ lease'[c[2]].owner = Id(c[1])
         \/ lease[c[2]] # None /\ lease'[c[2]].owner = lease[c[2]].owner
<1>0. c[2] \in Keys
  BY CallParts
<1>1. CASE UNCHANGED lease
  BY <1>1
<1>2. CASE \E v : Granted(c, v)
  BY <1>0, <1>2 DEF Granted, DataOK
<1>3. CASE ReleaseScript(c)
  BY <1>0, <1>3 DEF ReleaseScript, DataOK
<1> QED
  BY <1>1, <1>2, <1>3 DEF CallStep, BeginCall, BeginRelease, ReadHeld, RunLeaseScript,
     Raised, Reassert, TakeOver, StoreLease, Register, Issue, Reject, PopLease, StopBeat

LEMMA CallKeeps ==
  ASSUME IInv, UNCHANGED lockVars, NEW c \in Calls, CallStep(c)
  PROVE  KeepInv'
<1> DEFINE p == c[1]  k == c[2]
<1>0. p \in Procs /\ k \in Keys
  BY CallParts
<1>1. DataOK /\ KeepInv /\ LockTypeOK /\ Elsewhere(c) /\ Own(c)
  BY CallElsewhere, CallOwn DEF IInv
<1>2. role[p] # "down"
  BY <1>1 DEF KeepInv, DownIsEmpty, CallStep, BeginCall, BeginRelease, ReadHeld,
     RunLeaseScript, Reassert, TakeOver, StoreLease, Register, Issue, Reject,
     ReleaseScript, PopLease, StopBeat
<1>3. CallsCarry'
  BY <1>1 DEF KeepInv, CallsCarry, Elsewhere, Own, Alike, Carries
<1>4. DownIsEmpty'
  <2>1. ASSUME NEW q \in Procs, NEW j \in Keys, role[q] = "down"
        PROVE  ~prev'[q][j] /\ beat'[q][j] = "none"
    <3>1. q # c[1]
      BY <1>2, <2>1
    <3>2. ~prev[q][j] /\ beat[q][j] = "none"
      BY <1>1, <2>1 DEF KeepInv, DownIsEmpty
    <3>3. prev'[q][j] = prev[q][j] /\ beat'[q][j] = beat[q][j]
      BY <1>1, <3>1 DEF Elsewhere
    <3> QED
      BY <3>2, <3>3
  <2>2. ASSUME NEW d \in Calls, role[d[1]] = "down" PROVE call'[d].pc = "idle"
    BY <1>1, <1>2, <2>2 DEF KeepInv, DownIsEmpty, Elsewhere, Alike
  <2> QED
    BY <2>1, <2>2 DEF DownIsEmpty, lockVars
<1>5. OwnersBooted'
  <2>1. \A j \in Keys : j # k => lease'[j] = lease[j]
    BY <1>1 DEF Elsewhere
  <2>2. boot[p] \in Nat
    BY <1>0, <1>1 DEF LockTypeOK
  <2>3. lease'[k] # None => \/ lease'[k].owner = <<p, boot[p]>>
                            \/ lease[k] # None /\ lease'[k].owner = lease[k].owner
    BY <1>1, CallOwners DEF Id
  <2> HIDE DEF p, k
  <2> QED
    BY <1>0, <1>1, <2>1, <2>2, <2>3 DEF KeepInv, OwnersBooted, lockVars
<1>6. ASSUME NEW q \in Procs, NEW j \in Keys PROVE PairInv(q, j)'
  <2>1. CASE q = p /\ j = k
    BY <1>1, <2>1 DEF Own
  <2>2. CASE q # p \/ j # k
    <3>1. c \notin CallsOf(q, j)
      BY <2>2 DEF CallsOf
    <3>2. \A d \in CallsOf(q, j) :
            call'[d].pc = call[d].pc /\ call'[d].seen = call[d].seen
      BY <1>1, <3>1 DEF Elsewhere, Alike, CallsOf
    <3>3. Owns(q, j)' => Owns(q, j)
      <4>1. CASE j # k
        BY <1>1, <4>1 DEF Elsewhere, Owns, Id, lockVars
      <4>2. CASE j = k
        <5>1. q # p
          BY <2>2, <4>2
        <5> QED
          BY <1>1, <4>2, <5>1, CallOwners DEF Owns, Id, lockVars
      <4> QED
        BY <4>1, <4>2
    <3>4. PairInv(q, j) /\ prev'[q][j] = prev[q][j] /\ beat'[q][j] = beat[q][j]
          /\ (<<q, j>> \in loose => <<q, j>> \in loose')
      BY <1>1, <2>2 DEF KeepInv, Elsewhere
    <3> QED
      BY <3>2, <3>3, <3>4, PairFrame DEF lockVars
  <2> QED
    BY <2>1, <2>2
<1> QED
  BY <1>3, <1>4, <1>5, <1>6 DEF KeepInv

-----------------------------------------------------------------------------
(* Versions and nonces.                                                    *)

\* Whatever a step does to a lease, it is one of four things: nothing, the loss of
\* the lease, the loss of its version, or a grant to the owner under a version
\* that is either the renewed one or newer than all drawn before.
LeaseMoves(k) ==
  \/ lease'[k] = lease[k] /\ generation' = generation
  \/ lease'[k] = None
  \/ /\ lease[k] # None
     /\ lease'[k] = [lease[k] EXCEPT !.version = 0]
     /\ generation' = generation
  \/ /\ lease[k] # None
     /\ lease'[k] = [owner |-> lease[k].owner, version |-> RenewedVersion(k)]
     /\ generation' = generation
  \/ /\ \E o \in Identities : lease'[k] = [owner |-> o, version |-> generation + 1]
     /\ generation' = generation + 1

\* Such a move keeps the versions advancing, when nothing is issued and the counter
\* does not run back.
LEMMA MoveAdvances ==
  ASSUME DataOK, NEW k \in Keys, LeaseInv(k), LeaseMoves(k),
         generation' \in Nat, generation' >= generation,
         issued'[k].version = issued[k].version,
         issued'[k].owner = issued[k].owner,
         issued'[k].nonce \in Nat, nonce'[k] \in Nat,
         issued'[k].nonce <= nonce'[k]
  PROVE  LeaseInv(k)'
<1>1. issued[k].version \in Nat /\ generation \in Nat
  BY DEF DataOK, Issued
<1>2. lease[k] # None => lease[k] \in Lease /\ lease[k].version \in Nat
  BY LeaseType
<1>3. CASE lease'[k] = lease[k] /\ generation' = generation
  BY <1>1, <1>2, <1>3 DEF LeaseInv, RenewedVersion
<1>4. CASE lease'[k] = None
  BY <1>1, <1>4 DEF LeaseInv
<1>5. CASE /\ lease[k] # None
           /\ lease'[k] = [lease[k] EXCEPT !.version = 0]
           /\ generation' = generation
  <2>1. lease'[k].version = 0 /\ lease'[k].owner = lease[k].owner
    BY <1>2, <1>5 DEF Lease
  <2>2. generation > 0 /\ issued[k].version <= generation
    BY <1>5 DEF LeaseInv
  <2>3. lease[k].owner # issued[k].owner => issued[k].version < generation
    BY <1>1, <1>2, <1>5 DEF LeaseInv, RenewedVersion
  <2> QED
    BY <1>1, <1>5, <2>1, <2>2, <2>3 DEF LeaseInv, RenewedVersion
<1>6. CASE /\ lease[k] # None
           /\ lease'[k] = [owner |-> lease[k].owner, version |-> RenewedVersion(k)]
           /\ generation' = generation
  <2>1. lease'[k].version = RenewedVersion(k) /\ lease'[k].owner = lease[k].owner
    BY <1>6
  <2> QED
    BY <1>1, <1>2, <1>6, <2>1 DEF LeaseInv, RenewedVersion
<1>7. CASE /\ \E o \in Identities : lease'[k] = [owner |-> o, version |-> generation + 1]
           /\ generation' = generation + 1
  <2>1. lease'[k].version = generation + 1
    BY <1>7
  <2> QED
    BY <1>1, <1>7, <2>1 DEF LeaseInv, RenewedVersion
<1> QED
  BY <1>3, <1>4, <1>5, <1>6, <1>7 DEF LeaseMoves

\* The keys that a step leaves alone, while another key draws a version.
LEMMA OtherAdvances ==
  ASSUME DataOK, NEW k \in Keys, LeaseInv(k), lease'[k] = lease[k],
         generation' \in Nat, generation' >= generation,
         issued'[k] = issued[k], nonce'[k] = nonce[k]
  PROVE  LeaseInv(k)'
<1>1. /\ issued[k].version \in Nat /\ generation \in Nat
      /\ lease[k] # None => lease[k].version \in Nat
  BY LeaseType DEF DataOK, Issued
<1> QED
  BY <1>1 DEF LeaseInv, RenewedVersion

\* A step of a call other than an issue moves the lease of its key.
LEMMA CallMoves ==
  ASSUME IInv, NEW c \in Calls, CallStep(c),
         \A floor \in Floors : ~Issue(c, floor)
  PROVE  /\ LeaseMoves(c[2])
         /\ \A j \in Keys : j # c[2] => lease'[j] = lease[j]
         /\ generation' \in Nat /\ generation' >= generation
         /\ UNCHANGED <<issued, nonce>>
<1> DEFINE p == c[1]  k == c[2]
<1>0. p \in Procs /\ k \in Keys /\ Id(p) \in Identities
  BY CallParts, IdType DEF IInv
<1>t. DataOK /\ generation \in Nat
  BY DEF IInv, DataOK
<1> HIDE DEF p, k
<1>g. ASSUME NEW v \in Nat, Granted(c, v)
      PROVE  /\ lease'[k] = [owner |-> Id(p), version |-> v]
             /\ \A j \in Keys : j # k => lease'[j] = lease[j]
  BY <1>g, <1>0, <1>t DEF Granted, DataOK, p, k
<1>n. ASSUME Granted(c, generation + 1), generation' = generation + 1
      PROVE  /\ LeaseMoves(k)
             /\ \A j \in Keys : j # k => lease'[j] = lease[j]
             /\ generation' \in Nat /\ generation' >= generation
  <2>1. /\ lease'[k] = [owner |-> Id(p), version |-> generation + 1]
        /\ \A j \in Keys : j # k => lease'[j] = lease[j]
    BY <1>n, <1>g, <1>t
  <2>2. LeaseMoves(k)
    BY <1>n, <1>0, <2>1 DEF LeaseMoves
  <2> QED
    BY <1>n, <1>t, <2>1, <2>2
<1>o. ASSUME Owns(p, k), Granted(c, RenewedVersion(k)), generation' = generation
      PROVE  /\ LeaseMoves(k)
             /\ \A j \in Keys : j # k => lease'[j] = lease[j]
             /\ generation' \in Nat /\ generation' >= generation
  <2>1. RenewedVersion(k) \in Nat /\ lease[k] # None /\ lease[k].owner = Id(p)
    BY <1>o, <1>0, <1>t, LeaseType DEF Owns
  <2> QED
    BY <1>o, <1>g, <1>t, <2>1 DEF LeaseMoves
<1>c. ASSUME UNCHANGED <<lease, generation>>
      PROVE  /\ LeaseMoves(k)
             /\ \A j \in Keys : j # k => lease'[j] = lease[j]
             /\ generation' \in Nat /\ generation' >= generation
  BY <1>c, <1>t DEF LeaseMoves
<1>1. CASE RunLeaseScript(c)
  BY <1>1, <1>n, <1>o, <1>c DEF RunLeaseScript, Raised, p, k
<1>2. CASE TakeOver(c)
  BY <1>2, <1>n, <1>o, <1>c DEF TakeOver, Raised, p, k
<1>3. CASE ReleaseScript(c)
  <2>1. CASE lease' = [lease EXCEPT ![k] = None]
    BY <1>3, <1>0, <1>t, <2>1 DEF ReleaseScript, LeaseMoves, DataOK, k
  <2>2. CASE UNCHANGED lease
    BY <1>3, <2>2, <1>c DEF ReleaseScript, k
  <2> QED
    BY <1>3, <2>1, <2>2 DEF ReleaseScript, k
<1>4. CASE \/ BeginCall(c) \/ ReadHeld(c) \/ Reassert(c) \/ Reject(c)
           \/ BeginRelease(c) \/ PopLease(c) \/ StopBeat(c)
           \/ \E next \in {"idle", "issuing"} :
                StoreLease(c, next) \/ Register(c, next)
  BY <1>4, <1>c DEF BeginCall, ReadHeld, Reassert, Reject, BeginRelease, PopLease,
     StopBeat, StoreLease, Register, k
<1> QED
  BY <1>1, <1>2, <1>3, <1>4 DEF CallStep

\* An issue takes the version of the lease and a nonce above all before.
LEMMA IssueFacts ==
  ASSUME IInv, NEW c \in Calls, NEW floor \in Floors, Issue(c, floor)
  PROVE  LET k == c[2] IN
         /\ k \in Keys
         /\ UNCHANGED <<lease, generation>>
         /\ \A j \in Keys : j # k => issued'[j] = issued[j] /\ nonce'[j] = nonce[j]
         /\ issued'[k].nonce \in Nat /\ nonce'[k] = issued'[k].nonce
         /\ issued'[k].nonce > issued[k].nonce
         /\ lease[k] # None /\ lease[k].version # 0 /\ lease[k].version \in Nat
         /\ issued'[k].version = lease[k].version
         /\ issued'[k].owner = lease[k].owner
<1> DEFINE k == c[2]
<1>0. k \in Keys
  BY CallParts
<1>t. DataOK /\ issued[k] \in Issued /\ nonce[k] \in Nat
  BY <1>0 DEF IInv, DataOK
<1>1. /\ lease[k] # None /\ lease[k].owner = Id(c[1])
      /\ lease[k].version = call[c].version
      /\ call[c].pc = "issuing"
  BY DEF Issue, Fenced, Owns
<1>2. lease[k].version # 0 /\ lease[k].version \in Nat
  BY <1>0, <1>1, <1>t, LeaseType DEF IInv, KeepInv, CallsCarry, Carries
<1>3. PICK n : /\ n = Larger(nonce[k] + 1, floor)
               /\ nonce' = [nonce EXCEPT ![k] = n]
               /\ issued' = [issued EXCEPT ![k] =
                    [nonce |-> n, version |-> lease[k].version, owner |-> Id(c[1])]]
  BY DEF Issue
<1>4. n \in Nat /\ n > nonce[k]
  BY <1>3, <1>t, FloorsAssumption DEF Larger
<1>5. issued[k].nonce <= nonce[k] /\ issued[k].nonce \in Nat
  BY <1>0, <1>t DEF IInv, VersionsAdvance, LeaseInv, Issued
<1>6. n > issued[k].nonce
  BY <1>4, <1>5, <1>t
<1>7. /\ nonce'[k] = n
      /\ issued'[k] = [nonce |-> n, version |-> lease[k].version, owner |-> Id(c[1])]
      /\ \A j \in Keys : j # k => issued'[j] = issued[j] /\ nonce'[j] = nonce[j]
  BY <1>0, <1>3, <1>t DEF DataOK
<1>8. UNCHANGED <<lease, generation>>
  BY DEF Issue
<1> QED
  BY <1>0, <1>1, <1>2, <1>4, <1>6, <1>7, <1>8

\* A step on a key moves its lease; a recovery or a rotation leaves the versions
\* alone and the nonce at or above the last one issued.
LEMMA KeyMoves ==
  ASSUME IInv, NEW k \in Keys, KeyStep(k)
  PROVE  /\ LeaseMoves(k)
         /\ generation' = generation
         /\ \A j \in Keys : j # k => /\ lease'[j] = lease[j]
                                     /\ issued'[j] = issued[j]
                                     /\ nonce'[j] = nonce[j]
         /\ issued'[k].version = issued[k].version
         /\ issued'[k].owner = issued[k].owner
         /\ issued'[k].nonce \in {0, issued[k].nonce}
         /\ issued'[k].nonce = 0 \/ issued'[k] = issued[k]
         /\ nonce'[k] \in Nat /\ issued'[k].nonce <= nonce'[k]
<1>t. DataOK /\ issued[k] \in Issued /\ nonce[k] \in Nat
  BY DEF IInv, DataOK
<1>i. issued[k].nonce <= nonce[k] /\ issued[k].nonce \in Nat
  BY <1>t DEF IInv, VersionsAdvance, LeaseInv, Issued
<1>1. CASE UNCHANGED <<issued, nonce, generation>> /\ LeaseMoves(k)
           /\ \A j \in Keys : j # k => lease'[j] = lease[j]
  BY <1>1, <1>t, <1>i
<1>3. ASSUME ExpireLease(k)
      PROVE  UNCHANGED <<issued, nonce, generation>> /\ LeaseMoves(k)
             /\ \A j \in Keys : j # k => lease'[j] = lease[j]
  BY <1>3, <1>t DEF ExpireLease, LeaseMoves, DataOK
<1>4. ASSUME EvictVersion(k)
      PROVE  UNCHANGED <<issued, nonce, generation>> /\ LeaseMoves(k)
             /\ \A j \in Keys : j # k => lease'[j] = lease[j]
  BY <1>4, <1>t DEF EvictVersion, LeaseMoves, DataOK
<1>5. ASSUME NEW floor \in Floors, AdvanceToFloor(k, floor)
      PROVE  /\ UNCHANGED <<issued, lease, generation>>
             /\ nonce'[k] \in Nat /\ nonce'[k] >= nonce[k]
             /\ \A j \in Keys : j # k => nonce'[j] = nonce[j]
  <2>1. floor \in Nat
    BY FloorsAssumption
  <2> QED
    BY <1>5, <1>t, <2>1 DEF AdvanceToFloor, Larger, DataOK
<1>6. ASSUME NEW floor \in Floors, ResetKey(k, floor)
      PROVE  /\ UNCHANGED <<lease, generation>>
             /\ nonce'[k] \in Nat
             /\ issued'[k].nonce = 0
             /\ issued'[k].version = issued[k].version
             /\ issued'[k].owner = issued[k].owner
             /\ \A j \in Keys : j # k => nonce'[j] = nonce[j] /\ issued'[j] = issued[j]
  <2>1. floor \in Nat
    BY FloorsAssumption
  <2>2. PICK r \in Issued : r = issued[k]
    BY <1>t
  <2>3. issued' = [issued EXCEPT ![k] = [r EXCEPT !.nonce = 0]]
    BY <1>6, <2>2 DEF ResetKey
  <2>4. issued'[k] = [r EXCEPT !.nonce = 0]
    BY <1>t, <2>3 DEF DataOK
  <2>5. /\ issued'[k].nonce = 0
        /\ issued'[k].version = issued[k].version
        /\ issued'[k].owner = issued[k].owner
    BY <2>2, <2>4 DEF Issued
  <2> QED
    BY <1>6, <1>t, <2>1, <2>3, <2>5 DEF ResetKey, DataOK
<1>7. ASSUME NEW floor \in Floors, AdvanceToFloor(k, floor) \/ ResetKey(k, floor)
      PROVE  LeaseMoves(k) /\ nonce'[k] \in Nat /\ issued'[k].nonce <= nonce'[k]
             /\ (issued'[k].nonce = 0 \/ issued'[k] = issued[k])
  BY <1>5, <1>6, <1>7, <1>t, <1>i DEF LeaseMoves
<1> QED
  BY <1>1, <1>3, <1>4, <1>5, <1>6, <1>7 DEF KeyStep

-----------------------------------------------------------------------------
(* Invariance.                                                             *)

\* The steps of the specification, sorted by the lemmas above.
LEMMA Steps ==
  ASSUME [Next]_vars
  PROVE  \/ \E p \in Procs : LockStep(p) /\ UNCHANGED leaseVars
         \/ LockExpiry /\ UNCHANGED leaseVars
         \/ \E p \in Procs : LockEnd(p) /\ EndCalls(p)
         \/ \E c \in Calls : CallStep(c) /\ UNCHANGED lockVars
         \/ \E k \in Keys : KeyStep(k) /\ UNCHANGED lockVars
         \/ UNCHANGED lockVars /\ UNCHANGED leaseVars
BY Zenon DEF Next, vars

\* Versions advance under every step.
LEMMA VersionsKeepAdvancing ==
  ASSUME IInv, DataOK', [Next]_vars
  PROVE  VersionsAdvance'
<1>t. DataOK /\ VersionsAdvance /\ generation \in Nat
  BY DEF IInv, DataOK
<1>n. \A k \in Keys : issued[k].nonce <= nonce[k] /\ issued'[k].nonce \in Nat
                     /\ nonce'[k] \in Nat
  BY <1>t DEF VersionsAdvance, LeaseInv, DataOK, Issued
<1>s. ASSUME UNCHANGED <<lease, generation, nonce, issued>>
      PROVE  VersionsAdvance'
  BY <1>s, <1>t, OtherAdvances DEF VersionsAdvance
<1>1. CASE \/ \E p \in Procs : LockEnd(p) /\ EndCalls(p)
           \/ UNCHANGED leaseVars
  BY <1>1, <1>s DEF leaseVars, EndCalls
<1>2. ASSUME NEW c \in Calls, CallStep(c), \A floor \in Floors : ~Issue(c, floor)
      PROVE  VersionsAdvance'
  <2>1. /\ LeaseMoves(c[2])
        /\ \A j \in Keys : j # c[2] => lease'[j] = lease[j]
        /\ generation' \in Nat /\ generation' >= generation
        /\ UNCHANGED <<issued, nonce>>
    BY <1>2, CallMoves
  <2>2. ASSUME NEW k \in Keys PROVE LeaseInv(k)'
    <3>1. LeaseInv(k)
      BY <1>t DEF VersionsAdvance
    <3>2. CASE k = c[2]
      BY <1>t, <1>n, <2>1, <3>1, <3>2, MoveAdvances
    <3>3. CASE k # c[2]
      BY <1>t, <2>1, <3>1, <3>3, OtherAdvances
    <3> QED
      BY <3>2, <3>3
  <2> QED
    BY <2>2 DEF VersionsAdvance
<1>3. ASSUME NEW c \in Calls, NEW floor \in Floors, Issue(c, floor)
      PROVE  VersionsAdvance'
  <2> DEFINE k == c[2]
  <2>1. /\ k \in Keys
        /\ UNCHANGED <<lease, generation>>
        /\ \A j \in Keys : j # k => issued'[j] = issued[j] /\ nonce'[j] = nonce[j]
        /\ issued'[k].nonce \in Nat /\ nonce'[k] = issued'[k].nonce
        /\ lease[k] # None /\ lease[k].version # 0 /\ lease[k].version \in Nat
        /\ issued'[k].version = lease[k].version
        /\ issued'[k].owner = lease[k].owner
    BY <1>3, IssueFacts
  <2> HIDE DEF k
  <2>2. ASSUME NEW j \in Keys PROVE LeaseInv(j)'
    <3>1. LeaseInv(j)
      BY <1>t DEF VersionsAdvance
    <3>2. CASE j = k
      BY <1>t, <2>1, <3>1, <3>2 DEF LeaseInv
    <3>3. CASE j # k
      BY <1>t, <2>1, <3>1, <3>3, OtherAdvances
    <3> QED
      BY <3>2, <3>3
  <2> QED
    BY <2>2 DEF VersionsAdvance
<1>4. ASSUME NEW k \in Keys, KeyStep(k) PROVE VersionsAdvance'
  <2>1. /\ LeaseMoves(k)
        /\ generation' = generation
        /\ \A j \in Keys : j # k => /\ lease'[j] = lease[j]
                                    /\ issued'[j] = issued[j]
                                    /\ nonce'[j] = nonce[j]
        /\ issued'[k].version = issued[k].version
        /\ issued'[k].owner = issued[k].owner
        /\ nonce'[k] \in Nat /\ issued'[k].nonce <= nonce'[k]
    BY <1>4, KeyMoves
  <2>2. ASSUME NEW j \in Keys PROVE LeaseInv(j)'
    <3>1. LeaseInv(j)
      BY <1>t DEF VersionsAdvance
    <3>2. CASE j = k
      BY <1>t, <1>n, <2>1, <3>1, <3>2, MoveAdvances
    <3>3. CASE j # k
      BY <1>t, <2>1, <3>1, <3>3, OtherAdvances
    <3> QED
      BY <3>2, <3>3
  <2> QED
    BY <2>2 DEF VersionsAdvance
<1> QED
  BY <1>1, <1>2, <1>3, <1>4, Steps

\* The initial states satisfy the inductive invariant.
LEMMA InitIInv == Init => IInv
<1> SUFFICES ASSUME Init PROVE IInv
  OBVIOUS
<1>1. LockTypeOK
  BY DEF Init, LockInit, LockTypeOK, Roles
<1>2. DataOK
  BY DEF Init, NonceInit, DataOK, Call, Idle, CallPCs, Issued
<1>3. KeepInv
  <2>1. \A c \in Calls : call[c] = Idle
    BY DEF Init, NonceInit
  <2>2. \A p \in Procs, k \in Keys : beat[p][k] = "none" /\ ~prev[p][k]
    BY DEF Init, NonceInit
  <2>3. \A k \in Keys : lease[k] = None
    BY DEF Init, NonceInit
  <2>4. CallsCarry /\ DownIsEmpty /\ OwnersBooted
    BY <2>1, <2>2, <2>3 DEF CallsCarry, Carries, DownIsEmpty, OwnersBooted, Idle
  <2>5. ASSUME NEW p \in Procs, NEW k \in Keys PROVE PairInv(p, k)
    BY <2>1, <2>2, <2>3 DEF PairInv, PairOK, Owns, CallsOf, InRelease, Idle
  <2> QED
    BY <2>4, <2>5 DEF KeepInv
<1>4. VersionsAdvance
  BY DEF Init, NonceInit, VersionsAdvance, LeaseInv
<1> QED
  BY <1>1, <1>2, <1>3, <1>4 DEF IInv

\* Every step preserves it.
LEMMA StepIInv == IInv /\ [Next]_vars => IInv'
<1> SUFFICES ASSUME IInv, [Next]_vars PROVE IInv'
  OBVIOUS
<1>t. LockTypeOK /\ DataOK /\ KeepInv
  BY DEF IInv
<1>1. LockTypeOK'
  BY <1>t, LockTypes, StepOfLock
<1>2. DataOK'
  <2>1. CASE UNCHANGED leaseVars
    BY <1>t, <2>1 DEF leaseVars, DataOK
  <2> QED
    BY <1>t, <2>1, Steps, EndTypes, CallTypes, KeyTypes
<1>3. KeepInv'
  BY <1>t, Steps, LockKeeps, EndKeeps, CallKeeps, KeyKeeps
<1>4. VersionsAdvance'
  BY <1>2, VersionsKeepAdvancing
<1> QED
  BY <1>1, <1>2, <1>3, <1>4 DEF IInv

\* Types, memory, heartbeats and the order of versions hold throughout.
THEOREM LeaseInvariance == Spec => []IInv
BY InitIInv, StepIInv, PTL DEF Spec

\* Every variable keeps its type, and what a process remembers fits together.
THEOREM LeaseTypes == Spec => []TypeOK
<1>1. IInv => TypeOK
  <2> SUFFICES ASSUME IInv PROVE MemoryOK
    BY DEF IInv, TypeOK
  <2>1. ASSUME NEW p \in Procs, NEW k \in Keys, beat[p][k] # "none",
               <<p, k>> \notin loose
        PROVE  prev[p][k] \/ \E c \in CallsOf(p, k) : call[c].pc = "stopping"
    BY <2>1 DEF IInv, KeepInv, PairInv, PairOK
  <2> QED
    BY <2>1 DEF IInv, KeepInv, CallsCarry, Carries, DownIsEmpty, MemoryOK
<1> QED
  BY <1>1, LeaseInvariance, PTL

\* Versions of a key only move forward, whoever holds its lease.
THEOREM VersionsOnlyAdvance == Spec => []VersionsAdvance
<1>1. IInv => VersionsAdvance
  BY DEF IInv
<1> QED
  BY <1>1, LeaseInvariance, PTL

\* A container that is up neither holds nor remembers a lease without a registered
\* heartbeat or a call about to register one, unless a release overlapped another
\* call or the reply of a grant was lost, with no registration since.
THEOREM LeasesAreKept == Spec => []LeaseIsKept
<1>1. IInv => LeaseIsKept
  BY DEF IInv, KeepInv, PairInv, PairOK, Kept, LeaseIsKept
<1> QED
  BY <1>1, LeaseInvariance, PTL

-----------------------------------------------------------------------------
(* The refinement.                                                         *)

\* Every step issues a fenced nonce, rotates a key, or changes nothing that the
\* users of the keys can see.
LEMMA StepIsFenced ==
  ASSUME IInv, DataOK', [Next]_vars
  PROVE  [Abstract!Next]_(Abstract!vars)
<1> USE DEF Abstract!vars
<1>s. ASSUME UNCHANGED issued PROVE UNCHANGED Abstract!vars
  BY <1>s
<1>1. ASSUME NEW c \in Calls, NEW floor \in Floors, Issue(c, floor)
      PROVE  Abstract!Issue(c[2])
  <2> DEFINE k == c[2]
  <2>1. /\ k \in Keys
        /\ \A j \in Keys : j # k => issued'[j] = issued[j]
        /\ issued'[k].nonce > issued[k].nonce
        /\ lease[k] # None /\ lease[k].version # 0 /\ lease[k].version \in Nat
        /\ issued'[k].version = lease[k].version
        /\ issued'[k].owner = lease[k].owner
    BY <1>1, IssueFacts
  <2>2. LeaseInv(k) /\ issued[k].version \in Nat
    BY <2>1 DEF IInv, VersionsAdvance, DataOK, Issued
  <2>3. \/ lease[k].version > issued[k].version
        \/ /\ lease[k].version = issued[k].version
           /\ lease[k].owner = issued[k].owner
    BY <2>1, <2>2 DEF LeaseInv, RenewedVersion
  <2> QED
    BY <2>1, <2>3 DEF Abstract!Issue, Abstract!Others
<1>2. ASSUME NEW k \in Keys, KeyStep(k)
      PROVE  UNCHANGED issued \/ Abstract!Rotate(k)
  <2>1. /\ \A j \in Keys : j # k => issued'[j] = issued[j]
        /\ issued'[k].version = issued[k].version
        /\ issued'[k].owner = issued[k].owner
        /\ issued'[k].nonce = 0 \/ issued'[k] = issued[k]
    BY <1>2, KeyMoves
  <2>2. CASE issued'[k] = issued[k]
    <3>1. \A j \in Keys : issued'[j] = issued[j]
      BY <2>1, <2>2
    <3>2. issued \in [Keys -> Issued] /\ issued' \in [Keys -> Issued]
      BY DEF IInv, DataOK
    <3> QED
      BY <3>1, <3>2
  <2>3. CASE issued'[k].nonce = 0
    BY <2>1, <2>3 DEF Abstract!Rotate, Abstract!Others
  <2> QED
    BY <2>1, <2>2, <2>3
<1>3. ASSUME NEW c \in Calls, CallStep(c), \A floor \in Floors : ~Issue(c, floor)
      PROVE  UNCHANGED issued
  BY <1>3, CallMoves
<1>5. \/ UNCHANGED issued
      \/ \E k \in Keys : Abstract!Issue(k) \/ Abstract!Rotate(k)
  <2>1. CASE \E c \in Calls : CallStep(c)
    <3>1. PICK c \in Calls : CallStep(c)
      BY <2>1
    <3>2. CASE \E floor \in Floors : Issue(c, floor)
      BY <1>1, <3>2, CallParts
    <3> QED
      BY <1>3, <3>1, <3>2
  <2>2. CASE \E k \in Keys : KeyStep(k)
    BY <1>2, <2>2
  <2>3. CASE UNCHANGED leaseVars \/ \E p \in Procs : EndCalls(p)
    BY Zenon, <2>3 DEF leaseVars, EndCalls
  <2> QED
    BY <2>1, <2>2, <2>3, Steps
<1> QED
  BY <1>5, <1>s DEF Abstract!Next

\* The leases, with all their expiries, crashes and takeovers, implement the
\* fenced nonce.
THEOREM NonceFencing == Spec => NonceIsFenced
<1>1. Init => Abstract!Init
  BY DEF Init, NonceInit, Abstract!Init
<1>2. IInv /\ IInv' /\ [Next]_vars => [Abstract!Next]_(Abstract!vars)
  BY StepIsFenced DEF IInv
<1> QED
  BY <1>1, <1>2, LeaseInvariance, PTL DEF Spec, NonceIsFenced, Abstract!Spec
=============================================================================
