---------------------------- MODULE NonceLease -----------------------------
(***************************************************************************)
(* The nonces of an exchange API key in Redis, issued under a per-key      *)
(* lease whose version fences superseded owners                            *)
(* (_PerKeyRedisBackend in bot/distributed_nonce_manager.py), composed     *)
(* with the process writer that is the parent authority of every lease.    *)
(*                                                                         *)
(* A call is one thread inside _ensure_writer_lease, next_nonce,           *)
(* release_writer_lease or a tick of the lease heartbeat.  Each of its     *)
(* steps is one round trip to Redis or one access to the memory that the   *)
(* threads share without a lock; any other thread or process, the expiry   *)
(* of a key or the end of the process may come between two of them.  Every *)
(* round trip may raise, before or after its script ran.  The branches     *)
(* that the code takes when a lease script returns another owner than the  *)
(* caller after granting, and the wait loop after a refused takeover, are  *)
(* unreachable and left out: both scripts grant only to their caller, and  *)
(* the takeover always grants.  Two calls that find no heartbeat at once   *)
(* start two; the one whose registration is overwritten renews and         *)
(* releases as an API thread may at any time, and is left out.             *)
(***************************************************************************)
EXTENDS WriterLock

CONSTANTS
  Keys,       \* exchange API keys
  Calls,      \* <<process, key, thread>>: the threads that use a lease
  Floors,     \* wall-clock readings, in any order
  MaxGen,     \* bound: lease versions drawn
  MaxNonce    \* bound: nonces issued or skipped

VARIABLES
  \* Redis
  lease,      \* lease[k]: owner and version, version 0 when its key is gone
  generation, \* the counter that versions are drawn from, of all keys
  nonce,      \* nonce[k]: the last nonce
  \* each container
  prev,       \* prev[p][k]: whether _lease_by_key has an entry; the version in
              \* it decides nothing
  beat,       \* beat[p][k]: the registered lease heartbeat thread
  call,       \* call[<<p, k, t>>]: the call that thread t is in
  \* history
  issued,     \* issued[k]: the last nonce issued since the key was rotated
  loose       \* <<p, k>> from a release that overlapped another call of p for k,
              \* or a grant of k to p whose reply was lost while no heartbeat was
              \* registered, to the next registered heartbeat

leaseVars == <<lease, generation, nonce, prev, beat, call, issued, loose>>
vars == <<lockVars, leaseVars>>

Threads == {"api", "beat"}

ASSUME CallsAssumption == Calls \subseteq Procs \X Keys \X Threads
ASSUME FloorsAssumption == Floors \subseteq Nat

\* stopped: the stop event of the heartbeat that runs this tick has been set.
CallPCs == {"idle", "asserted", "leasing", "contended", "forcing", "storing",
            "registering", "issuing", "releasing", "popping", "stopping"}
Call == [pc: CallPCs, seen: BOOLEAN, version: Nat, stopped: BOOLEAN]
Idle == [pc |-> "idle", seen |-> FALSE, version |-> 0, stopped |-> FALSE]
Lease == [owner: Identities, version: Nat]
Issued == [nonce: Nat, version: Nat, owner: Identities \cup {<<>>}]

NonceInit ==
  /\ lease = [k \in Keys |-> None]
  /\ generation = 0
  /\ nonce = [k \in Keys |-> 0]
  /\ prev = [p \in Procs |-> [k \in Keys |-> FALSE]]
  /\ beat = [p \in Procs |-> [k \in Keys |-> "none"]]
  /\ call = [c \in Calls |-> Idle]
  /\ issued = [k \in Keys |-> [nonce |-> 0, version |-> 0, owner |-> <<>>]]
  /\ loose = {}

Init == LockInit /\ NonceInit

Step(c, pc) == call' = [call EXCEPT ![c].pc = pc]
Return(c) == call' = [call EXCEPT ![c] = Idle]
Larger(a, b) == IF a > b THEN a ELSE b
Owns(p, k) == lease[k] # None /\ lease[k].owner = Id(p)
CallsOf(p, k) == {c \in Calls : c[1] = p /\ c[2] = k}

\* A release of the lease has run its script and not yet dropped the heartbeat.
Dropping(p, k) == \E c \in CallsOf(p, k) : call[c].pc \in {"popping", "stopping"}

\* History: a call begins under such a release.
Overlapping(p, k) ==
  loose' = IF Dropping(p, k) THEN loose \cup {<<p, k>>} ELSE loose

-----------------------------------------------------------------------------
(* _ensure_writer_lease and its callers.                                   *)

\* Mutant: the heartbeat does not look at the authority of its process.
BeginCallUnchecked(c) ==
  LET p == c[1]  k == c[2]  t == c[3] IN
  /\ call[c].pc = "idle"
  /\ role[p] # "down"
  /\ t = "beat" => beat[p][k] = "running"
  /\ t = "api" => Authority(p)
  /\ Step(c, "asserted")
  /\ Overlapping(p, k)
  /\ UNCHANGED <<lease, generation, nonce, prev, beat, issued>>

\* An API thread, or a tick of the lease heartbeat, proves that its process is
\* the canonical writer.  Without the proof, or an answer, the API call raises
\* and the heartbeat releases the lease.
BeginCall(c) ==
  LET p == c[1]  k == c[2]  t == c[3] IN
  /\ call[c].pc = "idle"
  /\ role[p] # "down"
  /\ t = "beat" => beat[p][k] = "running"
  /\ \/ Authority(p) /\ Step(c, "asserted")
     \/ t = "beat" /\ Step(c, "releasing")
  /\ Overlapping(p, k)
  /\ UNCHANGED <<lease, generation, nonce, prev, beat, issued>>

\* prev = self._lease_by_key.get(key_id), then perhaps a backoff of seconds.
ReadHeld(c) ==
  /\ call[c].pc = "asserted"
  /\ call' = [call EXCEPT ![c].pc = "leasing", ![c].seen = prev[c[1]][c[2]]]
  /\ UNCHANGED <<lease, generation, nonce, prev, beat, issued, loose>>

\* Both lease scripts, for the owner: renew, and redraw an evicted version from
\* the counter without incrementing it.
RenewedVersion(k) ==
  IF lease[k].version = 0 THEN generation ELSE lease[k].version

\* The script grants; its reply arrives, or is lost and the call raises.
Granted(c, version) ==
  LET p == c[1]  k == c[2] IN
  /\ lease' = [lease EXCEPT ![k] = [owner |-> Id(p), version |-> version]]
  /\ \/ /\ call' = [call EXCEPT ![c].pc = "storing", ![c].version = version]
        /\ UNCHANGED loose
     \/ /\ Return(c)
        /\ loose' = IF beat[p][k] = "none" THEN loose \cup {<<p, k>>} ELSE loose

\* The call raises and leaves Redis as it was: Redis did not answer, or it
\* refused what the call asks for.
Raised(c) == Return(c) /\ UNCHANGED <<lease, generation, loose>>

RunLeaseScript(c) ==
  LET p == c[1]  k == c[2] IN
  /\ call[c].pc = "leasing"
  /\ \/ /\ lease[k] = None
        /\ generation < MaxGen
        /\ generation' = generation + 1
        /\ Granted(c, generation + 1)
     \/ /\ Owns(p, k)
        /\ Granted(c, RenewedVersion(k))
        /\ UNCHANGED generation
     \/ /\ lease[k] # None /\ ~Owns(p, k)
        /\ ~call[c].seen
        /\ Step(c, "contended")
        /\ UNCHANGED <<lease, generation, loose>>
     \/ Raised(c)
  /\ UNCHANGED <<nonce, prev, beat, issued>>

\* The lease has another owner: prove authority once more before the takeover.
Reassert(c) ==
  /\ call[c].pc = "contended"
  /\ \/ Authority(c[1]) /\ Step(c, "forcing")
     \/ Return(c)
  /\ UNCHANGED <<lease, generation, nonce, prev, beat, issued, loose>>

\* Mutant: the takeover keeps the version of the holder it evicts.
TakeOverSameVersion(c) ==
  LET p == c[1]  k == c[2] IN
  /\ call[c].pc = "forcing"
  /\ lease[k] # None
  /\ Granted(c, RenewedVersion(k))
  /\ UNCHANGED <<generation, nonce, prev, beat, issued>>

\* The takeover script with force = 1.
TakeOver(c) ==
  LET p == c[1]  k == c[2] IN
  /\ call[c].pc = "forcing"
  /\ \/ /\ Owns(p, k)
        /\ Granted(c, RenewedVersion(k))
        /\ UNCHANGED generation
     \/ /\ ~Owns(p, k)
        /\ generation < MaxGen
        /\ generation' = generation + 1
        /\ Granted(c, generation + 1)
     \/ Raised(c)
  /\ UNCHANGED <<nonce, prev, beat, issued>>

\* next_nonce goes on to the fenced script, ensure_writer_lease and a tick of the
\* heartbeat return.
GoOn(c, next) ==
  /\ c[3] = "beat" => next = "idle"
  /\ IF next = "idle" THEN Return(c)
     ELSE call' = [call EXCEPT ![c].pc = next, ![c].seen = FALSE]

\* History: from here on memory and registered heartbeat agree again.
Settled(p, k) ==
  loose' = IF prev'[p][k] /\ beat'[p][k] # "none" /\ ~Dropping(p, k)
           THEN loose \ {<<p, k>>} ELSE loose

\* Mutant: whether to register is decided by the memory just written.
StoreLeaseReadBack(c, next) ==
  LET p == c[1]  k == c[2] IN
  /\ call[c].pc = "storing"
  /\ prev' = [prev EXCEPT ![p][k] = TRUE]
  /\ UNCHANGED beat
  /\ IF ~prev'[p][k] THEN next = "idle" /\ Step(c, "registering")
     ELSE GoOn(c, next)
  /\ Settled(p, k)
  /\ UNCHANGED <<lease, generation, nonce, issued>>

\* Remember the version; the first acquisition goes on to the heartbeat.
StoreLease(c, next) ==
  LET p == c[1]  k == c[2] IN
  /\ call[c].pc = "storing"
  /\ prev' = [prev EXCEPT ![p][k] = TRUE]
  /\ UNCHANGED beat
  /\ IF ~call[c].seen THEN next = "idle" /\ Step(c, "registering")
     ELSE GoOn(c, next)
  /\ Settled(p, k)
  /\ UNCHANGED <<lease, generation, nonce, issued>>

\* _ensure_lease_heartbeat: start the heartbeat unless one is registered.
Register(c, next) ==
  LET p == c[1]  k == c[2] IN
  /\ call[c].pc = "registering"
  /\ beat' = IF beat[p][k] = "none"
             THEN [beat EXCEPT ![p][k] = "running"] ELSE beat
  /\ UNCHANGED prev
  /\ GoOn(c, next)
  /\ Settled(p, k)
  /\ UNCHANGED <<lease, generation, nonce, issued>>

\* Mutant: the owner alone is compared.
FencedByOwner(c) == Owns(c[1], c[2])

\* The fenced script: owner and version must still be those of the call.
Fenced(c) ==
  Owns(c[1], c[2]) /\ lease[c[2]].version = call[c].version

\* A nonce whose reply is lost counts as issued: it is never given out again.
Issue(c, floor) ==
  LET k == c[2]
      n == Larger(nonce[k] + 1, floor)
  IN
  /\ call[c].pc = "issuing"
  /\ Fenced(c)
  /\ n <= MaxNonce
  /\ nonce' = [nonce EXCEPT ![k] = n]
  /\ issued' = [issued EXCEPT ![k] =
       [nonce |-> n, version |-> lease[k].version, owner |-> Id(c[1])]]
  /\ Return(c)
  /\ UNCHANGED <<lease, generation, prev, beat, loose>>

\* The fence refuses, or Redis does not answer: get_nonce raises.
Reject(c) ==
  /\ call[c].pc = "issuing"
  /\ Return(c)
  /\ UNCHANGED <<lease, generation, nonce, prev, beat, issued, loose>>

-----------------------------------------------------------------------------
(* release_writer_lease.                                                   *)

\* The shutdown hook of bot.py, or an API thread that found its authority or its
\* lease gone (_drop_nonce_authority).
BeginRelease(c) ==
  /\ c[3] = "api"
  /\ call[c].pc = "idle"
  /\ role[c[1]] # "down"
  /\ Step(c, "releasing")
  /\ UNCHANGED <<lease, generation, nonce, prev, beat, issued, loose>>

\* A heartbeat that released returns: while it is the registered one, it stays
\* registered, finished.
EndRelease(c) ==
  LET p == c[1]  k == c[2] IN
  /\ beat' = IF c[3] = "beat" /\ ~call[c].stopped /\ beat[p][k] = "running"
             THEN [beat EXCEPT ![p][k] = "finished"] ELSE beat
  /\ Return(c)

\* Compare-and-delete.  Only a reply that tells of an own lease leads on to the
\* memory of this process.
ReleaseScript(c) ==
  LET p == c[1]  k == c[2] IN
  /\ call[c].pc = "releasing"
  /\ \/ /\ Owns(p, k)
        /\ lease' = [lease EXCEPT ![k] = None]
        /\ Step(c, "popping")
        /\ loose' = IF \E d \in CallsOf(p, k) \ {c} : call[d].pc # "idle"
                    THEN loose \cup {<<p, k>>} ELSE loose
        /\ UNCHANGED beat
     \/ /\ Owns(p, k)
        /\ lease' = [lease EXCEPT ![k] = None]
        /\ EndRelease(c)
        /\ UNCHANGED loose
     \/ EndRelease(c) /\ UNCHANGED <<lease, loose>>
  /\ UNCHANGED <<generation, nonce, prev, issued>>

\* self._lease_by_key.pop(key_id)
PopLease(c) ==
  /\ call[c].pc = "popping"
  /\ prev' = [prev EXCEPT ![c[1]][c[2]] = FALSE]
  /\ Step(c, "stopping")
  /\ UNCHANGED <<lease, generation, nonce, beat, issued, loose>>

\* The tick of p for k that is under way, if any, will be the last of its thread.
Stopped(c) ==
  call' = [d \in Calls |->
    IF d = c THEN Idle
    ELSE IF d \in CallsOf(c[1], c[2]) /\ d[3] = "beat" /\ call[d].pc # "idle"
         THEN [call[d] EXCEPT !.stopped = TRUE] ELSE call[d]]

\* Mutant: the heartbeat stays registered.
StopBeatKept(c) ==
  /\ call[c].pc = "stopping"
  /\ Stopped(c)
  /\ UNCHANGED <<lease, generation, nonce, prev, beat, issued, loose>>

\* _stop_lease_heartbeat: a tick already under way is not interrupted.
StopBeat(c) ==
  /\ call[c].pc = "stopping"
  /\ beat' = [beat EXCEPT ![c[1]][c[2]] = "none"]
  /\ Stopped(c)
  /\ UNCHANGED <<lease, generation, nonce, prev, issued, loose>>

-----------------------------------------------------------------------------
(* Redis and the recovery of a nonce that the exchange refused.            *)

ExpireLease(k) ==
  /\ lease[k] # None
  /\ lease' = [lease EXCEPT ![k] = None]
  /\ UNCHANGED <<generation, nonce, prev, beat, call, issued, loose>>

\* Only the version key is lost, the case the renewal branches provide for.
EvictVersion(k) ==
  /\ lease[k] # None
  /\ lease' = [lease EXCEPT ![k].version = 0]
  /\ UNCHANGED <<generation, nonce, prev, beat, call, issued, loose>>

\* probe_server_sync of any process, without a lease: never lowers the nonce.
AdvanceToFloor(k, floor) ==
  /\ nonce' = [nonce EXCEPT ![k] = Larger(nonce[k], floor)]
  /\ UNCHANGED <<lease, generation, prev, beat, call, issued, loose>>

\* reset_key, to be called only after rotating the key: a plain SET.
ResetKey(k, floor) ==
  /\ nonce' = [nonce EXCEPT ![k] = floor]
  /\ issued' = [issued EXCEPT ![k].nonce = 0]
  /\ UNCHANGED <<lease, generation, prev, beat, call, loose>>

\* The end of a process takes its calls and its memory with it.
EndCalls(p) ==
  /\ prev' = [prev EXCEPT ![p] = [k \in Keys |-> FALSE]]
  /\ beat' = [beat EXCEPT ![p] = [k \in Keys |-> "none"]]
  /\ call' = [c \in Calls |-> IF c[1] = p THEN Idle ELSE call[c]]
  /\ loose' = {pair \in loose : pair[1] # p}
  /\ UNCHANGED <<lease, generation, nonce, issued>>

-----------------------------------------------------------------------------
CallStep(c) ==
  \/ BeginCall(c)
  \/ ReadHeld(c)
  \/ RunLeaseScript(c)
  \/ Reassert(c)
  \/ TakeOver(c)
  \/ \E next \in {"idle", "issuing"} : StoreLease(c, next) \/ Register(c, next)
  \/ \E floor \in Floors : Issue(c, floor)
  \/ Reject(c)
  \/ BeginRelease(c)
  \/ ReleaseScript(c)
  \/ PopLease(c)
  \/ StopBeat(c)

KeyStep(k) ==
  \/ ExpireLease(k)
  \/ EvictVersion(k)
  \/ \E floor \in Floors : AdvanceToFloor(k, floor) \/ ResetKey(k, floor)

Next ==
  \/ (\E p \in Procs : LockStep(p)) /\ UNCHANGED leaseVars
  \/ LockExpiry /\ UNCHANGED leaseVars
  \/ \E p \in Procs : LockEnd(p) /\ EndCalls(p)
  \/ (\E c \in Calls : CallStep(c)) /\ UNCHANGED lockVars
  \/ (\E k \in Keys : KeyStep(k)) /\ UNCHANGED lockVars

Spec == Init /\ [][Next]_vars

\* A lease that nothing will renew: its owner's start has ended, or its heartbeat
\* does not run and none of its calls is on the way to a lease script.
Renewing(c) ==
  call[c].pc \in {"asserted", "leasing", "contended", "forcing", "storing"}

Abandoned(k) ==
  \A p \in Procs :
    Owns(p, k) /\ role[p] # "down" =>
      /\ beat[p][k] # "running"
      /\ \A c \in Calls : c[1] = p /\ c[2] = k => ~Renewing(c)

\* Threads run, and a TTL that nothing renews runs out.  Nothing forces an API
\* call, an election, a crash or the loss of a key to happen.
Fairness ==
  /\ \A c \in Calls :
       /\ WF_vars(CallStep(c) /\ call[c].pc # "idle" /\ UNCHANGED lockVars)
       /\ c[3] = "beat" => WF_vars(BeginCall(c) /\ UNCHANGED lockVars)
  /\ \A k \in Keys :
       WF_vars(Abandoned(k) /\ ExpireLease(k) /\ UNCHANGED lockVars)

FairSpec == Spec /\ Fairness

-----------------------------------------------------------------------------
(* Safety.                                                                 *)

\* A call carries a version exactly from the lease script to its return; a
\* registered heartbeat has a remembered version, which only a release in its last
\* window has already dropped; a process that is down remembers nothing
\* (_lease_by_key, _lease_heartbeat_threads).
MemoryOK ==
  /\ \A c \in Calls :
       call[c].version # 0 <=> call[c].pc \in {"storing", "registering", "issuing"}
  /\ \A p \in Procs, k \in Keys :
       beat[p][k] # "none" /\ <<p, k>> \notin loose =>
         \/ prev[p][k]
         \/ \E c \in CallsOf(p, k) : call[c].pc = "stopping"
  /\ \A p \in Procs, k \in Keys :
       role[p] = "down" => ~prev[p][k] /\ beat[p][k] = "none"
  /\ \A c \in Calls : role[c[1]] = "down" => call[c].pc = "idle"

\* Every variable of the two modules has its type, and what a process remembers
\* fits together.
DataOK ==
  /\ lease \in [Keys -> Lease \cup {None}]
  /\ generation \in Nat
  /\ nonce \in [Keys -> Nat]
  /\ prev \in [Procs -> [Keys -> BOOLEAN]]
  /\ beat \in [Procs -> [Keys -> {"none", "running", "finished"}]]
  /\ call \in [Calls -> Call]
  /\ issued \in [Keys -> Issued]
  /\ loose \subseteq Procs \X Keys

TypeOK == LockTypeOK /\ DataOK /\ MemoryOK

\* The process lock in Redis always carries the last fencing token drawn: a
\* renewal that resurrects an expired lock never brings a superseded writer back
\* (the fence comparison of the renewal script).
LockIsNewest == lock # None => lock.token = fence

\* Versions of one key only move forward, whoever holds the lease and whatever
\* expired, was evicted or was forced: what is issued never runs ahead of the
\* counter, and a lease of another owner is newer than the last issue.
LeaseInv(k) ==
  /\ issued[k].nonce <= nonce[k]
  /\ issued[k].version <= generation
  /\ lease[k] # None =>
       /\ generation > 0
       /\ lease[k].version <= generation
       /\ lease[k].version # 0 => issued[k].version <= lease[k].version
       /\ lease[k].owner # issued[k].owner =>
            issued[k].version < RenewedVersion(k)

VersionsAdvance == \A k \in Keys : LeaseInv(k)

\* A container that is up neither holds nor remembers a lease that nothing renews:
\* such a lease has a registered heartbeat (running, or finished after a lost
\* authority), or a call about to register one.  Only two things defeat this, and
\* only until the next registration: a release that another call of the container
\* overlaps (script, _lease_by_key and heartbeat are three unlocked steps, and a
\* call registers only what it read as absent before its round trips), and a grant
\* whose reply is lost (the call raises before it stores anything).
LeaseIsKept ==
  \A p \in Procs, k \in Keys :
    role[p] # "down" /\ (Owns(p, k) \/ prev[p][k]) /\ <<p, k>> \notin loose =>
      \/ beat[p][k] # "none"
      \/ \E c \in CallsOf(p, k) :
           call[c].pc \in {"storing", "registering"} /\ ~call[c].seen

Abstract == INSTANCE FencedNonce WITH
  last <- [k \in Keys |-> issued[k].nonce],
  epoch <- [k \in Keys |-> issued[k].version],
  issuer <- [k \in Keys |-> issued[k].owner]

\* The leases and scripts of any number of processes, with every interleaving,
\* expiry, eviction, crash and takeover, implement the fenced nonce: per key the
\* nonces increase, and an owner that was superseded never issues again.
NonceIsFenced == Abstract!Spec

-----------------------------------------------------------------------------
(* Liveness.                                                               *)

\* While one process stays the canonical writer, no superseded container keeps
\* the lease of a key for ever (_lease_heartbeat_loop releases it on authority
\* loss, the TTL removes what a dead process left).
SupersededLetGo ==
  \A p \in Procs, k \in Keys :
    <>[]Authority(p) => []<>(lease[k] = None \/ Owns(p, k))
=============================================================================
