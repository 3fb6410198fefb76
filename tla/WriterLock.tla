----------------------------- MODULE WriterLock -----------------------------
(***************************************************************************)
(* The canonical process writer: the Redis lock that one container of the  *)
(* bot holds at a time (bot/entrypoint_writer_authority.py).  A container  *)
(* elects itself with an atomic script, keeps the lock alive from a        *)
(* heartbeat thread, evicts a holder whose metadata looks stale, and, when *)
(* it finds the lock lost, ends its process or elects itself anew.         *)
(*                                                                         *)
(* One action is one Redis command or script, or one step of the local     *)
(* object between two of them.  Time is left out: a TTL may run out at any *)
(* moment, and metadata that exists may be judged stale at any moment (the *)
(* thresholds come from the environment).  Each acquisition draws one      *)
(* fencing token; the generation counter that the same script increments   *)
(* always moves with it and is not kept apart.                             *)
(***************************************************************************)
EXTENDS Naturals

CONSTANTS
  Procs,      \* containers of the bot
  None,       \* an absent Redis key
  MaxBoots,   \* bound: starts of each container
  MaxFence    \* bound: fencing tokens drawn

VARIABLES
  \* Redis
  lock,       \* nija:writer_lock, the value "token:owner", or None
  meta,       \* whether nija:writer_lock_meta exists
  fence,      \* nija:writer_fence, the last token drawn
  \* each container
  boot,       \* number of its starts: each start draws a new owner identity
  role,       \* where EntrypointWriterAuthority of this start stands
  token,      \* self._token, 0 before the first acquisition
  held        \* the holder that the last refused acquisition reported

lockVars == <<lock, meta, fence, boot, role, token, held>>

Roles == {"down", "electing", "inspecting", "reclaiming", "activating",
          "writer", "lost", "recovering"}

Id(p) == <<p, boot[p]>>
Identities == Procs \X Nat
LockValue == [token: Nat, owner: Identities]

\* self._lock_value
MyLock(p) == [token |-> token[p], owner |-> Id(p)]

LockTypeOK ==
  /\ lock \in LockValue \cup {None}
  /\ meta \in BOOLEAN
  /\ fence \in Nat
  /\ boot \in [Procs -> Nat]
  /\ role \in [Procs -> Roles]
  /\ token \in [Procs -> Nat]
  /\ held \in [Procs -> LockValue \cup {None}]

LockInit ==
  /\ lock = None
  /\ meta = FALSE
  /\ fence = 0
  /\ boot = [p \in Procs |-> 0]
  /\ role = [p \in Procs |-> "down"]
  /\ token = [p \in Procs |-> 0]
  /\ held = [p \in Procs |-> None]

\* The exact proof that assert_distributed_writer_authority asks for: acquired
\* and not lost in memory, and Redis still holds this very lock value.
Authority(p) == role[p] = "writer" /\ lock = MyLock(p)

-----------------------------------------------------------------------------
(* Election.                                                               *)

Boot(p) ==
  /\ role[p] = "down"
  /\ boot[p] < MaxBoots
  /\ boot' = [boot EXCEPT ![p] = @ + 1]
  /\ role' = [role EXCEPT ![p] = "electing"]
  /\ UNCHANGED <<lock, meta, fence, token, held>>

\* The acquire script on a free lock.  When its reply is lost the container does
\* not know that it holds the lock, and tries again.
Acquire(p) ==
  /\ role[p] = "electing"
  /\ lock = None
  /\ fence < MaxFence
  /\ fence' = fence + 1
  /\ lock' = [token |-> fence + 1, owner |-> Id(p)]
  /\ \/ /\ token' = [token EXCEPT ![p] = fence + 1]
        /\ role' = [role EXCEPT ![p] = "activating"]
     \/ UNCHANGED <<token, role>>
  /\ UNCHANGED <<meta, boot, held>>

\* The acquire script on a held lock: the holder is remembered.
Refused(p) ==
  /\ role[p] = "electing"
  /\ lock # None
  /\ held' = [held EXCEPT ![p] = lock]
  /\ role' = [role EXCEPT ![p] = "inspecting"]
  /\ UNCHANGED <<lock, meta, fence, boot, token>>

\* Publish the environment, write the metadata, start the heartbeat.
Activate(p) ==
  /\ role[p] = "activating"
  /\ meta' = TRUE
  /\ role' = [role EXCEPT ![p] = "writer"]
  /\ UNCHANGED <<lock, fence, boot, token, held>>

\* Read the metadata: none means not stale, else its ages decide.
Inspect(p, stale) ==
  /\ role[p] = "inspecting"
  /\ stale => meta
  /\ role' = [role EXCEPT ![p] = IF stale THEN "reclaiming" ELSE "electing"]
  /\ held' = [held EXCEPT ![p] = IF stale THEN @ ELSE None]
  /\ UNCHANGED <<lock, meta, fence, boot, token>>

\* Compare-and-delete of the holder that was judged stale.
Reclaim(p) ==
  /\ role[p] = "reclaiming"
  /\ role' = [role EXCEPT ![p] = "electing"]
  /\ IF lock = held[p] THEN lock' = None /\ meta' = FALSE
                       ELSE UNCHANGED <<lock, meta>>
  /\ held' = [held EXCEPT ![p] = None]
  /\ UNCHANGED <<fence, boot, token>>

-----------------------------------------------------------------------------
(* The heartbeat thread of the writer.                                     *)

\* Mutant: an absent lock is renewed whatever token was drawn last.
CanRenewAbsent(p) == lock = MyLock(p) \/ lock = None

\* The renewal script found its own value, or no lock and its own token as the
\* last one drawn: in both cases lock and metadata are (re)written.
CanRenew(p) == lock = MyLock(p) \/ (lock = None /\ fence = token[p])

Renew(p) ==
  /\ role[p] = "writer"
  /\ CanRenew(p)
  /\ lock' = MyLock(p)
  /\ meta' = TRUE
  /\ UNCHANGED <<fence, boot, role, token, held>>

\* The renewal script found another writer, or no lock and a later token.  In the
\* second case the loss is recoverable.
FindLost(p) ==
  /\ role[p] = "writer"
  /\ ~CanRenew(p)
  /\ role' = [role EXCEPT ![p] = IF lock = None THEN "recovering" ELSE "lost"]
  /\ UNCHANGED <<lock, meta, fence, boot, token, held>>

\* Redis did not answer for longer than the grace period.
GraceExpired(p) ==
  /\ role[p] = "writer"
  /\ role' = [role EXCEPT ![p] = "lost"]
  /\ UNCHANGED <<lock, meta, fence, boot, token, held>>

\* Compare-and-delete of this process's own lock.
DeleteOwn(p) ==
  IF lock = MyLock(p) THEN lock' = None /\ meta' = FALSE
                      ELSE UNCHANGED <<lock, meta>>

\* The core trading thread died or never registered: give the lock up.
ReleaseForReelection(p) ==
  /\ role[p] = "writer"
  /\ DeleteOwn(p)
  /\ role' = [role EXCEPT ![p] = "lost"]
  /\ UNCHANGED <<fence, boot, token, held>>

\* Re-election in the same process, under the same owner identity: only the next
\* acquisition replaces the token and clears the loss.
Reelect(p) ==
  /\ role[p] = "recovering"
  /\ role' = [role EXCEPT ![p] = "electing"]
  /\ UNCHANGED <<lock, meta, fence, boot, token, held>>

-----------------------------------------------------------------------------
(* The end of a process: its memory is gone, Redis keeps its keys.         *)

Forget(p) ==
  /\ role' = [role EXCEPT ![p] = "down"]
  /\ token' = [token EXCEPT ![p] = 0]
  /\ held' = [held EXCEPT ![p] = None]

Crash(p) ==
  /\ role[p] # "down"
  /\ Forget(p)
  /\ UNCHANGED <<lock, meta, fence, boot>>

\* release() at shutdown, once the heartbeat is quiet.
Shutdown(p) ==
  /\ role[p] \in {"writer", "lost", "recovering"}
  /\ DeleteOwn(p)
  /\ Forget(p)
  /\ UNCHANGED <<fence, boot>>

-----------------------------------------------------------------------------
(* Redis expires a key whose TTL ran out.                                  *)

ExpireLock ==
  /\ lock # None
  /\ lock' = None
  /\ UNCHANGED <<meta, fence, boot, role, token, held>>

ExpireMeta ==
  /\ meta
  /\ meta' = FALSE
  /\ UNCHANGED <<lock, fence, boot, role, token, held>>

-----------------------------------------------------------------------------
\* The steps after which the container still runs.
LockStep(p) ==
  \/ Boot(p)
  \/ Acquire(p)
  \/ Refused(p)
  \/ Activate(p)
  \/ \E stale \in BOOLEAN : Inspect(p, stale)
  \/ Reclaim(p)
  \/ Renew(p)
  \/ FindLost(p)
  \/ GraceExpired(p)
  \/ ReleaseForReelection(p)
  \/ Reelect(p)

LockEnd(p) == Crash(p) \/ Shutdown(p)
LockExpiry == ExpireLock \/ ExpireMeta
=============================================================================
