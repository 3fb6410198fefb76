----------------------- MODULE BootstrapStateMachine -----------------------
(***************************************************************************)
(* The bootstrap FSM (src/bot/bootstrap_state_machine.py): one lock, one   *)
(* designated owner thread, a transition table, and the forced entries and *)
(* exits that go around the table.  Three kinds of threads use it:         *)
(*                                                                         *)
(*   Drivers    the startup threads of bot.py, bot_main.py and             *)
(*              self_healing_startup.py, which claim it and walk it;       *)
(*   Callbacks  the capital-ready callback and its retry threads, which    *)
(*              only call advance_to_capital_ready;                        *)
(*   Observers  the supervisor loop and the signal handlers.               *)
(*                                                                         *)
(* Every action is one critical section of the FSM's lock.  The fast       *)
(* forward takes the lock many times: pc says where each thread is in it.  *)
(***************************************************************************)
EXTENDS Naturals, Sequences, FiniteSets

CONSTANTS Drivers, Callbacks, Observers,
          NoThread,       \* the owner when there is none
          RetryBound      \* a bound on the retry counter, for TLC

Threads == Drivers \cup Callbacks \cup Observers
Walkers == Drivers \cup Callbacks

\* The capital-ready threads are started for their one call, and do nothing else.
ASSUME ThreadsAssumption ==
    NoThread \notin Threads /\ Callbacks \cap (Drivers \cup Observers) = {}
ASSUME BoundAssumption == RetryBound \in Nat

----------------------------------------------------------------------------
(* The states and the table.                                               *)

\* The states between the connection to the platform and capital readiness.
Preparing == {"PLATFORM_CONNECTING", "PLATFORM_READY", "BALANCE_HYDRATED",
              "CAPABILITY_VERIFIED", "STARTUP_VALIDATED", "CAPITAL_REFRESHING"}

Terminal == {"EXTERNAL_RESTART_REQUIRED", "SHUTDOWN"}

StrategyArmAllowed == {"CAPITAL_READY", "INIT_COMPLETE", "DEGRADED_READY",
                       "THREADS_STARTING", "RUNNING_SUPERVISED"}

ErrorStates == {"BOOT_FAILED_RETRY", "CONFIG_ERROR_KEEPALIVE"} \cup Terminal

States == {"BOOT_INIT", "LOCK_ACQUIRED", "HEALTH_BOUND", "ENV_VERIFIED", "MODE_GATED"}
            \cup Preparing \cup StrategyArmAllowed \cup ErrorStates

PollingDisabled ==
    (Preparing \ {"PLATFORM_CONNECTING", "PLATFORM_READY"})
        \cup StrategyArmAllowed \cup (ErrorStates \ {"BOOT_FAILED_RETRY"})

\* The table: a target the state allows.
ValidTransition(s, target) ==
    \/ s = "BOOT_INIT" /\ target = "LOCK_ACQUIRED"
    \/ s = "LOCK_ACQUIRED" /\ target = "HEALTH_BOUND"
    \/ s = "HEALTH_BOUND" /\ target = "ENV_VERIFIED"
    \/ s = "ENV_VERIFIED" /\ target \in {"MODE_GATED", "CONFIG_ERROR_KEEPALIVE"}
    \/ s = "MODE_GATED" /\ target = "PLATFORM_CONNECTING"
    \/ s = "PLATFORM_CONNECTING" /\ target \in {"PLATFORM_READY", "BOOT_FAILED_RETRY", "EXTERNAL_RESTART_REQUIRED"}
    \/ s = "PLATFORM_READY" /\ target \in {"BALANCE_HYDRATED", "BOOT_FAILED_RETRY"}
    \/ s = "BALANCE_HYDRATED" /\ target \in {"CAPABILITY_VERIFIED", "BOOT_FAILED_RETRY"}
    \/ s = "CAPABILITY_VERIFIED" /\ target \in {"STARTUP_VALIDATED", "BOOT_FAILED_RETRY"}
    \/ s = "STARTUP_VALIDATED" /\ target \in {"CAPITAL_REFRESHING", "BOOT_FAILED_RETRY"}
    \/ s = "CAPITAL_REFRESHING" /\ target \in {"CAPITAL_READY", "BOOT_FAILED_RETRY"}
    \/ s = "CAPITAL_READY" /\ target \in {"INIT_COMPLETE", "BOOT_FAILED_RETRY", "PLATFORM_CONNECTING"}
    \/ s = "INIT_COMPLETE" /\ target \in {"THREADS_STARTING", "DEGRADED_READY", "BOOT_FAILED_RETRY"}
    \/ s = "DEGRADED_READY" /\ target \in {"THREADS_STARTING", "BOOT_FAILED_RETRY", "EXTERNAL_RESTART_REQUIRED"}
    \/ s = "THREADS_STARTING" /\ target \in {"RUNNING_SUPERVISED", "BOOT_FAILED_RETRY"}
    \/ s = "RUNNING_SUPERVISED" /\ target \in {"BOOT_FAILED_RETRY"} \cup Terminal
    \/ s = "BOOT_FAILED_RETRY" /\ target \in {"PLATFORM_CONNECTING", "EXTERNAL_RESTART_REQUIRED"}
    \/ s = "CONFIG_ERROR_KEEPALIVE" /\ target = "SHUTDOWN"
    \/ s = "EXTERNAL_RESTART_REQUIRED" /\ target = "SHUTDOWN"

\* The fast forward's targets, in order.
HappyPath ==
    <<"LOCK_ACQUIRED", "HEALTH_BOUND", "ENV_VERIFIED", "MODE_GATED",
      "PLATFORM_CONNECTING", "PLATFORM_READY", "BALANCE_HYDRATED",
      "CAPABILITY_VERIFIED", "STARTUP_VALIDATED", "CAPITAL_REFRESHING",
      "CAPITAL_READY", "INIT_COMPLETE">>

----------------------------------------------------------------------------
VARIABLES
    state,          \* _state
    owner,          \* _owner_thread_id
    bootComplete,   \* _boot_complete
    execution,      \* _execution_authority
    latched,        \* _balance_polling_disabled
    retries,        \* _boot_failed_retry_count
    entered,        \* _history, since the platform was last (re)connected
    pc, saved, next,\* per thread: the fast forward's place, _prev_owner, its target
    overlapped      \* history: an ownership was borrowed while another was lent

fsm    == <<state, owner, bootComplete, execution, latched, retries, entered>>
locals == <<pc, saved, next, overlapped>>
vars   == <<fsm, locals>>

Init ==
    /\ state = "BOOT_INIT" /\ owner = NoThread
    /\ bootComplete = FALSE /\ execution = FALSE /\ latched = FALSE
    /\ retries = 0 /\ entered = {"BOOT_INIT"}
    /\ pc = [t \in Walkers |-> "idle"]
    /\ saved = [t \in Walkers |-> NoThread]
    /\ next = [t \in Walkers |-> 1]
    /\ overlapped = FALSE

----------------------------------------------------------------------------
(* transition()                                                            *)

AllowedToOwner(t, target) == owner \in {NoThread, t} \/ target \in Terminal
Allowed(t, target) ==
    /\ owner \in {NoThread, t} \/ target \in Terminal
    /\ ValidTransition(state, target)

\* The history since the last connection.
EnteredUnrecorded(target) ==
    IF target = "PLATFORM_CONNECTING" THEN {target} ELSE entered
Entered(target) ==
    IF target = "PLATFORM_CONNECTING" THEN {target} ELSE entered \cup {target}

\* The entries that hand the FSM over: to the supervisor, or to the next attempt.
ReleasedOnRetryOnly(target) == target \in {"RUNNING_SUPERVISED", "BOOT_FAILED_RETRY"}
Released(target) == target \in {"RUNNING_SUPERVISED", "BOOT_FAILED_RETRY"} \cup Terminal

LatchedForGood(target) == latched \/ target \in PollingDisabled
LatchAfter(target) == target \in PollingDisabled

RetriesKeptOnReentry(target) ==
    IF target = "RUNNING_SUPERVISED" THEN 0
    ELSE IF target = "BOOT_FAILED_RETRY" THEN retries + 1 ELSE retries
RetriesAfter(target) ==
    IF target \in {"RUNNING_SUPERVISED", "PLATFORM_CONNECTING"} THEN 0
    ELSE IF target = "BOOT_FAILED_RETRY" THEN retries + 1 ELSE retries

Enter(target) ==
    LET supervised == target = "RUNNING_SUPERVISED"
    IN  /\ state' = target
        /\ owner' = IF Released(target) THEN NoThread ELSE owner
        /\ bootComplete' = IF Released(target) THEN supervised ELSE bootComplete
        /\ execution' = IF Released(target) THEN supervised ELSE execution
        /\ latched' = LatchAfter(target)
        /\ retries' = RetriesAfter(target)
        /\ entered' = Entered(target)

CountsRetry == retries < RetryBound

\* A call that is accepted.  One that is refused, or that asks for
\* RUNNING_SUPERVISED without the startup execution authority, changes nothing.
Transition(t, target) ==
    /\ t \in Observers => target \in Terminal
    /\ Allowed(t, target)
    /\ target = "BOOT_FAILED_RETRY" => CountsRetry
    /\ Enter(target)
    /\ UNCHANGED locals

ClaimOwnership(t) ==
    /\ owner' = t
    /\ UNCHANGED <<state, bootComplete, execution, latched, retries, entered, locals>>

----------------------------------------------------------------------------
(* The forced moves.                                                       *)

ResetEffects ==
    /\ state' = "BOOT_FAILED_RETRY"
    /\ bootComplete' = FALSE /\ execution' = FALSE /\ latched' = FALSE
    /\ owner' = NoThread
    /\ retries' = retries + 1
    /\ entered' = entered \cup {"BOOT_FAILED_RETRY"}

\* reset_for_retry(): from every state but the terminal ones, by any thread.
ResettableUnlessShutdown == state # "SHUTDOWN"
Resettable == state \notin Terminal

ResetForRetry ==
    /\ Resettable /\ CountsRetry
    /\ ResetEffects
    /\ UNCHANGED locals

\* A fresh startup attempt that finds the FSM of a previous attempt armed resets
\* it, and clears the counter in another critical section.
FindStale(t) ==
    /\ pc[t] = "idle" /\ state \in StrategyArmAllowed
    /\ pc' = [pc EXCEPT ![t] = "stale"]
    /\ UNCHANGED <<fsm, saved, next, overlapped>>

ResetStale(t) ==
    /\ pc[t] = "stale"
    /\ IF Resettable THEN CountsRetry /\ ResetEffects ELSE UNCHANGED fsm
    /\ pc' = [pc EXCEPT ![t] = "zero"]
    /\ UNCHANGED <<saved, next, overlapped>>

ZeroRetries(t) ==
    /\ pc[t] = "zero"
    /\ retries' = 0
    /\ pc' = [pc EXCEPT ![t] = "idle"]
    /\ UNCHANGED <<state, owner, bootComplete, execution, latched, entered,
                   saved, next, overlapped>>

ForceTransitionFromRetry(t) ==
    /\ state = "BOOT_FAILED_RETRY"
    /\ state' = "PLATFORM_CONNECTING"
    /\ bootComplete' = FALSE /\ execution' = FALSE
    /\ retries' = 0 /\ owner' = t
    /\ entered' = {"PLATFORM_CONNECTING"}
    /\ UNCHANGED <<latched, locals>>

\* finalize_boot() when the startup execution authority holds; no ownership check.
Finalizable == state = "THREADS_STARTING"

FinalizeBoot ==
    /\ Finalizable
    /\ state' = "RUNNING_SUPERVISED"
    /\ bootComplete' = TRUE /\ execution' = TRUE
    /\ owner' = NoThread
    /\ entered' = entered \cup {"RUNNING_SUPERVISED"}
    /\ UNCHANGED <<latched, retries, locals>>

----------------------------------------------------------------------------
(* advance_to_capital_ready(): the checks, the hydration barrier, then the *)
(* ownership, the walk and the restoration of the previous owner.          *)

BeginAdvance(t) ==
    /\ pc[t] = "idle" /\ state \notin StrategyArmAllowed \cup ErrorStates
    /\ pc' = [pc EXCEPT ![t] = "barrier"]
    /\ UNCHANGED <<fsm, saved, next, overlapped>>

BarrierFails(t) ==
    /\ pc[t] = "barrier"
    /\ pc' = [pc EXCEPT ![t] = "idle"]
    /\ UNCHANGED <<fsm, saved, next, overlapped>>

\* Between the two critical sections that take the ownership and put it back.
HoldsLoan(t) == pc[t] \in {"look", "drive", "restore"}

BorrowOwnership(t) ==
    /\ pc[t] = "barrier"
    /\ saved' = [saved EXCEPT ![t] = owner]
    /\ owner' = t
    /\ pc' = [pc EXCEPT ![t] = "look"]
    /\ next' = [next EXCEPT ![t] = 1]
    /\ overlapped' = (overlapped \/ \E u \in Walkers \ {t} : HoldsLoan(u))
    /\ UNCHANGED <<state, bootComplete, execution, latched, retries, entered>>

WalkEnded(t) == state \in StrategyArmAllowed \/ next[t] > Len(HappyPath)

\* One reading of the state: leave the loop, skip the target, or decide for it.
Look(t) ==
    /\ pc[t] = "look"
    /\ \/ /\ WalkEnded(t)
          /\ pc' = [pc EXCEPT ![t] = "restore"]
          /\ next' = [next EXCEPT ![t] = 1]
       \/ /\ ~WalkEnded(t)
          /\ IF ValidTransition(state, HappyPath[next[t]])
             THEN pc' = [pc EXCEPT ![t] = "drive"] /\ UNCHANGED next
             ELSE next' = [next EXCEPT ![t] = @ + 1] /\ UNCHANGED pc
    /\ UNCHANGED <<fsm, saved, overlapped>>

\* The transition decided for, accepted or refused by what now holds.
Drive(t) ==
    /\ pc[t] = "drive"
    /\ IF Allowed(t, HappyPath[next[t]]) THEN Enter(HappyPath[next[t]]) ELSE UNCHANGED fsm
    /\ pc' = [pc EXCEPT ![t] = "look"]
    /\ next' = [next EXCEPT ![t] = @ + 1]
    /\ UNCHANGED <<saved, overlapped>>

RestoredWhenArmed(t) ==
    /\ pc[t] = "restore"
    /\ owner' = IF state \in StrategyArmAllowed THEN saved[t] ELSE owner
    /\ pc' = [pc EXCEPT ![t] = "idle"]
    /\ saved' = [saved EXCEPT ![t] = NoThread]
    /\ UNCHANGED <<state, bootComplete, execution, latched, retries, entered,
                   next, overlapped>>
RestoreOwner(t) ==
    /\ pc[t] = "restore"
    /\ owner' = saved[t]
    /\ pc' = [pc EXCEPT ![t] = "idle"]
    /\ saved' = [saved EXCEPT ![t] = NoThread]
    /\ UNCHANGED <<state, bootComplete, execution, latched, retries, entered,
                   next, overlapped>>

----------------------------------------------------------------------------
Advance(t) ==
    \/ BeginAdvance(t) \/ BarrierFails(t) \/ BorrowOwnership(t)
    \/ Look(t) \/ Drive(t) \/ RestoreOwner(t)

Startup(t) ==
    \/ FindStale(t) \/ ResetStale(t) \/ ZeroRetries(t)
    \/ pc[t] = "idle" /\ (ClaimOwnership(t) \/ ResetForRetry \/ FinalizeBoot)

Next ==
    \/ \E t \in Walkers : Advance(t)
    \/ \E t \in Drivers : Startup(t)
    \/ \E t \in Drivers \cup Observers :
          /\ t \in Drivers => pc[t] = "idle"
          /\ ForceTransitionFromRetry(t) \/ \E target \in States : Transition(t, target)

Spec == Init /\ [][Next]_vars

----------------------------------------------------------------------------
(* The properties.                                                         *)

TypeOK ==
    /\ state \in States /\ owner \in Threads \cup {NoThread}
    /\ bootComplete \in BOOLEAN /\ execution \in BOOLEAN /\ latched \in BOOLEAN
    /\ retries \in 0 .. RetryBound
    /\ entered \subseteq States /\ state \in entered
    /\ pc \in [Walkers -> {"idle", "barrier", "look", "drive", "restore", "stale", "zero"}]
    /\ saved \in [Walkers -> Threads \cup {NoThread}]
    /\ next \in [Walkers -> 1 .. Len(HappyPath) + 1]
    /\ overlapped \in BOOLEAN

(* Orders are gated on execution_authority and the supervisor on            *)
(* boot_complete: whatever forced move, refused call or interrupted fast    *)
(* forward happens, both flags say exactly that the FSM is supervised.      *)
AuthorityIsSupervision ==
    /\ execution = (state = "RUNNING_SUPERVISED")
    /\ bootComplete = execution

(* The latch that switches balance polling off and is_balance_hydrated(),   *)
(* which reads the state instead, always give the same answer, although     *)
(* four different operations write the state.                               *)
LatchMatchesState == latched = (state \in PollingDisabled)

(* A boot that left BOOT_FAILED_RETRY forwards starts the next failure's    *)
(* backoff and retry count from zero: no forced exit, retry re-entry or     *)
(* handoff carries an old count into a connected FSM.                       *)
CountOnlyWhileFailing == retries > 0 => state \in {"BOOT_FAILED_RETRY"} \cup Terminal

(* No strategy is armed on capital of a previous connection: since the      *)
(* platform was last connected, every preparation state has been entered,   *)
(* by whichever threads walked there.                                       *)
ArmedAfterPreparation ==
    state \in StrategyArmAllowed => Preparing \cup {"CAPITAL_READY"} \subseteq entered

(* The comment in advance_to_capital_ready: the callback thread owns the    *)
(* FSM temporarily, and the previous owner is restored.  So it is, whatever *)
(* claims, resets and handoffs fall into the walk, as long as no two fast   *)
(* forwards overlap: a callback that left its walk owns nothing, and its    *)
(* identifier is nobody's previous owner.  (Two that overlap save each      *)
(* other, and can strand the ownership with a thread that has ended.)       *)
LoanIsReturned ==
    ~overlapped =>
        /\ owner \in Callbacks => HoldsLoan(owner)
        /\ \A t \in Walkers : HoldsLoan(t) => saved[t] \notin Callbacks

(* A process that asked for its restart is never walked back to a boot: not *)
(* by a retry, a forced transition, or a fast forward that began before.    *)
TerminalStays ==
    [][/\ state = "SHUTDOWN" => state' = "SHUTDOWN"
       /\ state = "EXTERNAL_RESTART_REQUIRED" => state' \in Terminal]_vars

=============================================================================
