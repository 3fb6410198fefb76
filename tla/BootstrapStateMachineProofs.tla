-------------------- MODULE BootstrapStateMachineProofs --------------------
(***************************************************************************)
(* Proofs about BootstrapStateMachine.  The FSM's own variables change in  *)
(* seven ways (an entry through the table, a reset, a forced retry exit, a *)
(* finalized boot, a cleared counter, an owner written, nothing); each has *)
(* one lemma, and a step is a walk of some thread to one of them.          *)
(***************************************************************************)
EXTENDS BootstrapStateMachine, TLAPS

FsmType ==
    /\ state \in States /\ owner \in Threads \cup {NoThread}
    /\ bootComplete \in BOOLEAN /\ execution \in BOOLEAN /\ latched \in BOOLEAN
    /\ retries \in 0 .. RetryBound
    /\ entered \subseteq States /\ state \in entered

LocalType ==
    /\ pc \in [Walkers -> {"idle", "barrier", "look", "drive", "restore", "stale", "zero"}]
    /\ saved \in [Walkers -> Threads \cup {NoThread}]
    /\ next \in [Walkers -> 1 .. Len(HappyPath) + 1]
    /\ overlapped \in BOOLEAN

\* What has been entered when the walk has come this far.
Prepared ==
    /\ state = "PLATFORM_READY" => {"PLATFORM_CONNECTING"} \subseteq entered
    /\ state = "BALANCE_HYDRATED" => {"PLATFORM_CONNECTING", "PLATFORM_READY"} \subseteq entered
    /\ state = "CAPABILITY_VERIFIED" =>
          {"PLATFORM_CONNECTING", "PLATFORM_READY", "BALANCE_HYDRATED"} \subseteq entered
    /\ state = "STARTUP_VALIDATED" =>
          Preparing \ {"STARTUP_VALIDATED", "CAPITAL_REFRESHING"} \subseteq entered
    /\ state = "CAPITAL_REFRESHING" => Preparing \ {"CAPITAL_REFRESHING"} \subseteq entered
    /\ ArmedAfterPreparation

\* A thread about to drive a transition has a target.
HasTarget == \A t \in Walkers : pc[t] = "drive" => next[t] <= Len(HappyPath)

FsmInv == FsmType /\ AuthorityIsSupervision /\ LatchMatchesState
            /\ CountOnlyWhileFailing /\ Prepared
IInv == FsmInv /\ LocalType /\ HasTarget

LEMMA HappyPathLength == Len(HappyPath) = 12
BY DEF HappyPath

\* The fast forward never asks for a failure, a terminal state or the handoff.
LEMMA HappyPathTargets ==
    ASSUME NEW i \in 1 .. 12
    PROVE  /\ HappyPath[i] \in States
           /\ HappyPath[i] # "BOOT_FAILED_RETRY"
           /\ HappyPath[i] \notin Terminal
BY DEF HappyPath, States, Preparing, StrategyArmAllowed, ErrorStates, Terminal

\* Every entry of the table is a state.
LEMMA TableIntoStates ==
    ASSUME state \in States, NEW target, ValidTransition(state, target)
    PROVE  target \in States
BY DEF ValidTransition, States, Preparing, StrategyArmAllowed, ErrorStates, Terminal

LEMMA EnterKeepsTypes ==
    ASSUME FsmInv, NEW target, ValidTransition(state, target), Enter(target),
           target = "BOOT_FAILED_RETRY" => CountsRetry
    PROVE  FsmType'
<1>1. target \in States
  BY TableIntoStates DEF FsmInv, FsmType
<1>2. state' \in States /\ owner' \in Threads \cup {NoThread}
  BY <1>1 DEF FsmInv, FsmType, Enter
<1>3. bootComplete' \in BOOLEAN /\ execution' \in BOOLEAN
  BY <1>1 DEF FsmInv, FsmType, Enter
<1>4. latched' \in BOOLEAN
  BY DEF Enter, LatchAfter
<1>5. retries' \in 0 .. RetryBound
  BY BoundAssumption DEF FsmInv, FsmType, Enter, RetriesAfter, CountsRetry
<1>6. entered' \subseteq States /\ state' \in entered'
  BY <1>1 DEF FsmInv, FsmType, Enter, Entered
<1> QED
  BY <1>2, <1>3, <1>4, <1>5, <1>6 DEF FsmType

LEMMA EnterKeepsFlags ==
    ASSUME FsmInv, NEW target, ValidTransition(state, target), Enter(target)
    PROVE  AuthorityIsSupervision' /\ LatchMatchesState' /\ CountOnlyWhileFailing'
<1>1. AuthorityIsSupervision'
  <2>1. CASE Released(target)
    BY <2>1 DEF Enter, AuthorityIsSupervision
  <2>2. CASE ~Released(target)
    <3>1. state # "RUNNING_SUPERVISED" /\ target # "RUNNING_SUPERVISED"
      BY <2>2 DEF Released, ValidTransition, Terminal, FsmInv, FsmType
    <3> QED
      BY <2>2, <3>1 DEF Enter, FsmInv, AuthorityIsSupervision
  <2> QED
    BY <2>1, <2>2
<1>2. LatchMatchesState'
  BY DEF Enter, LatchAfter, LatchMatchesState
<1>3. CountOnlyWhileFailing'
  <2>1. CASE target \in {"RUNNING_SUPERVISED", "PLATFORM_CONNECTING"}
    BY <2>1 DEF Enter, RetriesAfter, CountOnlyWhileFailing
  <2>2. CASE target = "BOOT_FAILED_RETRY"
    BY <2>2 DEF Enter, CountOnlyWhileFailing
  <2>3. CASE target \notin {"RUNNING_SUPERVISED", "PLATFORM_CONNECTING", "BOOT_FAILED_RETRY"}
    <3>1. retries' = retries /\ state' = target
      BY <2>3 DEF Enter, RetriesAfter
    <3>2. state \in {"BOOT_FAILED_RETRY"} \cup Terminal => target \in Terminal
      BY <2>3 DEF ValidTransition, Terminal
    <3> QED
      BY <3>1, <3>2 DEF FsmInv, CountOnlyWhileFailing
  <2> QED
    BY <2>1, <2>2, <2>3
<1> QED
  BY <1>1, <1>2, <1>3

LEMMA EnterKeepsPrepared ==
    ASSUME FsmInv, NEW target, ValidTransition(state, target), Enter(target)
    PROVE  Prepared'
<1>1. state' = target /\ state \in entered /\ Prepared
  BY DEF Enter, FsmInv, FsmType
<1>2. CASE target = "PLATFORM_CONNECTING"
  BY <1>1, <1>2 DEF Prepared, ArmedAfterPreparation, StrategyArmAllowed
<1>3. CASE target \in (Preparing \cup StrategyArmAllowed) \ {"PLATFORM_CONNECTING"}
  <2>1. entered' = entered \cup {target}
    BY <1>3 DEF Enter, Entered
  <2>2. CASE target \in Preparing
    BY <1>1, <1>3, <2>1, <2>2
       DEF Prepared, ArmedAfterPreparation, StrategyArmAllowed, Preparing, ValidTransition, Terminal
  <2>3. CASE target = "CAPITAL_READY"
    BY <1>1, <2>1, <2>3
       DEF Prepared, ArmedAfterPreparation, StrategyArmAllowed, Preparing, ValidTransition, Terminal
  <2>4. CASE target \in StrategyArmAllowed \ {"CAPITAL_READY"}
    <3>1. state \in StrategyArmAllowed
      BY <2>4 DEF StrategyArmAllowed, ValidTransition, Terminal
    <3> QED
      BY <1>1, <2>1, <2>4, <3>1 DEF Prepared, ArmedAfterPreparation, StrategyArmAllowed
  <2> QED
    BY <1>3, <2>2, <2>3, <2>4
<1>4. CASE target \notin Preparing \cup StrategyArmAllowed
  BY <1>1, <1>4 DEF Prepared, ArmedAfterPreparation, Preparing
<1> QED
  BY <1>2, <1>3, <1>4 DEF Preparing

\* An entry the table allows keeps the FSM's invariant.
LEMMA EnterKeeps ==
    ASSUME FsmInv, NEW target, ValidTransition(state, target), Enter(target),
           target = "BOOT_FAILED_RETRY" => CountsRetry
    PROVE  FsmInv'
BY EnterKeepsTypes, EnterKeepsFlags, EnterKeepsPrepared DEF FsmInv

-----------------------------------------------------------------------------
(* The moves that go around the table.                                     *)

\* Where the two entries into a failed or a forced connection stand.
LEMMA ForcedStates ==
    /\ "BOOT_FAILED_RETRY" \in States /\ "BOOT_FAILED_RETRY" \notin PollingDisabled
    /\ "PLATFORM_CONNECTING" \in States /\ "PLATFORM_CONNECTING" \notin PollingDisabled
BY DEF States, Preparing, StrategyArmAllowed, ErrorStates, Terminal, PollingDisabled

\* A state that is not supervised and not latched, with the flags cleared.
LEMMA ClearedFlags ==
    ASSUME state' # "RUNNING_SUPERVISED", state' \notin PollingDisabled,
           bootComplete' = FALSE, execution' = FALSE, latched' = FALSE
    PROVE  AuthorityIsSupervision' /\ LatchMatchesState'
<1>1. AuthorityIsSupervision'
  <2>1. (state' = "RUNNING_SUPERVISED") = FALSE
    OBVIOUS
  <2> QED
    BY <2>1, Zenon DEF AuthorityIsSupervision
<1>2. LatchMatchesState'
  <2>1. (state' \in PollingDisabled) = FALSE
    OBVIOUS
  <2> QED
    BY <2>1, Zenon DEF LatchMatchesState
<1> QED
  BY <1>1, <1>2

LEMMA ResetKeeps ==
    ASSUME FsmInv, CountsRetry, ResetEffects
    PROVE  FsmInv'
<1>1. FsmType'
  <2>1. retries' \in 0 .. RetryBound
    BY BoundAssumption DEF FsmInv, FsmType, ResetEffects, CountsRetry
  <2>2. /\ state' \in States /\ entered' \subseteq States /\ state' \in entered'
        /\ owner' \in Threads \cup {NoThread}
    BY ForcedStates DEF FsmInv, FsmType, ResetEffects
  <2>3. bootComplete' \in BOOLEAN /\ execution' \in BOOLEAN /\ latched' \in BOOLEAN
    BY DEF ResetEffects
  <2> QED
    BY <2>1, <2>2, <2>3 DEF FsmType
<1>2. AuthorityIsSupervision' /\ LatchMatchesState'
  BY ForcedStates, ClearedFlags DEF ResetEffects
<1>3. CountOnlyWhileFailing'
  BY DEF ResetEffects, CountOnlyWhileFailing
<1>4. Prepared'
  BY DEF ResetEffects, Prepared, ArmedAfterPreparation, StrategyArmAllowed
<1> QED
  BY <1>1, <1>2, <1>3, <1>4 DEF FsmInv

LEMMA ForcedExitKeeps ==
    ASSUME FsmInv, NEW t \in Threads, ForceTransitionFromRetry(t)
    PROVE  FsmInv'
<1>1. latched = FALSE
  <2>1. (state \in PollingDisabled) = FALSE
    BY ForcedStates DEF ForceTransitionFromRetry
  <2> QED
    BY <2>1, Zenon DEF FsmInv, LatchMatchesState
<1>2. FsmType'
  <2>1. retries' \in 0 .. RetryBound
    BY BoundAssumption DEF ForceTransitionFromRetry
  <2>2. /\ state' \in States /\ entered' \subseteq States /\ state' \in entered'
        /\ owner' \in Threads \cup {NoThread}
    BY ForcedStates DEF ForceTransitionFromRetry
  <2>3. bootComplete' \in BOOLEAN /\ execution' \in BOOLEAN /\ latched' \in BOOLEAN
    BY <1>1 DEF ForceTransitionFromRetry
  <2> QED
    BY <2>1, <2>2, <2>3 DEF FsmType
<1>3. AuthorityIsSupervision' /\ LatchMatchesState'
  BY <1>1, ForcedStates, ClearedFlags DEF ForceTransitionFromRetry
<1>4. CountOnlyWhileFailing'
  BY DEF ForceTransitionFromRetry, CountOnlyWhileFailing
<1>5. Prepared'
  BY DEF ForceTransitionFromRetry, Prepared, ArmedAfterPreparation, StrategyArmAllowed
<1> QED
  BY <1>2, <1>3, <1>4, <1>5 DEF FsmInv

LEMMA FinalizeKeeps ==
    ASSUME FsmInv, FinalizeBoot
    PROVE  FsmInv'
<1>1. FsmType'
  BY DEF FsmInv, FsmType, FinalizeBoot, States, StrategyArmAllowed
<1>2. AuthorityIsSupervision'
  BY DEF FinalizeBoot, AuthorityIsSupervision
<1>3. LatchMatchesState'
  BY DEF FsmInv, FinalizeBoot, Finalizable, LatchMatchesState, PollingDisabled, StrategyArmAllowed
<1>4. CountOnlyWhileFailing'
  BY DEF FsmInv, FsmType, FinalizeBoot, Finalizable, CountOnlyWhileFailing, Terminal
<1>5. Prepared'
  BY DEF FsmInv, FinalizeBoot, Finalizable, Prepared, ArmedAfterPreparation, StrategyArmAllowed
<1> QED
  BY <1>1, <1>2, <1>3, <1>4, <1>5 DEF FsmInv

\* Clearing the counter, and writing the owner, disturb nothing else.
LEMMA ZeroKeeps ==
    ASSUME FsmInv, retries' = 0,
           UNCHANGED <<state, owner, bootComplete, execution, latched, entered>>
    PROVE  FsmInv'
BY BoundAssumption DEF FsmInv, FsmType, AuthorityIsSupervision, LatchMatchesState,
       CountOnlyWhileFailing, Prepared, ArmedAfterPreparation

LEMMA OwnerKeeps ==
    ASSUME FsmInv, owner' \in Threads \cup {NoThread},
           UNCHANGED <<state, bootComplete, execution, latched, retries, entered>>
    PROVE  FsmInv'
BY DEF FsmInv, FsmType, AuthorityIsSupervision, LatchMatchesState,
       CountOnlyWhileFailing, Prepared, ArmedAfterPreparation

LEMMA SameFsmKeeps ==
    ASSUME FsmInv, UNCHANGED fsm
    PROVE  FsmInv'
BY DEF FsmInv, FsmType, AuthorityIsSupervision, LatchMatchesState,
       CountOnlyWhileFailing, Prepared, ArmedAfterPreparation, fsm

-----------------------------------------------------------------------------
(* The fast forward's places.                                              *)

LocalInv == LocalType /\ HasTarget

LEMMA SameLocalsKeep ==
    ASSUME LocalInv, UNCHANGED locals
    PROVE  LocalInv'
BY DEF LocalInv, LocalType, HasTarget, locals

\* Moving to a place where no transition is pending.
LEMMA MoveKeeps ==
    ASSUME LocalInv, NEW t \in Walkers,
           NEW place \in {"idle", "barrier", "look", "restore", "stale", "zero"},
           pc' = [pc EXCEPT ![t] = place], UNCHANGED <<saved, next, overlapped>>
    PROVE  LocalInv'
BY DEF LocalInv, LocalType, HasTarget

LEMMA StepKeepsLocals ==
    ASSUME LocalInv, FsmType, NEW t \in Walkers, Advance(t)
    PROVE  LocalInv'
<1>1. CASE BeginAdvance(t) \/ BarrierFails(t)
  BY <1>1, MoveKeeps DEF BeginAdvance, BarrierFails
<1>2. CASE BorrowOwnership(t)
  BY <1>2, HappyPathLength DEF BorrowOwnership, LocalInv, LocalType, HasTarget, FsmType
<1>3. CASE Look(t)
  <2>1. CASE WalkEnded(t)
    BY <1>3, <2>1, HappyPathLength DEF Look, LocalInv, LocalType, HasTarget
  <2>2. CASE ~WalkEnded(t)
    <3>1. next[t] \in 1 .. 12
      BY <2>2, HappyPathLength DEF WalkEnded, LocalInv, LocalType
    <3>2. CASE ValidTransition(state, HappyPath[next[t]])
      BY <1>3, <2>2, <3>1, <3>2, HappyPathLength DEF Look, LocalInv, LocalType, HasTarget
    <3>3. CASE ~ValidTransition(state, HappyPath[next[t]])
      <4>1. pc' = pc /\ saved' = saved /\ overlapped' = overlapped /\ pc[t] = "look"
        BY <1>3, <2>2, <3>3 DEF Look
      <4>2. PICK i \in 1 .. 13 : next' = [next EXCEPT ![t] = i]
        BY <1>3, <2>2, <3>1, <3>3 DEF Look
      <4> QED
        BY <4>1, <4>2, HappyPathLength DEF LocalInv, LocalType, HasTarget
    <3> QED
      BY <3>2, <3>3
  <2> QED
    BY <2>1, <2>2
<1>4. CASE Drive(t)
  <2>1. PICK i \in 1 .. 13 : next' = [next EXCEPT ![t] = i]
    <3>1. next[t] + 1 \in 1 .. 13
      BY <1>4, HappyPathLength DEF Drive, LocalInv, LocalType, HasTarget
    <3> QED
      BY <1>4, <3>1 DEF Drive
  <2> QED
    BY <1>4, <2>1, HappyPathLength DEF Drive, LocalInv, LocalType, HasTarget
<1>5. CASE RestoreOwner(t)
  BY <1>5 DEF RestoreOwner, LocalInv, LocalType, HasTarget
<1> QED
  BY <1>1, <1>2, <1>3, <1>4, <1>5 DEF Advance

LEMMA StepKeepsFsm ==
    ASSUME LocalInv, FsmInv, NEW t \in Walkers, Advance(t)
    PROVE  FsmInv'
<1>1. CASE BeginAdvance(t) \/ BarrierFails(t) \/ Look(t)
  BY <1>1, SameFsmKeeps DEF BeginAdvance, BarrierFails, Look
<1>2. CASE BorrowOwnership(t)
  BY <1>2, OwnerKeeps DEF BorrowOwnership, Walkers, Threads
<1>3. CASE RestoreOwner(t)
  BY <1>3, OwnerKeeps DEF RestoreOwner, LocalInv, LocalType
<1>4. CASE Drive(t)
  <2>1. CASE Allowed(t, HappyPath[next[t]])
    <3>1. next[t] \in 1 .. 12
      BY <1>4, HappyPathLength DEF Drive, LocalInv, LocalType, HasTarget
    <3>2. HappyPath[next[t]] # "BOOT_FAILED_RETRY"
      BY <3>1, HappyPathTargets
    <3>3. Enter(HappyPath[next[t]]) /\ ValidTransition(state, HappyPath[next[t]])
      BY <1>4, <2>1 DEF Drive, Allowed
    <3> QED
      BY <3>2, <3>3, EnterKeeps
  <2>2. CASE ~Allowed(t, HappyPath[next[t]])
    BY <1>4, <2>2, SameFsmKeeps DEF Drive
  <2> QED
    BY <2>1, <2>2
<1> QED
  BY <1>1, <1>2, <1>3, <1>4 DEF Advance

-----------------------------------------------------------------------------
LEMMA StartupKeeps ==
    ASSUME LocalInv, FsmInv, NEW t \in Drivers, Startup(t)
    PROVE  LocalInv' /\ FsmInv'
<1>1. t \in Walkers /\ t \in Threads
  BY DEF Walkers, Threads
<1>2. CASE FindStale(t)
  BY <1>1, <1>2, MoveKeeps, SameFsmKeeps DEF FindStale
<1>3. CASE ResetStale(t)
  BY <1>1, <1>3, MoveKeeps, SameFsmKeeps, ResetKeeps DEF ResetStale
<1>4. CASE ZeroRetries(t)
  BY <1>1, <1>4, MoveKeeps, ZeroKeeps DEF ZeroRetries
<1>5. CASE ClaimOwnership(t)
  BY <1>1, <1>5, SameLocalsKeep, OwnerKeeps DEF ClaimOwnership
<1>6. CASE ResetForRetry
  BY <1>6, SameLocalsKeep, ResetKeeps DEF ResetForRetry
<1>7. CASE FinalizeBoot
  BY <1>7, SameLocalsKeep, FinalizeKeeps DEF FinalizeBoot, locals
<1> QED
  BY <1>2, <1>3, <1>4, <1>5, <1>6, <1>7 DEF Startup

\* Every step keeps the invariant of the FSM and the places of its threads.
LEMMA NextKeeps ==
    ASSUME IInv, [Next]_vars
    PROVE  IInv'
<1> SUFFICES ASSUME LocalInv, FsmInv PROVE LocalInv' /\ FsmInv'
  BY DEF IInv, LocalInv
<1>1. ASSUME NEW t \in Walkers, Advance(t) PROVE LocalInv' /\ FsmInv'
  BY <1>1, StepKeepsLocals, StepKeepsFsm DEF FsmInv
<1>2. ASSUME NEW t \in Drivers, Startup(t) PROVE LocalInv' /\ FsmInv'
  BY <1>2, StartupKeeps
<1>3. ASSUME NEW t \in Drivers \cup Observers, ForceTransitionFromRetry(t)
      PROVE  LocalInv' /\ FsmInv'
  <2>1. t \in Threads /\ UNCHANGED locals
    BY <1>3 DEF Threads, ForceTransitionFromRetry, locals
  <2> QED
    BY <1>3, <2>1, SameLocalsKeep, ForcedExitKeeps
<1>4. ASSUME NEW t \in Drivers \cup Observers, NEW target \in States, Transition(t, target)
      PROVE  LocalInv' /\ FsmInv'
  BY <1>4, SameLocalsKeep, EnterKeeps DEF Transition, Allowed
<1>5. CASE UNCHANGED vars
  BY <1>5, SameLocalsKeep, SameFsmKeeps DEF vars
<1> QED
  BY <1>1, <1>2, <1>3, <1>4, <1>5 DEF Next

\* IInv holds in every state: the types, the flags, the latch, the counter, the
\* walk behind every armed state, and a target behind every pending transition.
THEOREM BootstrapInvariance == Spec => []IInv
<1>1. Init => IInv
  <2> SUFFICES ASSUME Init PROVE IInv
    OBVIOUS
  <2>1. state = "BOOT_INIT" /\ "BOOT_INIT" \in States /\ "BOOT_INIT" \notin PollingDisabled
    BY DEF Init, States, Preparing, StrategyArmAllowed, ErrorStates, Terminal, PollingDisabled
  <2>2. FsmType
    <3>1. retries \in 0 .. RetryBound
      BY BoundAssumption DEF Init
    <3>2. bootComplete \in BOOLEAN /\ execution \in BOOLEAN /\ latched \in BOOLEAN
      BY DEF Init
    <3>3. /\ state \in States /\ entered \subseteq States /\ state \in entered
          /\ owner \in Threads \cup {NoThread}
      BY <2>1 DEF Init
    <3> QED
      BY <3>1, <3>2, <3>3 DEF FsmType
  <2>3. AuthorityIsSupervision /\ LatchMatchesState /\ CountOnlyWhileFailing
    <3>1. (state = "RUNNING_SUPERVISED") = FALSE /\ (state \in PollingDisabled) = FALSE
      BY <2>1
    <3>2. CountOnlyWhileFailing
      BY DEF Init, CountOnlyWhileFailing
    <3> QED
      BY <3>1, <3>2, Zenon DEF Init, AuthorityIsSupervision, LatchMatchesState
  <2>4. Prepared
    BY <2>1 DEF Prepared, ArmedAfterPreparation, StrategyArmAllowed
  <2>5. LocalType /\ HasTarget
    <3>1. overlapped \in BOOLEAN
      BY DEF Init
    <3> QED
      BY <3>1, HappyPathLength DEF Init, LocalType, HasTarget
  <2> QED
    BY <2>2, <2>3, <2>4, <2>5 DEF IInv, FsmInv
<1>2. IInv /\ [Next]_vars => IInv'
  BY NextKeeps
<1> QED
  BY <1>1, <1>2, PTL DEF Spec

\* The variables keep their types, and the history ends with the state.
THEOREM BootstrapTypes == Spec => []TypeOK
<1>1. IInv => TypeOK
  BY DEF IInv, FsmInv, FsmType, LocalType, TypeOK
<1> QED
  BY <1>1, BootstrapInvariance, PTL

\* execution_authority and boot_complete hold exactly in RUNNING_SUPERVISED.
THEOREM SupervisionIsAuthority == Spec => []AuthorityIsSupervision
<1>1. IInv => AuthorityIsSupervision
  BY DEF IInv, FsmInv
<1> QED
  BY <1>1, BootstrapInvariance, PTL

\* The polling latch and is_balance_hydrated() always agree.
THEOREM LatchAgrees == Spec => []LatchMatchesState
<1>1. IInv => LatchMatchesState
  BY DEF IInv, FsmInv
<1> QED
  BY <1>1, BootstrapInvariance, PTL

\* The retry counter is positive only while the boot is failing or over.
THEOREM RetriesEnd == Spec => []CountOnlyWhileFailing
<1>1. IInv => CountOnlyWhileFailing
  BY DEF IInv, FsmInv
<1> QED
  BY <1>1, BootstrapInvariance, PTL

\* An armed state is reached only through every preparation state since the
\* last connection to the platform.
THEOREM PreparedWhenArmed == Spec => []ArmedAfterPreparation
<1>1. IInv => ArmedAfterPreparation
  BY DEF IInv, FsmInv, Prepared
<1> QED
  BY <1>1, BootstrapInvariance, PTL

-----------------------------------------------------------------------------
(* Termination is final.                                                   *)

LEMMA EnterFromTerminal ==
    ASSUME state \in Terminal, NEW target, ValidTransition(state, target), Enter(target)
    PROVE  state = "EXTERNAL_RESTART_REQUIRED" /\ state' \in Terminal
BY DEF Terminal, ValidTransition, Enter

\* What every step does to a terminal state.
LEMMA TerminalStep ==
    ASSUME state \in Terminal, [Next]_vars
    PROVE  \/ state' = state
           \/ state = "EXTERNAL_RESTART_REQUIRED" /\ state' \in Terminal
<1>1. ASSUME NEW t \in Walkers, Advance(t), ~Drive(t) PROVE state' = state
  BY <1>1 DEF Advance, BeginAdvance, BarrierFails, BorrowOwnership, Look, RestoreOwner, fsm
<1>2. ASSUME NEW t \in Walkers, Drive(t), state' # state
      PROVE  state = "EXTERNAL_RESTART_REQUIRED" /\ state' \in Terminal
  BY <1>2, EnterFromTerminal DEF Drive, Allowed, fsm
<1>3. ASSUME NEW t \in Drivers, Startup(t) PROVE state' = state
  BY <1>3 DEF Startup, FindStale, ResetStale, ZeroRetries, ClaimOwnership, ResetForRetry,
              Resettable, FinalizeBoot, Finalizable, Terminal, fsm
<1>4. ASSUME NEW t, ForceTransitionFromRetry(t) PROVE FALSE
  BY <1>4 DEF ForceTransitionFromRetry, Terminal
<1>5. ASSUME NEW t, NEW target, Transition(t, target)
      PROVE  state = "EXTERNAL_RESTART_REQUIRED" /\ state' \in Terminal
  BY <1>5, EnterFromTerminal DEF Transition, Allowed
<1>6. CASE UNCHANGED vars
  BY <1>6 DEF vars, fsm
<1> QED
  BY <1>1, <1>2, <1>3, <1>4, <1>5, <1>6 DEF Next

\* SHUTDOWN is never left, and EXTERNAL_RESTART_REQUIRED only for SHUTDOWN.
THEOREM TerminalIsFinal == Spec => TerminalStays
<1> DEFINE Stays == /\ state = "SHUTDOWN" => state' = "SHUTDOWN"
                    /\ state = "EXTERNAL_RESTART_REQUIRED" => state' \in Terminal
<1>1. [Next]_vars => [Stays]_vars
  BY TerminalStep DEF Terminal
<1> QED
  BY <1>1, PTL DEF Spec, TerminalStays

-----------------------------------------------------------------------------
(* The borrowed ownership.                                                 *)

\* Without an overlap one thread at most holds a loan, and it is returned.
OneLoan ==
    ~overlapped => \A t, u \in Walkers : HoldsLoan(t) /\ HoldsLoan(u) => t = u
LoanInv == OneLoan /\ LoanIsReturned

\* A step of thread t within or outside its walk that does not write the owner,
\* or writes one that is no callback.
LEMMA WalkKeepsLoan ==
    ASSUME LocalType, LoanInv, NEW t \in Walkers, NEW place,
           pc' = [pc EXCEPT ![t] = place],
           (place \in {"look", "drive", "restore"}) <=> HoldsLoan(t),
           owner' = owner \/ owner' = NoThread,
           UNCHANGED <<saved, overlapped>>
    PROVE  LoanInv'
<1>1. \A u \in Walkers : HoldsLoan(u)' <=> HoldsLoan(u)
  BY DEF LocalType, HoldsLoan
<1>2. OneLoan'
  BY <1>1 DEF LoanInv, OneLoan
<1>3. LoanIsReturned'
  BY <1>1, ThreadsAssumption DEF LoanInv, LoanIsReturned, Walkers, Threads
<1> QED
  BY <1>2, <1>3 DEF LoanInv

\* A step that leaves every place alone and writes no callback as owner.
LEMMA OwnerKeepsLoan ==
    ASSUME LoanInv, owner' = owner \/ owner' \notin Callbacks, UNCHANGED locals
    PROVE  LoanInv'
BY DEF LoanInv, OneLoan, LoanIsReturned, HoldsLoan, locals

LEMMA BorrowKeepsLoan ==
    ASSUME LocalType, LoanInv, NEW t \in Walkers, BorrowOwnership(t)
    PROVE  LoanInv'
<1> SUFFICES ASSUME ~overlapped' PROVE LoanInv'
  BY DEF LoanInv, OneLoan, LoanIsReturned
<1>1. ~overlapped /\ \A u \in Walkers : ~HoldsLoan(u)
  BY DEF BorrowOwnership, HoldsLoan
<1>2. \A u \in Walkers : HoldsLoan(u)' <=> u = t
  BY <1>1 DEF BorrowOwnership, LocalType, HoldsLoan
<1>3. owner \notin Callbacks
  BY <1>1 DEF LoanInv, LoanIsReturned, Walkers
<1>4. owner' = t /\ saved'[t] = owner
  BY DEF BorrowOwnership, LocalType
<1> QED
  BY <1>2, <1>3, <1>4 DEF LoanInv, OneLoan, LoanIsReturned

LEMMA RestoreKeepsLoan ==
    ASSUME LocalType, LoanInv, NEW t \in Walkers, RestoreOwner(t)
    PROVE  LoanInv'
<1> SUFFICES ASSUME ~overlapped' PROVE LoanInv'
  BY DEF LoanInv, OneLoan, LoanIsReturned
<1>1. ~overlapped /\ HoldsLoan(t)
  BY DEF RestoreOwner, HoldsLoan
<1>2. owner' = saved[t] /\ saved[t] \notin Callbacks
  BY <1>1 DEF RestoreOwner, LoanInv, LoanIsReturned
<1>3. \A u \in Walkers : ~HoldsLoan(u)'
  BY <1>1 DEF RestoreOwner, LocalType, HoldsLoan, LoanInv, OneLoan
<1> QED
  BY <1>2, <1>3 DEF LoanInv, OneLoan, LoanIsReturned

LEMMA EnterOwner ==
    ASSUME NEW target, Enter(target)
    PROVE  owner' = owner \/ owner' = NoThread
BY DEF Enter

LEMMA AdvanceKeepsLoan ==
    ASSUME LocalType, LoanInv, NEW t \in Walkers, Advance(t)
    PROVE  LoanInv'
<1>1. CASE BeginAdvance(t) \/ BarrierFails(t)
  BY <1>1, WalkKeepsLoan DEF BeginAdvance, BarrierFails, HoldsLoan, fsm
<1>2. CASE Look(t)
  <2>1. PICK place \in {"look", "drive", "restore"} : pc' = [pc EXCEPT ![t] = place]
    BY <1>2 DEF Look, LocalType
  <2> QED
    BY <1>2, <2>1, WalkKeepsLoan DEF Look, HoldsLoan, fsm
<1>3. CASE Drive(t)
  <2>1. owner' = owner \/ owner' = NoThread
    BY <1>3, EnterOwner DEF Drive, fsm
  <2> QED
    BY <1>3, <2>1, WalkKeepsLoan DEF Drive, HoldsLoan
<1> QED
  BY <1>1, <1>2, <1>3, BorrowKeepsLoan, RestoreKeepsLoan DEF Advance

LEMMA StartupKeepsLoan ==
    ASSUME LocalType, LoanInv, NEW t \in Drivers, Startup(t)
    PROVE  LoanInv'
<1>1. t \in Walkers /\ t \notin Callbacks /\ NoThread \notin Callbacks
  BY ThreadsAssumption DEF Walkers, Threads
<1>2. CASE FindStale(t) \/ ResetStale(t) \/ ZeroRetries(t)
  BY <1>1, <1>2, WalkKeepsLoan DEF FindStale, ResetStale, ResetEffects, ZeroRetries, HoldsLoan, fsm
<1>3. CASE ClaimOwnership(t) \/ ResetForRetry \/ FinalizeBoot
  <2>1. UNCHANGED locals /\ owner' \notin Callbacks
    BY <1>1, <1>3 DEF ClaimOwnership, ResetForRetry, ResetEffects, FinalizeBoot, locals
  <2> QED
    BY <2>1, OwnerKeepsLoan
<1> QED
  BY <1>2, <1>3 DEF Startup

LEMMA NextKeepsLoan ==
    ASSUME LocalType, LoanInv, [Next]_vars
    PROVE  LoanInv'
<1>1. ASSUME NEW t \in Walkers, Advance(t) PROVE LoanInv'
  BY <1>1, AdvanceKeepsLoan
<1>2. ASSUME NEW t \in Drivers, Startup(t) PROVE LoanInv'
  BY <1>2, StartupKeepsLoan
<1>3. ASSUME NEW t \in Drivers \cup Observers, ForceTransitionFromRetry(t) PROVE LoanInv'
  BY <1>3, ThreadsAssumption, OwnerKeepsLoan DEF ForceTransitionFromRetry, locals
<1>4. ASSUME NEW t \in Drivers \cup Observers, NEW target \in States, Transition(t, target)
      PROVE  LoanInv'
  BY <1>4, ThreadsAssumption, EnterOwner, OwnerKeepsLoan DEF Transition, Threads
<1>5. CASE UNCHANGED vars
  BY <1>5, OwnerKeepsLoan DEF vars, fsm
<1> QED
  BY <1>1, <1>2, <1>3, <1>4, <1>5 DEF Next

\* As long as no two fast forwards overlap, whatever else falls into a walk, a
\* callback owns the FSM only during its own walk, and is nobody's previous owner.
THEOREM OwnershipIsReturned == Spec => []LoanIsReturned
<1>1. Init => LoanInv
  BY ThreadsAssumption DEF Init, LoanInv, OneLoan, LoanIsReturned, HoldsLoan, Threads
<1>2. IInv /\ LoanInv /\ [Next]_vars => LoanInv'
  BY NextKeepsLoan DEF IInv
<1>3. LoanInv => LoanIsReturned
  BY DEF LoanInv
<1> QED
  BY <1>1, <1>2, <1>3, BootstrapInvariance, PTL DEF Spec
=============================================================================
