---------------------- MODULE StartupCoordinatorProofs ----------------------
(***************************************************************************)
(* What the startup coordinator guarantees for every set of callers and    *)
(* every evidence they may record.  The argument rests on one inductive    *)
(* invariant, IInv: the record and the callers' snapshots are well typed,  *)
(* a cached reconcile result is justified by the inputs cached with it,    *)
(* and the commit flag and the commit latch stand and fall together.       *)
(***************************************************************************)
EXTENDS StartupCoordinator, CoordinatorRuntimeProofs

Sound(rt) ==
  /\ rt \in Runtime
  /\ CacheJustified(rt)
  /\ rt.activation_committed = rt.commit_latch

\* A step of the runtime record: an epoch that moves goes up and drops the latch.
Advances(rt, new) ==
  /\ Sound(new)
  /\ \/ new.global_epoch = rt.global_epoch
     \/ new.global_epoch > rt.global_epoch /\ ~new.commit_latch

\* The inductive invariant.
IInv == TypeOK /\ Sound(runtime)

-----------------------------------------------------------------------------
(* Steps of the runtime record.                                            *)

LEMMA EvolvesAdvances ==
  ASSUME NEW rt, Sound(rt), NEW new, Evolves(rt, new)
  PROVE  Advances(rt, new)
<1>1. CacheJustified(new)
  BY DEF Sound, Evolves, CacheJustified
<1>2. new.activation_committed = new.commit_latch
  BY DEF Sound, Evolves, Runtime
<1> QED
  BY <1>1, <1>2 DEF Sound, Evolves, Advances

LEMMA SnapshotBuiltAdvances ==
  ASSUME NEW rt, Sound(rt), NEW ts \in TradingStateNames, NEW intent \in BOOLEAN
  PROVE  /\ Advances(rt, SnapshotBuilt(rt, ts, intent))
         /\ SnapshotBuilt(rt, ts, intent).global_epoch = rt.global_epoch
  BY SnapshotBuiltType DEF Sound, Advances

LEMMA SnapshotEvaluatedAdvances ==
  ASSUME NEW rt, Sound(rt), NEW ts \in TradingStateNames, NEW intent \in BOOLEAN
  PROVE  /\ Sound(SnapshotEvaluated(rt, ts, intent))
         /\ SnapshotEvaluated(rt, ts, intent).global_epoch = rt.global_epoch
         /\ SnapshotEvaluated(rt, ts, intent).commit_latch = rt.commit_latch
<1> DEFINE built == SnapshotBuilt(rt, ts, intent)
           snapshot == Snapshot(rt, ts, intent)
<1>1. /\ Sound(built)
      /\ built.global_epoch = rt.global_epoch
      /\ built.commit_latch = rt.commit_latch
  BY SnapshotBuiltType DEF Sound
<1> HIDE DEF built, snapshot
<1>2. Evolves(built, ActivationEvaluated(built, snapshot))
  BY <1>1, ActivationEvaluatedEvolves DEF Sound
<1>3. Sound(ActivationEvaluated(built, snapshot))
  BY <1>1, <1>2, EvolvesAdvances DEF Advances
<1>4. /\ ActivationEvaluated(built, snapshot).global_epoch = built.global_epoch
      /\ ActivationEvaluated(built, snapshot).commit_latch = built.commit_latch
  BY <1>1 DEF ActivationEvaluated, Sound, Runtime
<1>5. SnapshotEvaluated(rt, ts, intent) = ActivationEvaluated(built, snapshot)
  BY DEF SnapshotEvaluated, built, snapshot
<1> QED
  BY <1>1, <1>3, <1>4, <1>5

LEMMA EvidenceEvaluatedAdvances ==
  ASSUME NEW rt, Sound(rt), NEW mid, Evolves(rt, mid),
         NEW ts \in TradingStateNames, NEW intent \in BOOLEAN
  PROVE  Advances(rt, SnapshotEvaluated(mid, ts, intent))
<1>1. Advances(rt, mid)
  BY EvolvesAdvances
<1>2. Sound(mid)
  BY <1>1 DEF Advances
<1> QED
  BY <1>1, <1>2, SnapshotEvaluatedAdvances DEF Advances

LEMMA TransactionAdvances ==
  ASSUME NEW rt, Sound(rt), NEW tx \in TransactionType
  PROVE  Advances(rt, TransactionApplied(rt, tx))
<1>1. Evolves(rt, TransactionEvidence(rt, tx))
  BY TransactionEvolves DEF Sound
<1>2. tx.trading_state \in TradingStateNames /\ tx.activation_intent \in BOOLEAN
  BY DEF TransactionType
<1> QED
  BY <1>1, <1>2, EvidenceEvaluatedAdvances DEF TransactionApplied

LEMMA CommitAdvances ==
  ASSUME NEW rt, Sound(rt), NEW snapshot \in SnapshotType,
         NEW same_version \in BOOLEAN
  PROVE  LET new == ActivationCommitted(rt, snapshot, same_version) IN
         Advances(rt, new) /\ new.commit_latch
<1> DEFINE new == ActivationCommitted(rt, snapshot, same_version)
<1>1. /\ new \in Runtime
      /\ CacheJustified(new)
      /\ new.global_epoch = rt.global_epoch
      /\ new.commit_latch /\ new.activation_committed
  BY ActivationCommittedType DEF Sound
<1>2. new.activation_committed = new.commit_latch
  BY <1>1 DEF Runtime
<1> QED
  BY <1>1, <1>2 DEF Sound, Advances

LEMMA SnapshotOfSound ==
  ASSUME NEW rt, Sound(rt), NEW ts \in TradingStateNames, NEW intent \in BOOLEAN
  PROVE  Snapshot(rt, ts, intent) \in SnapshotType
  BY SnapshotIsTyped DEF Sound

-----------------------------------------------------------------------------
(* The initial state.                                                      *)

LEMMA InitSound == Init => IInv
<1> SUFFICES ASSUME Init PROVE IInv
  OBVIOUS
<1>1. /\ "BOOT_INIT" \in CoordinatorStates /\ "BOOT_INIT" \in BootstrapStates
      /\ "BOOT_INIT" \in CapitalStates /\ "BOOT" \in RuntimeAuthorityStates
  BY DEF CoordinatorStates, SuppressedStates, BootstrapStates, CapitalStates,
         RuntimeAuthorityStates
<1>2. InitRuntime.capital \in Capital /\ InitRuntime.readiness_table \in Table
  BY <1>1 DEF InitRuntime, Capital, Table
<1>3. InitRuntime \in Runtime
  BY <1>1, <1>2 DEF InitRuntime, Runtime
<1>4. CacheJustified(InitRuntime)
  BY DEF CacheJustified, InitRuntime
<1>5. InitRuntime.activation_committed = InitRuntime.commit_latch
  BY DEF InitRuntime
<1>6. TypeOK
  BY <1>3 DEF Init, TypeOK, PcStates
<1> QED
  BY <1>3, <1>4, <1>5, <1>6 DEF IInv, Sound, Init

-----------------------------------------------------------------------------
(* The actions.                                                            *)

\* What every step does to the runtime record.
RuntimeStep == Advances(runtime, runtime')

LEMMA EvidenceStep ==
  ASSUME IInv, Evidence
  PROVE  RuntimeStep /\ UNCHANGED <<pc, held>>
<1> SUFFICES \E rt : Evolves(runtime, rt) /\ Record(rt)
  BY EvolvesAdvances DEF Record, RuntimeStep, IInv
<1> USE CoordinatorAssumption DEF CoordinatorAssumption
<1>0. runtime \in Runtime
  BY DEF IInv, Sound
<1>1. CASE RecordBootstrapState
  BY <1>0, <1>1, BootstrapStateEvolves DEF RecordBootstrapState
<1>2. CASE RecordReadiness
  BY <1>0, <1>2, ReadinessEvolves DEF RecordReadiness
<1>3. CASE RecordGlobalGate
  BY <1>0, <1>3, GlobalGateEvolves DEF RecordGlobalGate
<1>4. CASE RecordCapitalState
  BY <1>0, <1>4, CapitalStateEvolves DEF RecordCapitalState
<1>5. CASE RecordAuthority
  BY <1>0, <1>5, AuthorityEvolves DEF RecordAuthority
<1>6. CASE RecordNonceStatus
  BY <1>0, <1>6, NonceStatusEvolves DEF RecordNonceStatus
<1>7. CASE RecordDispatchHealth
  BY <1>0, <1>7, DispatchHealthEvolves DEF RecordDispatchHealth
<1>8. CASE RecordThreadsLaunched
  BY <1>0, <1>8, ThreadsLaunchedEvolves DEF RecordThreadsLaunched
<1>9. CASE RecordThreadsConfirmedRunning
  BY <1>0, <1>9, ThreadsConfirmedEvolves DEF RecordThreadsConfirmedRunning
<1>10. CASE RecordThreadsSupervised
  BY <1>0, <1>10, ThreadsSupervisedEvolves DEF RecordThreadsSupervised
<1>11. CASE RecordActivationRequested
  BY <1>0, <1>11, ActivationRequestEvolves DEF RecordActivationRequested
<1>12. CASE RecordKillSwitch
  BY <1>0, <1>12, KillSwitchEvolves DEF RecordKillSwitch
<1>13. CASE RecordFailSafe
  BY <1>0, <1>13, FailSafeEvolves DEF RecordFailSafe
<1> QED
  BY <1>1, <1>2, <1>3, <1>4, <1>5, <1>6, <1>7, <1>8, <1>9, <1>10, <1>11, <1>12,
     <1>13 DEF Evidence

LEMMA PollStep ==
  ASSUME IInv, PollAuthority
  PROVE  RuntimeStep /\ UNCHANGED <<pc, held>>
  BY CoordinatorAssumption, SnapshotBuiltAdvances
  DEF CoordinatorAssumption, PollAuthority, Record, RuntimeStep, IInv

LEMMA RecordAuthorityAndEvaluateStep ==
  ASSUME IInv, RecordAuthorityAndEvaluate
  PROVE  RuntimeStep /\ UNCHANGED <<pc, held>>
<1>1. PICK report \in AuthorityReports, ts \in TradingStates, intent \in Intents :
        Record(SnapshotEvaluated(AuthorityRecorded(runtime, report), ts, intent))
  BY DEF RecordAuthorityAndEvaluate
<1>2. /\ report \in AuthorityReport
      /\ ts \in TradingStateNames
      /\ intent \in BOOLEAN
  BY CoordinatorAssumption DEF CoordinatorAssumption
<1>3. Evolves(runtime, AuthorityRecorded(runtime, report))
  BY <1>2, AuthorityEvolves DEF IInv, Sound
<1> QED
  BY <1>1, <1>2, <1>3, EvidenceEvaluatedAdvances
  DEF Record, RuntimeStep, IInv

\* A caller that holds a snapshot holds one of the right type.
LEMMA HeldIsTyped ==
  ASSUME TypeOK, NEW c \in Callers, pc[c] \in {"holding", "committing", "proved"}
  PROVE  /\ held[c] \in SnapshotType
         /\ held[c].trading_state \in TradingStateNames
         /\ held[c].activation_intent \in BOOLEAN
<1>1. held[c] \in SnapshotType
  BY DEF TypeOK
<1> QED
  BY <1>1 DEF SnapshotType

\* What every step of caller c does to the control state.
ControlStep(c) ==
  /\ pc' = [pc EXCEPT ![c] = pc'[c]]
  /\ held' = [held EXCEPT ![c] = held'[c]]
  /\ pc'[c] \in PcStates
  /\ held'[c] \in SnapshotType \cup {None}
  /\ held'[c] # None <=> pc'[c] \in {"holding", "committing", "proved"}

LEMMA TakeSnapshotStep ==
  ASSUME IInv, NEW c \in Callers, TakeSnapshot(c)
  PROVE  RuntimeStep /\ ControlStep(c)
<1>1. PICK ts \in TradingStates, intent \in Intents :
        /\ runtime' = SnapshotBuilt(runtime, ts, intent)
        /\ held' = [held EXCEPT ![c] = Snapshot(runtime, ts, intent)]
  BY DEF TakeSnapshot
<1>2. ts \in TradingStateNames /\ intent \in BOOLEAN
  BY CoordinatorAssumption DEF CoordinatorAssumption
<1>3. RuntimeStep
  BY <1>1, <1>2, SnapshotBuiltAdvances DEF IInv, RuntimeStep
<1>4. Snapshot(runtime, ts, intent) \in SnapshotType
  BY <1>2, SnapshotOfSound DEF IInv
<1>5. pc' = [pc EXCEPT ![c] = "holding"]
  BY DEF TakeSnapshot
<1> QED
  BY <1>1, <1>3, <1>4, <1>5, NoneAssumption
  DEF ControlStep, IInv, TypeOK, PcStates

LEMMA EvaluateActivationStep ==
  ASSUME IInv, NEW c \in Callers, EvaluateActivation(c)
  PROVE  RuntimeStep /\ ControlStep(c)
<1>1. RuntimeStep
  BY ActivationEvaluatedEvolves, EvolvesAdvances
  DEF EvaluateActivation, RuntimeStep, IInv, Sound
<1> QED
  BY <1>1 DEF EvaluateActivation, ControlStep, IInv, TypeOK, PcStates

LEMMA ApplyTransactionStep ==
  ASSUME IInv, NEW c \in Callers, NEW tx \in TransactionType,
         ApplyTransaction(c, tx)
  PROVE  RuntimeStep /\ ControlStep(c)
<1> DEFINE mid == TransactionEvidence(runtime, tx)
           snapshot == TransactionSnapshot(runtime, tx)
<1>1. RuntimeStep
  BY TransactionAdvances DEF ApplyTransaction, RuntimeStep, IInv
<1>2. Sound(mid)
  BY TransactionEvolves, EvolvesAdvances DEF IInv, Sound, Advances
<1>3. snapshot \in SnapshotType
  BY <1>2, SnapshotOfSound DEF TransactionSnapshot, TransactionType
<1> HIDE DEF mid, snapshot
<1>4. pc[c] = "idle" /\ held[c] = None
  BY DEF ApplyTransaction, IInv, TypeOK
<1>5. \/ UNCHANGED <<pc, held>>
      \/ /\ pc' = [pc EXCEPT ![c] = "committing"]
         /\ held' = [held EXCEPT ![c] = snapshot]
  BY DEF ApplyTransaction, snapshot
<1> QED
  BY <1>1, <1>3, <1>4, <1>5, NoneAssumption
  DEF ControlStep, IInv, TypeOK, PcStates

LEMMA FinalizeSnapshotStep ==
  ASSUME IInv, NEW c \in Callers, FinalizeSnapshot(c)
  PROVE  RuntimeStep /\ ControlStep(c)
<1> DEFINE ts == held[c].trading_state
           intent == held[c].activation_intent
<1>1. ts \in TradingStateNames /\ intent \in BOOLEAN
  BY HeldIsTyped DEF IInv, FinalizeSnapshot
<1>2. /\ runtime' = SnapshotBuilt(runtime, ts, intent)
      /\ held' = [held EXCEPT ![c] = Snapshot(runtime, ts, intent)]
      /\ pc' = [pc EXCEPT ![c] = "proved"]
  BY DEF FinalizeSnapshot
<1> HIDE DEF ts, intent
<1>3. RuntimeStep
  BY <1>1, <1>2, SnapshotBuiltAdvances DEF IInv, RuntimeStep
<1>4. Snapshot(runtime, ts, intent) \in SnapshotType
  BY <1>1, SnapshotOfSound DEF IInv
<1> QED
  BY <1>2, <1>3, <1>4, NoneAssumption DEF ControlStep, IInv, TypeOK, PcStates

LEMMA FinalizeCommitStep ==
  ASSUME IInv, NEW c \in Callers, FinalizeCommit(c)
  PROVE  /\ RuntimeStep /\ ControlStep(c)
         /\ held[c].passed => runtime'.commit_latch
<1>1. held[c] \in SnapshotType
  BY HeldIsTyped DEF IInv, FinalizeCommit
<1>2. ControlStep(c)
  BY DEF FinalizeCommit, ControlStep, IInv, TypeOK, PcStates
<1>3. CASE /\ ~held[c].passed \/ AlreadyCommitted(runtime, held[c])
           /\ UNCHANGED runtime
  <2>1. RuntimeStep
    BY <1>3 DEF RuntimeStep, Advances, IInv
  <2>2. held[c].passed => runtime.activation_committed
    BY <1>3 DEF AlreadyCommitted
  <2> QED
    BY <1>2, <1>3, <2>1, <2>2 DEF IInv, Sound
<1>4. CASE \E same_version \in BOOLEAN :
             runtime' = ActivationCommitted(runtime, held[c], same_version)
  BY <1>1, <1>2, <1>4, CommitAdvances DEF RuntimeStep, IInv
<1> QED
  BY <1>3, <1>4 DEF FinalizeCommit, CommitWindow

LEMMA ForceStep ==
  ASSUME IInv, NEW c \in Callers,
         \/ ForceActivateBypass(c) \/ ForceProbe(c)
         \/ ForceRequest(c) \/ ForceSnapshot(c)
  PROVE  RuntimeStep /\ ControlStep(c)
<1>1. CASE ForceActivateBypass(c)
  <2>1. RuntimeStep
    BY <1>1 DEF ForceActivateBypass, RuntimeStep, Advances, IInv
  <2> QED
    BY <1>1, <2>1 DEF ForceActivateBypass, ControlStep, IInv, TypeOK, PcStates
<1>2. CASE ForceProbe(c)
  <2>1. RuntimeStep
    BY <1>2, SnapshotBuiltAdvances
    DEF ForceProbe, RuntimeStep, IInv, TradingStateNames
  <2> QED
    BY <1>2, <2>1 DEF ForceProbe, ControlStep, IInv, TypeOK, PcStates
<1>3. CASE ForceRequest(c)
  <2>1. RuntimeStep
    BY <1>3, ActivationRequestEvolves, EvolvesAdvances
    DEF ForceRequest, RuntimeStep, IInv, Sound
  <2> QED
    BY <1>3, <2>1 DEF ForceRequest, ControlStep, IInv, TypeOK, PcStates
<1>4. CASE ForceSnapshot(c)
  <2> DEFINE snapshot == Snapshot(runtime, "LIVE_PENDING_CONFIRMATION", TRUE)
  <2>1. RuntimeStep
    BY <1>4, SnapshotBuiltAdvances
    DEF ForceSnapshot, RuntimeStep, IInv, TradingStateNames
  <2>2. snapshot \in SnapshotType
    BY SnapshotOfSound DEF IInv, TradingStateNames
  <2> HIDE DEF snapshot
  <2>3. held[c] = None
    BY <1>4 DEF ForceSnapshot, IInv, TypeOK
  <2>4. \/ pc' = [pc EXCEPT ![c] = "idle"] /\ UNCHANGED held
        \/ /\ pc' = [pc EXCEPT ![c] = "committing"]
           /\ held' = [held EXCEPT ![c] = snapshot]
    BY <1>4 DEF ForceSnapshot, snapshot
  <2> QED
    BY <2>1, <2>2, <2>3, <2>4, NoneAssumption
    DEF ControlStep, IInv, TypeOK, PcStates
<1> QED
  BY <1>1, <1>2, <1>3, <1>4

LEMMA CallerStepSound ==
  ASSUME IInv, NEW c \in Callers, CallerStep(c)
  PROVE  RuntimeStep /\ ControlStep(c)
<1>1. CASE ApplyBootstrapTransaction(c)
  BY <1>1, CoordinatorAssumption, ApplyTransactionStep
  DEF ApplyBootstrapTransaction, CoordinatorAssumption
<1> QED
  BY <1>1, TakeSnapshotStep, EvaluateActivationStep, FinalizeSnapshotStep,
     FinalizeCommitStep, ForceStep DEF CallerStep

-----------------------------------------------------------------------------
(* Induction.                                                              *)

LEMMA NextAdvances ==
  ASSUME IInv, [Next]_vars
  PROVE  RuntimeStep
<1>1. CASE UNCHANGED vars
  BY <1>1 DEF vars, RuntimeStep, Advances, IInv
<1>2. CASE Next
  BY <1>2, EvidenceStep, PollStep, RecordAuthorityAndEvaluateStep,
     CallerStepSound DEF Next
<1> QED
  BY <1>1, <1>2

LEMMA TypePreserved ==
  ASSUME IInv, [Next]_vars
  PROVE  TypeOK'
<1>1. runtime' \in Runtime
  BY NextAdvances DEF RuntimeStep, Advances, Sound
<1>2. CASE UNCHANGED <<pc, held>>
  BY <1>1, <1>2 DEF IInv, TypeOK
<1>3. CASE \E c \in Callers : CallerStep(c)
  <2>1. PICK c \in Callers : ControlStep(c)
    BY <1>3, CallerStepSound
  <2>2. /\ pc' \in [Callers -> PcStates]
        /\ held' \in [Callers -> SnapshotType \cup {None}]
    BY <2>1 DEF ControlStep, IInv, TypeOK
  <2>3. ASSUME NEW d \in Callers
        PROVE  held'[d] # None <=> pc'[d] \in {"holding", "committing", "proved"}
    <3>1. CASE d = c
      BY <2>1, <3>1 DEF ControlStep
    <3>2. CASE d # c
      BY <2>1, <3>2 DEF ControlStep, IInv, TypeOK
    <3> QED
      BY <3>1, <3>2
  <2> QED
    BY <1>1, <2>2, <2>3 DEF TypeOK
<1>4. UNCHANGED <<pc, held>> \/ \E c \in Callers : CallerStep(c)
  BY EvidenceStep, PollStep, RecordAuthorityAndEvaluateStep DEF Next, vars
<1> QED
  BY <1>2, <1>3, <1>4

\* IInv is an invariant: every field keeps its type, the cache stays justified
\* by its own inputs and the commit flag never outlives the latch.
THEOREM Invariance == Spec => []IInv
<1>1. IInv /\ [Next]_vars => IInv'
  BY NextAdvances, TypePreserved DEF IInv, RuntimeStep, Advances
<1> QED
  BY <1>1, InitSound, PTL DEF Spec

\* The runtime record and the callers' snapshots keep their types.
THEOREM TypeCorrectness == Spec => []TypeOK
<1>1. IInv => TypeOK
  BY DEF IInv
<1> QED
  BY <1>1, Invariance, PTL

-----------------------------------------------------------------------------
(* Safety.                                                                 *)

LEMMA DispatchSafety ==
  ASSUME Sound(runtime)
  PROVE  DispatchSafe
<1> SUFFICES ASSUME NEW ts \in TradingStates, NEW intent \in BOOLEAN,
                    DispatchEnabled(ts, intent)
             PROVE  /\ ts = "LIVE_ACTIVE"
                    /\ runtime.commit_latch
                    /\ ~runtime.kill_switch_active
                    /\ runtime.authority_ready
                    /\ runtime.nonce_ready
                    /\ runtime.dispatch_health_ready
                    /\ runtime.threads_launched > 0
                    /\ runtime.threads_confirmed_running
                    /\ CapitalHardGate(runtime.capital)
                    /\ ~runtime.capital.stale
                    /\ Pending(runtime.readiness_table) = {}
                    /\ runtime.activation_epoch = runtime.global_epoch
                    /\ runtime.coordinator_state \notin
                         SuppressedStates \cup FailSafeStates
                         \cup {"DEGRADED_RETRY", "RESTART_REQUIRED"}
  BY DEF DispatchSafe
<1> DEFINE in == Inputs(runtime, ts, intent)
<1>1. ts \in TradingStateNames
  BY CoordinatorAssumption DEF CoordinatorAssumption
<1>2. /\ ReconcilePermitted(runtime)
      /\ ~DegradedState(in)
      /\ Executing(in)
  BY <1>1, SnapshotAuthorityJustified DEF DispatchEnabled, Sound
<1>3. in.coordinator_state = runtime.coordinator_state
  BY DEF Inputs
<1>4. runtime.coordinator_state \notin
        SuppressedStates \cup FailSafeStates \cup {"DEGRADED_RETRY", "RESTART_REQUIRED"}
  BY <1>2, <1>3, StateNames DEF ReconcilePermitted, DegradedState
<1> QED
  BY <1>2, <1>4 DEF Executing, AuthorityConverged, PrereqsReady, Inputs

\* dispatch_enabled is only reported in LIVE_ACTIVE over a standing latch, with
\* every gate of the reconcile open now, whatever was cached before.
THEOREM DispatchIsSafe == Spec => []DispatchSafe
<1>1. IInv => DispatchSafe
  BY DispatchSafety DEF IInv
<1> QED
  BY <1>1, Invariance, PTL

LEMMA AuthorizedProves ==
  ASSUME Sound(runtime)
  PROVE  AuthorizedMeansProven
<1> SUFFICES ASSUME NEW ts \in TradingStates, NEW intent \in BOOLEAN,
                    SnapshotAuthority(runtime, ts, intent)
                      \in {"AUTHORIZED", "EXECUTING"}
             PROVE  ProofPassed(runtime, ts, intent)
  BY DEF AuthorizedMeansProven, ProofPassed
<1>1. ts \in TradingStateNames
  BY CoordinatorAssumption DEF CoordinatorAssumption
<1>2. AuthorityConverged(Inputs(runtime, ts, intent))
  BY <1>1, SnapshotAuthorityJustified DEF Sound
<1> QED
  BY <1>2 DEF AuthorityConverged, PrereqsReady, CapitalHardGate, Inputs, ProofPassed

\* The reconcile and the readiness proof agree on when a commit may happen.
THEOREM AuthorizedIsProven == Spec => []AuthorizedMeansProven
<1>1. IInv => AuthorizedMeansProven
  BY AuthorizedProves DEF IInv
<1> QED
  BY <1>1, Invariance, PTL

LEMMA DegradedEvaluates ==
  ASSUME Sound(runtime)
  PROVE  EvaluationKeepsDegraded
<1> SUFFICES ASSUME runtime.coordinator_state
                      \in FailSafeStates \cup {"DEGRADED_RETRY", "RESTART_REQUIRED"},
                    NEW ts \in TradingStates, NEW intent \in BOOLEAN
             PROVE  SnapshotEvaluated(runtime, ts, intent).coordinator_state
                      = "DEGRADED_RETRY"
  BY DEF EvaluationKeepsDegraded
<1> DEFINE built == SnapshotBuilt(runtime, ts, intent)
           snapshot == Snapshot(runtime, ts, intent)
<1>1. ts \in TradingStateNames
  BY CoordinatorAssumption DEF CoordinatorAssumption
<1>2. ReconcilePermitted(runtime) /\ DegradedState(Inputs(runtime, ts, intent))
  BY StateNames DEF ReconcilePermitted, DegradedState, Inputs
<1>3. SnapshotAuthority(runtime, ts, intent) = "DEGRADED"
  BY <1>1, <1>2, SnapshotAuthorityJustified DEF Sound
<1>4. ~ProofPassed(runtime, ts, intent)
  BY <1>3 DEF ProofPassed
<1>5. snapshot.runtime_authority_state = "DEGRADED" /\ ~snapshot.passed
  BY <1>3, <1>4 DEF Snapshot
<1>6. built \in Runtime
  BY <1>1, SnapshotBuiltType DEF Sound
<1> HIDE DEF built, snapshot
<1>7. ActivationEvaluated(built, snapshot).coordinator_state = "DEGRADED_RETRY"
  BY <1>5, <1>6 DEF ActivationEvaluated, Runtime
<1> QED
  BY <1>7 DEF SnapshotEvaluated, built, snapshot

\* A degraded coordinator never evaluates its way out, whatever its cache holds.
THEOREM DegradedStands == Spec => []EvaluationKeepsDegraded
<1>1. IInv => EvaluationKeepsDegraded
  BY DegradedEvaluates DEF IInv
<1> QED
  BY <1>1, Invariance, PTL

\* global_epoch never decreases and never advances over a standing latch.
THEOREM EpochRevokes == Spec => EpochRevokesLatch
<1>1. ASSUME IInv, [Next]_vars
      PROVE  [/\ runtime'.global_epoch >= runtime.global_epoch
              /\ runtime'.global_epoch # runtime.global_epoch
                   => ~runtime'.commit_latch]_vars
  <2>1. runtime.global_epoch \in Nat /\ runtime'.global_epoch \in Nat
    BY <1>1, NextAdvances DEF IInv, RuntimeStep, Advances, Sound, Runtime
  <2> QED
    BY <1>1, <2>1, NextAdvances DEF RuntimeStep, Advances
<1> QED
  BY <1>1, Invariance, PTL DEF Spec, EpochRevokesLatch

\* A successful finalize_activation_commit returns with the latch set, even if
\* the commit it found already made was revoked between its two windows.
THEOREM FinalizeLatches == Spec => FinalizeLeavesLatch
<1>1. ASSUME IInv, [Next]_vars
      PROVE  [\A c \in Callers :
                pc[c] = "proved" /\ pc'[c] = "idle" /\ held[c].passed
                  => runtime'.commit_latch]_vars
  <2> SUFFICES ASSUME NEW c \in Callers, pc[c] = "proved", pc'[c] = "idle",
                      held[c].passed
               PROVE  runtime'.commit_latch
    OBVIOUS
  <2>1. PICK d \in Callers : CallerStep(d)
    BY <1>1, EvidenceStep, PollStep, RecordAuthorityAndEvaluateStep DEF Next, vars
  <2>2. d = c
    BY <1>1, <2>1, CallerStepSound DEF ControlStep, IInv, TypeOK
  <2>3. FinalizeCommit(c)
    BY <2>1, <2>2 DEF CallerStep, TakeSnapshot, EvaluateActivation,
       ApplyBootstrapTransaction, ApplyTransaction, FinalizeSnapshot,
       ForceActivateBypass, ForceProbe, ForceRequest, ForceSnapshot
  <2> QED
    BY <1>1, <2>3, FinalizeCommitStep
<1> QED
  BY <1>1, Invariance, PTL DEF Spec, FinalizeLeavesLatch
=============================================================================
