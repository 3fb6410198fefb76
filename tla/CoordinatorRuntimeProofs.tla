---------------------- MODULE CoordinatorRuntimeProofs ----------------------
(***************************************************************************)
(* Lemmas about the operators of CoordinatorRuntime: each maps a runtime   *)
(* record to a runtime record, an evidence call either leaves the commit   *)
(* and the epoch alone or drops the one and advances the other, and what a *)
(* reconcile that yields AUTHORIZED or EXECUTING says of its inputs.       *)
(*                                                                         *)
(* The proofs name the values a record update stores (PICK) before they    *)
(* expand Runtime: the solver then sees one flat update.                   *)
(***************************************************************************)
EXTENDS CoordinatorRuntime, TLAPS

\* What an evidence call may do to the runtime record: the reconcile's result
\* and its cache stay, and epoch, latch and commit flag move together.
Evolves(rt, new) ==
  /\ new \in Runtime
  /\ new.runtime_authority_state = rt.runtime_authority_state
  /\ new.last_reconcile_inputs = rt.last_reconcile_inputs
  /\ \/ /\ new.global_epoch = rt.global_epoch
        /\ new.commit_latch = rt.commit_latch
        /\ new.activation_committed = rt.activation_committed
     \/ /\ new.global_epoch > rt.global_epoch
        /\ ~new.commit_latch
        /\ ~new.activation_committed

\* The calls of a transaction compose.
LEMMA EvolvesTransitive ==
  ASSUME NEW r1 \in Runtime, NEW r2, NEW r3, Evolves(r1, r2), Evolves(r2, r3)
  PROVE  Evolves(r1, r3)
<1>1. /\ r1.global_epoch \in Int /\ r2.global_epoch \in Int
      /\ r3.global_epoch \in Int
  BY DEF Evolves, Runtime
<1> QED
  BY <1>1 DEF Evolves

LEMMA StateNames ==
  /\ AuthorityLiveStates \subseteq CoordinatorStates
  /\ SuppressedStates \cap AuthorityLiveStates = {}
  /\ FailSafeStates \cup {"DEGRADED_RETRY", "RESTART_REQUIRED"}
       \subseteq AuthorityLiveStates
  BY DEF CoordinatorStates, AuthorityLiveStates, SuppressedStates, FailSafeStates

\* Moving the coordinator to another state is an evidence step.
LEMMA StateMoveEvolves ==
  ASSUME NEW rt \in Runtime, NEW s \in CoordinatorStates
  PROVE  Evolves(rt, [rt EXCEPT !.coordinator_state = s])
  BY DEF Evolves, Runtime

LEMMA EpochBumpedEvolves ==
  ASSUME NEW rt \in Runtime
  PROVE  Evolves(rt, EpochBumped(rt))
<1>1. PICK n \in Nat : n = rt.global_epoch + 1
  BY DEF Runtime
<1>2. EpochBumped(rt) =
        [rt EXCEPT !.global_epoch = n, !.commit_latch = FALSE,
                   !.activation_committed = FALSE, !.commit_fingerprint = None]
  BY <1>1 DEF EpochBumped
<1>3. EpochBumped(rt) \in Runtime
  BY <1>2 DEF Runtime
<1>4. /\ EpochBumped(rt).global_epoch = n
      /\ EpochBumped(rt).commit_latch = FALSE
      /\ EpochBumped(rt).activation_committed = FALSE
      /\ EpochBumped(rt).runtime_authority_state = rt.runtime_authority_state
      /\ EpochBumped(rt).last_reconcile_inputs = rt.last_reconcile_inputs
  BY <1>2 DEF Runtime
<1>5. rt.global_epoch \in Nat /\ n > rt.global_epoch
  BY <1>1 DEF Runtime
<1> QED
  BY <1>3, <1>4, <1>5 DEF Evolves

\* Invalidated after an update that is itself an evidence step.
LEMMA InvalidatedEvolves ==
  ASSUME NEW rt \in Runtime, NEW new, Evolves(rt, new), NEW changed
  PROVE  Evolves(rt, Invalidated(new, changed))
<1>1. new \in Runtime
  BY DEF Evolves
<1> QED
  BY <1>1, EpochBumpedEvolves, EvolvesTransitive DEF Invalidated

LEMMA BootstrapStateEvolves ==
  ASSUME NEW rt \in Runtime, NEW state \in BootstrapStates
  PROVE  Evolves(rt, BootstrapStateRecorded(rt, state))
<1>1. PICK s \in CoordinatorStates :
        s = IF state \in DOMAIN BootstrapTarget THEN BootstrapTarget[state]
            ELSE rt.coordinator_state
  <2>1. CASE state \in DOMAIN BootstrapTarget
    <3>1. BootstrapTarget[state] \in CoordinatorStates
      BY <2>1 DEF BootstrapTarget, CoordinatorStates, AuthorityLiveStates,
                  SuppressedStates
    <3> QED
      BY <2>1, <3>1
  <2>2. CASE state \notin DOMAIN BootstrapTarget
    BY <2>2 DEF Runtime
  <2> QED
    BY <2>1, <2>2
<1>2. PICK t \in BOOLEAN :
        t = (rt.threads_confirmed_running \/ state = "RUNNING_SUPERVISED")
  OBVIOUS
<1>3. BootstrapStateRecorded(rt, state) =
        [rt EXCEPT !.bootstrap_state = state, !.coordinator_state = s,
                   !.threads_confirmed_running = t]
  BY <1>1, <1>2, Zenon DEF BootstrapStateRecorded
<1> QED
  BY <1>3 DEF Evolves, Runtime

LEMMA MergedType ==
  ASSUME NEW previous \in Table, NEW incoming \in Table
  PROVE  Merged(previous, incoming) \in Table
  BY DEF Merged, Table

LEMMA ReadinessEvolves ==
  ASSUME NEW rt \in Runtime, NEW report \in ReadinessReport
  PROVE  Evolves(rt, ReadinessRecorded(rt, report))
<1> DEFINE merged == Merged(rt.readiness_table, report.table)
           regressed == Regressed(rt.readiness_table, merged)
           stored == Invalidated([rt EXCEPT !.readiness_table = merged], regressed)
<1>1. merged \in Table
  BY MergedType DEF Runtime, ReadinessReport
<1> HIDE DEF merged, regressed
<1>2. Evolves(rt, [rt EXCEPT !.readiness_table = merged])
  BY <1>1 DEF Evolves, Runtime
<1>3. Evolves(rt, stored)
  BY <1>2, InvalidatedEvolves
<1> HIDE DEF stored
<1>4. stored \in Runtime /\ stored.coordinator_state \in CoordinatorStates
  BY <1>3 DEF Evolves, Runtime
<1>5. \A s \in CoordinatorStates : Evolves(rt, [stored EXCEPT !.coordinator_state = s])
  BY <1>3, <1>4, StateMoveEvolves, EvolvesTransitive
<1>6. "BROKER_READY" \in CoordinatorStates /\ "INIT_COMMITTED" \in CoordinatorStates
  BY DEF CoordinatorStates, SuppressedStates
<1>7. \/ ReadinessRecorded(rt, report) = stored
      \/ \E s \in CoordinatorStates :
           ReadinessRecorded(rt, report) = [stored EXCEPT !.coordinator_state = s]
  BY <1>4, <1>6 DEF ReadinessRecorded, stored, merged, regressed
<1> QED
  BY <1>3, <1>5, <1>7

LEMMA GlobalGateEvolves ==
  ASSUME NEW rt \in Runtime, NEW ready \in BOOLEAN
  PROVE  Evolves(rt, GlobalGateRecorded(rt, ready))
<1>1. Evolves(rt, [rt EXCEPT !.global_gate_ready = ready])
  BY DEF Evolves, Runtime
<1> QED
  BY <1>1, InvalidatedEvolves DEF GlobalGateRecorded

LEMMA CapitalStateEvolves ==
  ASSUME NEW rt \in Runtime, NEW capital \in Capital
  PROVE  Evolves(rt, CapitalStateRecorded(rt, capital))
<1>1. PICK s \in CoordinatorStates :
        s = IF ReconcilePermitted(rt) THEN rt.coordinator_state
            ELSE IF CapitalRunning(capital) /\ capital.hydrated /\ ~capital.stale
                 THEN "CAPITAL_READY" ELSE "CAPITAL_PENDING"
  BY DEF Runtime, CoordinatorStates, SuppressedStates
<1>2. CapitalStateRecorded(rt, capital) =
        [rt EXCEPT !.capital = capital, !.coordinator_state = s]
  BY <1>1 DEF CapitalStateRecorded
<1> QED
  BY <1>2 DEF Evolves, Runtime

LEMMA AuthorityEvolves ==
  ASSUME NEW rt \in Runtime, NEW report \in AuthorityReport
  PROVE  Evolves(rt, AuthorityRecorded(rt, report))
<1> DEFINE new == [rt EXCEPT !.authority_ready = report.ready,
                             !.authority_status = report.status]
<1>1. Evolves(rt, new)
  BY DEF Evolves, Runtime, AuthorityReport
<1> QED
  BY <1>1, InvalidatedEvolves DEF AuthorityRecorded

LEMMA NonceStatusEvolves ==
  ASSUME NEW rt \in Runtime, NEW ready \in BOOLEAN
  PROVE  Evolves(rt, NonceStatusRecorded(rt, ready))
<1>1. Evolves(rt, [rt EXCEPT !.nonce_ready = ready])
  BY DEF Evolves, Runtime
<1> QED
  BY <1>1, InvalidatedEvolves DEF NonceStatusRecorded

LEMMA DispatchHealthEvolves ==
  ASSUME NEW rt \in Runtime, NEW ready \in BOOLEAN
  PROVE  Evolves(rt, DispatchHealthRecorded(rt, ready))
<1>1. Evolves(rt, [rt EXCEPT !.dispatch_health_ready = ready])
  BY DEF Evolves, Runtime
<1> QED
  BY <1>1, InvalidatedEvolves DEF DispatchHealthRecorded

LEMMA ThreadsLaunchedEvolves ==
  ASSUME NEW rt \in Runtime, NEW count \in Int
  PROVE  Evolves(rt, ThreadsLaunchedRecorded(rt, count))
<1>1. PICK n \in Nat : n = IF count > 0 THEN count ELSE 0
  OBVIOUS
<1>2. ThreadsLaunchedRecorded(rt, count) =
        [rt EXCEPT !.threads_launched = n, !.coordinator_state = "THREADS_PENDING"]
  BY <1>1 DEF ThreadsLaunchedRecorded
<1>3. "THREADS_PENDING" \in CoordinatorStates
  BY DEF CoordinatorStates, SuppressedStates
<1> QED
  BY <1>2, <1>3 DEF Evolves, Runtime

LEMMA ThreadsConfirmedEvolves ==
  ASSUME NEW rt \in Runtime, NEW state \in BootstrapStates \cup {None}
  PROVE  Evolves(rt, ThreadsConfirmedRecorded(rt, state))
<1>1. PICK b \in BootstrapStates : b = IF state = None THEN rt.bootstrap_state ELSE state
  BY DEF Runtime
<1>2. ThreadsConfirmedRecorded(rt, state) =
        [rt EXCEPT !.bootstrap_state = b, !.threads_confirmed_running = TRUE,
                   !.coordinator_state = "SUPERVISED_RUNNING"]
  BY <1>1 DEF ThreadsConfirmedRecorded
<1>3. "SUPERVISED_RUNNING" \in CoordinatorStates
  BY DEF CoordinatorStates, AuthorityLiveStates
<1> QED
  BY <1>2, <1>3 DEF Evolves, Runtime

LEMMA ThreadsSupervisedEvolves ==
  ASSUME NEW rt \in Runtime, NEW count \in Nat
  PROVE  Evolves(rt, ThreadsSupervisedRecorded(rt, count))
<1>0. PICK b \in BootstrapStates : b = "RUNNING_SUPERVISED"
  BY DEF BootstrapStates
<1>1. "SUPERVISED_RUNNING" \in CoordinatorStates
  BY DEF CoordinatorStates, AuthorityLiveStates
<1>2. ThreadsSupervisedRecorded(rt, count) =
        [rt EXCEPT !.threads_launched = count,
                   !.bootstrap_state = b, !.threads_confirmed_running = TRUE,
                   !.coordinator_state = "SUPERVISED_RUNNING"]
  BY <1>0 DEF ThreadsSupervisedRecorded
<1> QED
  BY <1>1, <1>2 DEF Evolves, Runtime

LEMMA ActivationRequestEvolves ==
  ASSUME NEW rt \in Runtime, NEW requested \in BOOLEAN
  PROVE  Evolves(rt, ActivationRequestRecorded(rt, requested))
<1>1. PICK e \in Nat :
        e = IF requested THEN rt.global_epoch ELSE rt.activation_epoch
  BY DEF Runtime
<1>2. PICK s \in CoordinatorStates :
        s = IF rt.coordinator_state \in {"DISPATCH_ENABLED", "LIVE_COMMITTED"}
            THEN rt.coordinator_state ELSE "ACTIVATION_ARMED"
  BY DEF Runtime, CoordinatorStates, AuthorityLiveStates
<1>3. ActivationRequestRecorded(rt, requested) =
        [rt EXCEPT !.activation_requested = requested, !.activation_epoch = e,
                   !.coordinator_state = s]
  BY <1>1, <1>2 DEF ActivationRequestRecorded
<1> QED
  BY <1>3 DEF Evolves, Runtime

LEMMA KillSwitchEvolves ==
  ASSUME NEW rt \in Runtime, NEW active \in BOOLEAN
  PROVE  Evolves(rt, KillSwitchRecorded(rt, active))
<1>1. PICK s \in CoordinatorStates :
        s = IF active THEN "FAIL_SAFE_SHUTDOWN" ELSE rt.coordinator_state
  BY StateNames DEF Runtime, FailSafeStates
<1>2. KillSwitchRecorded(rt, active) =
        [rt EXCEPT !.kill_switch_active = active, !.coordinator_state = s]
  BY <1>1 DEF KillSwitchRecorded
<1> QED
  BY <1>2 DEF Evolves, Runtime

LEMMA FailSafeEvolves ==
  ASSUME NEW rt \in Runtime, NEW tier
  PROVE  Evolves(rt, FailSafeRecorded(rt, tier))
<1>1. PICK s \in CoordinatorStates :
        s = CASE tier = "WARN" -> "FAIL_SAFE_WARN"
              [] tier = "HALT" -> "FAIL_SAFE_HALT"
              [] OTHER -> "FAIL_SAFE_SHUTDOWN"
  BY StateNames DEF FailSafeStates
<1>2. FailSafeRecorded(rt, tier) = [rt EXCEPT !.coordinator_state = s]
  BY <1>1 DEF FailSafeRecorded
<1> QED
  BY <1>2, StateMoveEvolves

-----------------------------------------------------------------------------
(* The bootstrap transaction.                                              *)

LEMMA TransactionEvolves ==
  ASSUME NEW rt \in Runtime, NEW tx \in TransactionType
  PROVE  Evolves(rt, TransactionEvidence(rt, tx))
<1> DEFINE r1 == BootstrapStateRecorded(rt, tx.bootstrap_state)
           r2 == CapitalStateRecorded(r1, tx.capital)
           r3 == ReadinessRecorded(r2, tx.readiness)
           r4 == KillSwitchRecorded(r3, tx.kill_switch_active)
           r5 == AuthorityRecorded(r4, tx.authority)
           r6 == NonceStatusRecorded(r5, tx.nonce_ready)
           r7 == DispatchHealthRecorded(r6, tx.dispatch_health_ready)
           r8 == GlobalGateRecorded(r7, tx.global_gate_ready)
           r9 == ActivationRequestRecorded(r8, TRUE)
<1>t. /\ tx.bootstrap_state \in BootstrapStates /\ tx.capital \in Capital
      /\ tx.readiness \in ReadinessReport /\ tx.kill_switch_active \in BOOLEAN
      /\ tx.authority \in AuthorityReport /\ tx.nonce_ready \in BOOLEAN
      /\ tx.dispatch_health_ready \in BOOLEAN /\ tx.global_gate_ready \in BOOLEAN
  BY DEF TransactionType
<1>e. \A r, s : Evolves(r, s) => s \in Runtime
  BY DEF Evolves
<1>1. Evolves(rt, r1)
  BY <1>t, BootstrapStateEvolves
<1>2. Evolves(r1, r2)
  BY <1>t, <1>e, <1>1, CapitalStateEvolves
<1>3. Evolves(r2, r3)
  BY <1>t, <1>e, <1>2, ReadinessEvolves
<1>4. Evolves(r3, r4)
  BY <1>t, <1>e, <1>3, KillSwitchEvolves
<1>5. Evolves(r4, r5)
  BY <1>t, <1>e, <1>4, AuthorityEvolves
<1>6. Evolves(r5, r6)
  BY <1>t, <1>e, <1>5, NonceStatusEvolves
<1>7. Evolves(r6, r7)
  BY <1>t, <1>e, <1>6, DispatchHealthEvolves
<1>8. Evolves(r7, r8)
  BY <1>t, <1>e, <1>7, GlobalGateEvolves
<1>9. Evolves(r8, r9)
  BY <1>e, <1>8, ActivationRequestEvolves
<1>10. TransactionEvidence(rt, tx) = IF tx.activation_requested THEN r9 ELSE r8
  BY DEF TransactionEvidence
<1> HIDE DEF r1, r2, r3, r4, r5, r6, r7, r8, r9
<1>11. Evolves(rt, r4)
  BY <1>1, <1>2, <1>3, <1>4, EvolvesTransitive
<1>12. Evolves(rt, r8)
  BY <1>11, <1>5, <1>6, <1>7, <1>8, EvolvesTransitive
<1> QED
  BY <1>9, <1>10, <1>12, EvolvesTransitive

-----------------------------------------------------------------------------
(* The reconcile.                                                          *)

\* A cached result is one its inputs justify.
CacheJustified(rt) ==
  LET in == rt.last_reconcile_inputs
      state == rt.runtime_authority_state
  IN  in # None =>
        /\ state \in {"AUTHORIZED", "EXECUTING"}
             => AuthorityConverged(in) /\ ~DegradedState(in)
        /\ state = "EXECUTING" => Executing(in)
        /\ DegradedState(in) => state = "DEGRADED"

LEMMA FullReconcileOutcome ==
  ASSUME NEW in, NEW current \in RuntimeAuthorityStates
  PROVE  LET state == FullReconcile(in, current) IN
         /\ state \in RuntimeAuthorityStates
         /\ state \in {"AUTHORIZED", "EXECUTING"}
              => AuthorityConverged(in) /\ ~DegradedState(in)
         /\ state = "EXECUTING" => Executing(in)
         /\ DegradedState(in) => state = "DEGRADED"
<1>1. FullReconcile(in, current) \in {TargetAuthority(in, current), "DEGRADED"}
  BY DEF FullReconcile
<1>2. SevereDegradation(in, current) \/ ~DegradedState(in)
  BY DEF SevereDegradation
<1>3. Executing(in) => AuthorityConverged(in)
  BY DEF Executing
<1> QED
  BY <1>1, <1>2, <1>3 DEF TargetAuthority, RuntimeAuthorityStates

LEMMA InputsType ==
  ASSUME NEW rt \in Runtime, NEW ts \in TradingStateNames, NEW intent \in BOOLEAN
  PROVE  Inputs(rt, ts, intent) \in ReconcileInputs
<1>1. (intent \/ rt.activation_requested) \in BOOLEAN
  OBVIOUS
<1> QED
  BY <1>1 DEF Inputs, ReconcileInputs, Runtime

LEMMA ReconcileType ==
  ASSUME NEW rt \in Runtime, NEW ts \in TradingStateNames, NEW intent \in BOOLEAN,
         CacheJustified(rt)
  PROVE  LET new == Reconcile(rt, ts, intent) IN
         /\ new \in Runtime
         /\ CacheJustified(new)
         /\ new.last_reconcile_inputs = Inputs(rt, ts, intent)
         /\ new.global_epoch = rt.global_epoch
         /\ new.commit_latch = rt.commit_latch
         /\ new.activation_committed = rt.activation_committed
<1> DEFINE in == Inputs(rt, ts, intent)
           state == FullReconcile(in, rt.runtime_authority_state)
           new == Reconcile(rt, ts, intent)
<1>1. in \in ReconcileInputs
  BY InputsType
<1>2. CASE rt.last_reconcile_inputs = in
  <2>1. new = rt
    BY <1>2 DEF Reconcile
  <2> QED
    BY <2>1, <1>2
<1>3. CASE rt.last_reconcile_inputs # in
  <2>1. /\ state \in RuntimeAuthorityStates
        /\ state \in {"AUTHORIZED", "EXECUTING"}
             => AuthorityConverged(in) /\ ~DegradedState(in)
        /\ state = "EXECUTING" => Executing(in)
        /\ DegradedState(in) => state = "DEGRADED"
    BY FullReconcileOutcome DEF Runtime
  <2>2. new = [rt EXCEPT !.runtime_authority_state = state,
                         !.last_reconcile_inputs = in]
    BY <1>3 DEF Reconcile
  <2> HIDE DEF in, state, new
  <2>3. /\ new \in Runtime
        /\ new.runtime_authority_state = state
        /\ new.last_reconcile_inputs = in
        /\ new.global_epoch = rt.global_epoch
        /\ new.commit_latch = rt.commit_latch
        /\ new.activation_committed = rt.activation_committed
    BY <1>1, <2>1, <2>2 DEF Runtime
  <2>4. CacheJustified(new)
    BY <2>1, <2>3 DEF CacheJustified
  <2> QED
    BY <2>3, <2>4 DEF new, in
<1> QED
  BY <1>2, <1>3

\* The dedup never lends an authority its present inputs do not justify.
LEMMA SnapshotAuthorityJustified ==
  ASSUME NEW rt \in Runtime, NEW ts \in TradingStateNames, NEW intent \in BOOLEAN,
         CacheJustified(rt)
  PROVE  LET in == Inputs(rt, ts, intent)
             state == SnapshotAuthority(rt, ts, intent) IN
         /\ state \in RuntimeAuthorityStates
         /\ state \in {"AUTHORIZED", "EXECUTING"}
              => /\ ReconcilePermitted(rt)
                 /\ AuthorityConverged(in) /\ ~DegradedState(in)
         /\ state = "EXECUTING" => Executing(in)
         /\ ReconcilePermitted(rt) /\ DegradedState(in) => state = "DEGRADED"
<1> DEFINE new == Reconcile(rt, ts, intent)
<1>1. /\ new \in Runtime /\ CacheJustified(new)
      /\ new.last_reconcile_inputs = Inputs(rt, ts, intent)
  BY ReconcileType
<1>2. Inputs(rt, ts, intent) # None
  BY InputsType, NoneAssumption
<1>3. new.runtime_authority_state \in RuntimeAuthorityStates
  BY <1>1 DEF Runtime
<1> HIDE DEF new
<1>4. SnapshotAuthority(rt, ts, intent) =
        IF ReconcilePermitted(rt) THEN new.runtime_authority_state ELSE "BOOT"
  BY DEF SnapshotAuthority, new
<1> QED
  BY <1>1, <1>2, <1>3, <1>4 DEF CacheJustified, RuntimeAuthorityStates

LEMMA SnapshotIsTyped ==
  ASSUME NEW rt \in Runtime, NEW ts \in TradingStateNames, NEW intent \in BOOLEAN,
         CacheJustified(rt)
  PROVE  Snapshot(rt, ts, intent) \in SnapshotType
<1>1. SnapshotAuthority(rt, ts, intent) \in RuntimeAuthorityStates
  BY SnapshotAuthorityJustified
<1>2. /\ (intent \/ rt.activation_requested) \in BOOLEAN
      /\ ProofPassed(rt, ts, intent) \in BOOLEAN
  BY DEF ProofPassed
<1> QED
  BY <1>1, <1>2 DEF Snapshot, SnapshotType, Runtime

-----------------------------------------------------------------------------
(* Snapshots, evaluation and commit.                                       *)

LEMMA SnapshotBuiltType ==
  ASSUME NEW rt \in Runtime, NEW ts \in TradingStateNames, NEW intent \in BOOLEAN,
         CacheJustified(rt)
  PROVE  LET new == SnapshotBuilt(rt, ts, intent) IN
         /\ new \in Runtime
         /\ CacheJustified(new)
         /\ new.global_epoch = rt.global_epoch
         /\ new.commit_latch = rt.commit_latch
         /\ new.activation_committed = rt.activation_committed
  BY ReconcileType DEF SnapshotBuilt

LEMMA ActivationEvaluatedEvolves ==
  ASSUME NEW rt \in Runtime, NEW snapshot
  PROVE  Evolves(rt, ActivationEvaluated(rt, snapshot))
<1>1. PICK s \in CoordinatorStates :
        ActivationEvaluated(rt, snapshot) = [rt EXCEPT !.coordinator_state = s]
  BY DEF ActivationEvaluated, CoordinatorStates, AuthorityLiveStates
<1> QED
  BY <1>1, StateMoveEvolves

LEMMA ActivationCommittedType ==
  ASSUME NEW rt \in Runtime, NEW snapshot \in SnapshotType,
         NEW same_version \in BOOLEAN, CacheJustified(rt)
  PROVE  LET new == ActivationCommitted(rt, snapshot, same_version) IN
         /\ new \in Runtime
         /\ CacheJustified(new)
         /\ new.global_epoch = rt.global_epoch
         /\ new.commit_latch /\ new.activation_committed
<1> DEFINE new == ActivationCommitted(rt, snapshot, same_version)
<1>1. PICK f \in CommitFingerprint : f = Fingerprint(snapshot)
  BY DEF Fingerprint, CommitFingerprint, SnapshotType
<1>2. PICK in \in ReconcileInputs \cup {None} :
        /\ in = IF rt.commit_latch /\ ~same_version THEN None
                ELSE rt.last_reconcile_inputs
  BY DEF Runtime
<1>3. new = [rt EXCEPT !.last_reconcile_inputs = in, !.commit_latch = TRUE,
                       !.activation_committed = TRUE, !.commit_fingerprint = f,
                       !.coordinator_state = "DISPATCH_ENABLED"]
  BY <1>1, <1>2 DEF ActivationCommitted
<1>4. "DISPATCH_ENABLED" \in CoordinatorStates
  BY DEF CoordinatorStates, AuthorityLiveStates
<1> HIDE DEF new
<1>5. /\ new \in Runtime
      /\ new.last_reconcile_inputs = in
      /\ new.runtime_authority_state = rt.runtime_authority_state
      /\ new.global_epoch = rt.global_epoch
      /\ new.commit_latch /\ new.activation_committed
  BY <1>3, <1>4 DEF Runtime
<1>6. CacheJustified(new)
  BY <1>2, <1>5 DEF CacheJustified
<1> QED
  BY <1>5, <1>6 DEF new
=============================================================================
