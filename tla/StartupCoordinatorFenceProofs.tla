-------------------- MODULE StartupCoordinatorFenceProofs --------------------
(***************************************************************************)
(* InvalidationFenced and RegressionRevokes.  Every record_* call either   *)
(* keeps the signals or, in the live zone, advances the epoch; the calls   *)
(* of a transaction that reports RUNNING_SUPERVISED stay in the live zone, *)
(* so the transaction as a whole does what its calls do.                   *)
(***************************************************************************)
EXTENDS StartupCoordinatorProofs

\* No signal changes, no readiness key and no global gate is lost.
Kept(rt, new) ==
  /\ new.authority_ready = rt.authority_ready
  /\ new.nonce_ready = rt.nonce_ready
  /\ new.dispatch_health_ready = rt.dispatch_health_ready
  /\ rt.readiness_table.ready \subseteq new.readiness_table.ready
  /\ rt.global_gate_ready => new.global_gate_ready

\* An evidence step that pays for a change with an epoch.
Fenced(rt, new) ==
  Evolves(rt, new) /\ (new.global_epoch > rt.global_epoch \/ Kept(rt, new))

\* A fenced step inside the live zone.
LiveFenced(rt, new) == Fenced(rt, new) /\ ReconcilePermitted(new)

LEMMA FencedTransitive ==
  ASSUME NEW r1 \in Runtime, NEW r2, NEW r3, Fenced(r1, r2), Fenced(r2, r3)
  PROVE  Fenced(r1, r3)
<1>1. Evolves(r1, r3)
  BY EvolvesTransitive DEF Fenced
<1>2. /\ r1.global_epoch \in Nat /\ r2.global_epoch \in Nat
      /\ r3.global_epoch \in Nat
  BY DEF Fenced, Evolves, Runtime
<1>3. r2.global_epoch >= r1.global_epoch /\ r3.global_epoch >= r2.global_epoch
  BY <1>2 DEF Fenced, Evolves
<1>4. Kept(r1, r2) /\ Kept(r2, r3) => Kept(r1, r3)
  BY DEF Kept
<1> QED
  BY <1>1, <1>2, <1>3, <1>4 DEF Fenced

\* A changed signal is paid for, in the live zone, by Invalidated.
LEMMA InvalidatedFenced ==
  ASSUME NEW rt \in Runtime, NEW new, NEW changed,
         ReconcilePermitted(rt), Evolves(rt, new),
         new.coordinator_state = rt.coordinator_state,
         new.global_epoch = rt.global_epoch,
         changed \/ Kept(rt, new)
  PROVE  LiveFenced(rt, Invalidated(new, changed))
<1>1. ReconcilePermitted(new)
  BY DEF ReconcilePermitted
<1>2. Evolves(rt, Invalidated(new, changed))
  BY InvalidatedEvolves
<1>3. CASE changed
  <2>1. Invalidated(new, changed) = EpochBumped(new)
    BY <1>1, <1>3 DEF Invalidated
  <2>2. /\ EpochBumped(new).coordinator_state = new.coordinator_state
        /\ EpochBumped(new).global_epoch = new.global_epoch + 1
    BY DEF EpochBumped, Evolves, Runtime
  <2>3. rt.global_epoch \in Nat
    BY DEF Runtime
  <2> QED
    BY <1>1, <1>2, <2>1, <2>2, <2>3 DEF LiveFenced, Fenced, ReconcilePermitted
<1>4. CASE ~changed
  <2>1. Invalidated(new, changed) = new
    BY <1>4 DEF Invalidated
  <2> QED
    BY <1>1, <1>2, <1>4, <2>1 DEF LiveFenced, Fenced
<1> QED
  BY <1>3, <1>4

-----------------------------------------------------------------------------
(* The record_* methods.                                                   *)

LEMMA AuthorityFenced ==
  ASSUME NEW rt \in Runtime, ReconcilePermitted(rt), NEW report \in AuthorityReport
  PROVE  LiveFenced(rt, AuthorityRecorded(rt, report))
<1> DEFINE new == [rt EXCEPT !.authority_ready = report.ready,
                             !.authority_status = report.status]
           changed == \/ rt.authority_ready # report.ready
                      \/ rt.authority_status # report.status
<1>1. /\ Evolves(rt, new)
      /\ new.coordinator_state = rt.coordinator_state
      /\ new.global_epoch = rt.global_epoch
      /\ changed \/ Kept(rt, new)
  BY DEF Evolves, Runtime, AuthorityReport, Kept
<1> QED
  BY <1>1, InvalidatedFenced DEF AuthorityRecorded

LEMMA NonceStatusFenced ==
  ASSUME NEW rt \in Runtime, ReconcilePermitted(rt), NEW ready \in BOOLEAN
  PROVE  LiveFenced(rt, NonceStatusRecorded(rt, ready))
<1> DEFINE new == [rt EXCEPT !.nonce_ready = ready]
<1>1. /\ Evolves(rt, new)
      /\ new.coordinator_state = rt.coordinator_state
      /\ new.global_epoch = rt.global_epoch
      /\ rt.nonce_ready # ready \/ Kept(rt, new)
  BY DEF Evolves, Runtime, Kept
<1> QED
  BY <1>1, InvalidatedFenced DEF NonceStatusRecorded

LEMMA DispatchHealthFenced ==
  ASSUME NEW rt \in Runtime, ReconcilePermitted(rt), NEW ready \in BOOLEAN
  PROVE  LiveFenced(rt, DispatchHealthRecorded(rt, ready))
<1> DEFINE new == [rt EXCEPT !.dispatch_health_ready = ready]
<1>1. /\ Evolves(rt, new)
      /\ new.coordinator_state = rt.coordinator_state
      /\ new.global_epoch = rt.global_epoch
      /\ rt.dispatch_health_ready # ready \/ Kept(rt, new)
  BY DEF Evolves, Runtime, Kept
<1> QED
  BY <1>1, InvalidatedFenced DEF DispatchHealthRecorded

LEMMA GlobalGateFenced ==
  ASSUME NEW rt \in Runtime, ReconcilePermitted(rt), NEW ready \in BOOLEAN
  PROVE  LiveFenced(rt, GlobalGateRecorded(rt, ready))
<1> DEFINE new == [rt EXCEPT !.global_gate_ready = ready]
<1>1. /\ Evolves(rt, new)
      /\ new.coordinator_state = rt.coordinator_state
      /\ new.global_epoch = rt.global_epoch
      /\ (rt.global_gate_ready /\ ~ready) \/ Kept(rt, new)
  BY DEF Evolves, Runtime, Kept
<1> QED
  BY <1>1, InvalidatedFenced DEF GlobalGateRecorded

LEMMA ReadinessFenced ==
  ASSUME NEW rt \in Runtime, ReconcilePermitted(rt), NEW report \in ReadinessReport
  PROVE  LiveFenced(rt, ReadinessRecorded(rt, report))
<1> DEFINE merged == Merged(rt.readiness_table, report.table)
           new == [rt EXCEPT !.readiness_table = merged]
           regressed == Regressed(rt.readiness_table, merged)
<1>1. merged \in Table
  BY MergedType DEF Runtime, ReadinessReport
<1>2. regressed \/ rt.readiness_table.ready \subseteq merged.ready
  BY DEF Regressed
<1> HIDE DEF merged, regressed
<1>3. /\ Evolves(rt, new)
      /\ new.coordinator_state = rt.coordinator_state
      /\ new.global_epoch = rt.global_epoch
      /\ regressed \/ Kept(rt, new)
  BY <1>1, <1>2 DEF Evolves, Runtime, Kept
<1>4. ReadinessRecorded(rt, report) = Invalidated(new, regressed)
  BY DEF ReadinessRecorded, merged, regressed
<1> QED
  BY <1>3, <1>4, InvalidatedFenced

\* The remaining methods change none of the signals.
LEMMA BootstrapStateFenced ==
  ASSUME NEW rt \in Runtime, NEW state \in BootstrapStates
  PROVE  /\ Fenced(rt, BootstrapStateRecorded(rt, state))
         /\ state = "RUNNING_SUPERVISED"
              => ReconcilePermitted(BootstrapStateRecorded(rt, state))
<1>1. Kept(rt, BootstrapStateRecorded(rt, state))
  BY DEF BootstrapStateRecorded, Kept, Runtime
<1>2. state = "RUNNING_SUPERVISED"
        => BootstrapStateRecorded(rt, state).coordinator_state = "SUPERVISED_RUNNING"
  BY DEF BootstrapStateRecorded, BootstrapTarget, Runtime
<1> QED
  BY <1>1, <1>2, BootstrapStateEvolves
  DEF Fenced, ReconcilePermitted, AuthorityLiveStates

LEMMA CapitalStateFenced ==
  ASSUME NEW rt \in Runtime, NEW capital \in Capital
  PROVE  /\ Fenced(rt, CapitalStateRecorded(rt, capital))
         /\ ReconcilePermitted(rt)
              => ReconcilePermitted(CapitalStateRecorded(rt, capital))
<1>1. /\ Kept(rt, CapitalStateRecorded(rt, capital))
      /\ ReconcilePermitted(rt)
           => ReconcilePermitted(CapitalStateRecorded(rt, capital))
  BY DEF CapitalStateRecorded, Kept, Runtime, ReconcilePermitted
<1> QED
  BY <1>1, CapitalStateEvolves DEF Fenced

LEMMA KillSwitchFenced ==
  ASSUME NEW rt \in Runtime, NEW active \in BOOLEAN
  PROVE  /\ Fenced(rt, KillSwitchRecorded(rt, active))
         /\ ReconcilePermitted(rt)
              => ReconcilePermitted(KillSwitchRecorded(rt, active))
<1>1. /\ Kept(rt, KillSwitchRecorded(rt, active))
      /\ KillSwitchRecorded(rt, active).coordinator_state
           \in {rt.coordinator_state, "FAIL_SAFE_SHUTDOWN"}
  BY DEF KillSwitchRecorded, Kept, Runtime
<1> QED
  BY <1>1, KillSwitchEvolves
  DEF Fenced, ReconcilePermitted, AuthorityLiveStates, FailSafeStates

LEMMA ActivationRequestFenced ==
  ASSUME NEW rt \in Runtime, NEW requested \in BOOLEAN
  PROVE  /\ Fenced(rt, ActivationRequestRecorded(rt, requested))
         /\ ReconcilePermitted(ActivationRequestRecorded(rt, requested))
<1> DEFINE new == ActivationRequestRecorded(rt, requested)
<1>1. /\ Kept(rt, new)
      /\ new.coordinator_state
           \in {"DISPATCH_ENABLED", "LIVE_COMMITTED", "ACTIVATION_ARMED"}
  BY DEF ActivationRequestRecorded, Kept, Runtime
<1> QED
  BY <1>1, ActivationRequestEvolves
  DEF Fenced, ReconcilePermitted, AuthorityLiveStates

LEMMA ThreadsLaunchedFenced ==
  ASSUME NEW rt \in Runtime, NEW count \in Int
  PROVE  Fenced(rt, ThreadsLaunchedRecorded(rt, count))
<1>1. Kept(rt, ThreadsLaunchedRecorded(rt, count))
  BY DEF ThreadsLaunchedRecorded, Kept, Runtime
<1> QED
  BY <1>1, ThreadsLaunchedEvolves DEF Fenced

LEMMA ThreadsConfirmedFenced ==
  ASSUME NEW rt \in Runtime, NEW state \in BootstrapStates \cup {None}
  PROVE  Fenced(rt, ThreadsConfirmedRecorded(rt, state))
<1>1. Kept(rt, ThreadsConfirmedRecorded(rt, state))
  BY DEF ThreadsConfirmedRecorded, Kept, Runtime
<1> QED
  BY <1>1, ThreadsConfirmedEvolves DEF Fenced

LEMMA ThreadsSupervisedFenced ==
  ASSUME NEW rt \in Runtime, NEW count \in Nat
  PROVE  Fenced(rt, ThreadsSupervisedRecorded(rt, count))
<1>1. Kept(rt, ThreadsSupervisedRecorded(rt, count))
  BY DEF ThreadsSupervisedRecorded, Kept, Runtime
<1> QED
  BY <1>1, ThreadsSupervisedEvolves DEF Fenced

LEMMA FailSafeFenced ==
  ASSUME NEW rt \in Runtime, NEW tier
  PROVE  Fenced(rt, FailSafeRecorded(rt, tier))
<1>1. Kept(rt, FailSafeRecorded(rt, tier))
  BY DEF FailSafeRecorded, Kept, Runtime
<1> QED
  BY <1>1, FailSafeEvolves DEF Fenced

-----------------------------------------------------------------------------
(* The bootstrap transaction.                                              *)

\* No call after the first one touches bootstrap_state.
LEMMA EpochBumpedKeepsBootstrap ==
  ASSUME NEW rt \in Runtime, NEW new \in Runtime, NEW changed,
         new.bootstrap_state = rt.bootstrap_state
  PROVE  Invalidated(new, changed).bootstrap_state = rt.bootstrap_state
  BY DEF Invalidated, EpochBumped, Runtime

LEMMA BootstrapStateKept ==
  ASSUME NEW rt \in Runtime
  PROVE  /\ \A capital \in Capital :
              CapitalStateRecorded(rt, capital).bootstrap_state = rt.bootstrap_state
         /\ \A report \in ReadinessReport :
              ReadinessRecorded(rt, report).bootstrap_state = rt.bootstrap_state
         /\ \A active \in BOOLEAN :
              KillSwitchRecorded(rt, active).bootstrap_state = rt.bootstrap_state
         /\ \A report \in AuthorityReport :
              AuthorityRecorded(rt, report).bootstrap_state = rt.bootstrap_state
         /\ \A ready \in BOOLEAN :
              /\ NonceStatusRecorded(rt, ready).bootstrap_state = rt.bootstrap_state
              /\ DispatchHealthRecorded(rt, ready).bootstrap_state = rt.bootstrap_state
              /\ GlobalGateRecorded(rt, ready).bootstrap_state = rt.bootstrap_state
              /\ ActivationRequestRecorded(rt, ready).bootstrap_state = rt.bootstrap_state
<1>1. ASSUME NEW capital \in Capital
      PROVE  CapitalStateRecorded(rt, capital).bootstrap_state = rt.bootstrap_state
  BY DEF CapitalStateRecorded, Runtime
<1>2. ASSUME NEW report \in ReadinessReport
      PROVE  ReadinessRecorded(rt, report).bootstrap_state = rt.bootstrap_state
  <2> DEFINE merged == Merged(rt.readiness_table, report.table)
             new == [rt EXCEPT !.readiness_table = merged]
             regressed == Regressed(rt.readiness_table, merged)
             stored == Invalidated(new, regressed)
  <2>1. merged \in Table
    BY MergedType DEF Runtime, ReadinessReport
  <2> HIDE DEF merged, regressed
  <2>2. new \in Runtime /\ new.bootstrap_state = rt.bootstrap_state
    BY <2>1 DEF Runtime
  <2>3. Evolves(rt, new)
    BY <2>1 DEF Evolves, Runtime
  <2>4. stored \in Runtime /\ stored.bootstrap_state = rt.bootstrap_state
    BY <2>2, <2>3, EpochBumpedKeepsBootstrap, InvalidatedEvolves DEF Evolves
  <2> HIDE DEF stored
  <2>5. \/ ReadinessRecorded(rt, report) = stored
        \/ \E s : ReadinessRecorded(rt, report) = [stored EXCEPT !.coordinator_state = s]
    BY DEF ReadinessRecorded, stored, merged, regressed
  <2> QED
    BY <2>4, <2>5 DEF Runtime
<1>3. ASSUME NEW active \in BOOLEAN
      PROVE  KillSwitchRecorded(rt, active).bootstrap_state = rt.bootstrap_state
  BY DEF KillSwitchRecorded, Runtime
<1>4. ASSUME NEW report \in AuthorityReport
      PROVE  AuthorityRecorded(rt, report).bootstrap_state = rt.bootstrap_state
  <2> DEFINE new == [rt EXCEPT !.authority_ready = report.ready,
                               !.authority_status = report.status]
  <2>1. new \in Runtime /\ new.bootstrap_state = rt.bootstrap_state
    BY DEF Runtime, AuthorityReport
  <2> QED
    BY <2>1, EpochBumpedKeepsBootstrap DEF AuthorityRecorded
<1>5. ASSUME NEW ready \in BOOLEAN
      PROVE  /\ NonceStatusRecorded(rt, ready).bootstrap_state = rt.bootstrap_state
             /\ DispatchHealthRecorded(rt, ready).bootstrap_state = rt.bootstrap_state
             /\ GlobalGateRecorded(rt, ready).bootstrap_state = rt.bootstrap_state
             /\ ActivationRequestRecorded(rt, ready).bootstrap_state = rt.bootstrap_state
  <2> DEFINE n1 == [rt EXCEPT !.nonce_ready = ready]
             n2 == [rt EXCEPT !.dispatch_health_ready = ready]
             n3 == [rt EXCEPT !.global_gate_ready = ready]
  <2>1. /\ n1 \in Runtime /\ n1.bootstrap_state = rt.bootstrap_state
        /\ n2 \in Runtime /\ n2.bootstrap_state = rt.bootstrap_state
        /\ n3 \in Runtime /\ n3.bootstrap_state = rt.bootstrap_state
    BY DEF Runtime
  <2>2. ActivationRequestRecorded(rt, ready).bootstrap_state = rt.bootstrap_state
    BY DEF ActivationRequestRecorded, Runtime
  <2> HIDE DEF n1, n2, n3
  <2>3. \A changed :
          /\ Invalidated(n1, changed).bootstrap_state = rt.bootstrap_state
          /\ Invalidated(n2, changed).bootstrap_state = rt.bootstrap_state
          /\ Invalidated(n3, changed).bootstrap_state = rt.bootstrap_state
    BY <2>1, EpochBumpedKeepsBootstrap
  <2>4. NonceStatusRecorded(rt, ready).bootstrap_state = rt.bootstrap_state
    BY <2>3, Zenon DEF NonceStatusRecorded, n1
  <2>5. DispatchHealthRecorded(rt, ready).bootstrap_state = rt.bootstrap_state
    BY <2>3, Zenon DEF DispatchHealthRecorded, n2
  <2>6. GlobalGateRecorded(rt, ready).bootstrap_state = rt.bootstrap_state
    BY <2>3, Zenon DEF GlobalGateRecorded, n3
  <2> QED
    BY <2>2, <2>4, <2>5, <2>6
<1> QED
  BY <1>1, <1>2, <1>3, <1>4, <1>5

\* A transaction reports the bootstrap state it carries, and one that reports
\* RUNNING_SUPERVISED stays in the live zone from its first call to its last.
LEMMA TransactionFenced ==
  ASSUME NEW rt \in Runtime, ReconcilePermitted(rt), NEW tx \in TransactionType
  PROVE  /\ TransactionEvidence(rt, tx).bootstrap_state = tx.bootstrap_state
         /\ tx.bootstrap_state = "RUNNING_SUPERVISED"
              => Fenced(rt, TransactionEvidence(rt, tx))
<1> DEFINE r1 == BootstrapStateRecorded(rt, tx.bootstrap_state)
           r2 == CapitalStateRecorded(r1, tx.capital)
           r3 == ReadinessRecorded(r2, tx.readiness)
           r4 == KillSwitchRecorded(r3, tx.kill_switch_active)
           r5 == AuthorityRecorded(r4, tx.authority)
           r6 == NonceStatusRecorded(r5, tx.nonce_ready)
           r7 == DispatchHealthRecorded(r6, tx.dispatch_health_ready)
           r8 == GlobalGateRecorded(r7, tx.global_gate_ready)
           r9 == ActivationRequestRecorded(r8, TRUE)
<1>t. /\ tx.bootstrap_state \in BootstrapStates /\ tx.capital \in Capital
      /\ tx.readiness \in ReadinessReport /\ tx.kill_switch_active \in BOOLEAN
      /\ tx.authority \in AuthorityReport /\ tx.nonce_ready \in BOOLEAN
      /\ tx.dispatch_health_ready \in BOOLEAN /\ tx.global_gate_ready \in BOOLEAN
  BY DEF TransactionType
<1>e. \A r, s : Evolves(r, s) => s \in Runtime
  BY DEF Evolves
<1>f. \A r, s : Fenced(r, s) => s \in Runtime
  BY DEF Fenced, Evolves
<1>0. r1 \in Runtime /\ r1.bootstrap_state = tx.bootstrap_state
  <2>1. Evolves(rt, r1)
    BY <1>t, BootstrapStateEvolves
  <2>2. r1.bootstrap_state = tx.bootstrap_state
    BY DEF BootstrapStateRecorded, Runtime
  <2> QED
    BY <1>e, <2>1, <2>2
<1>2. r2 \in Runtime /\ r2.bootstrap_state = r1.bootstrap_state
  BY <1>t, <1>e, <1>0, CapitalStateEvolves, BootstrapStateKept
<1>3. r3 \in Runtime /\ r3.bootstrap_state = r2.bootstrap_state
  BY <1>t, <1>e, <1>2, ReadinessEvolves, BootstrapStateKept
<1>4. r4 \in Runtime /\ r4.bootstrap_state = r3.bootstrap_state
  BY <1>t, <1>e, <1>3, KillSwitchEvolves, BootstrapStateKept
<1>5. r5 \in Runtime /\ r5.bootstrap_state = r4.bootstrap_state
  BY <1>t, <1>e, <1>4, AuthorityEvolves, BootstrapStateKept
<1>6. r6 \in Runtime /\ r6.bootstrap_state = r5.bootstrap_state
  BY <1>t, <1>e, <1>5, NonceStatusEvolves, BootstrapStateKept
<1>7. r7 \in Runtime /\ r7.bootstrap_state = r6.bootstrap_state
  BY <1>t, <1>e, <1>6, DispatchHealthEvolves, BootstrapStateKept
<1>8. r8 \in Runtime /\ r8.bootstrap_state = r7.bootstrap_state
  BY <1>t, <1>e, <1>7, GlobalGateEvolves, BootstrapStateKept
<1>9. r9.bootstrap_state = r8.bootstrap_state
  BY <1>8, BootstrapStateKept
<1>10. TransactionEvidence(rt, tx) = IF tx.activation_requested THEN r9 ELSE r8
  BY DEF TransactionEvidence
<1>11. TransactionEvidence(rt, tx).bootstrap_state = tx.bootstrap_state
  <2> HIDE DEF r1, r2, r3, r4, r5, r6, r7, r8, r9
  <2> QED
    BY <1>0, <1>2, <1>3, <1>4, <1>5, <1>6, <1>7, <1>8, <1>9, <1>10
<1>12. ASSUME tx.bootstrap_state = "RUNNING_SUPERVISED"
       PROVE  Fenced(rt, TransactionEvidence(rt, tx))
  <2>1. Fenced(rt, r1) /\ ReconcilePermitted(r1)
    BY <1>t, <1>12, BootstrapStateFenced
  <2>2. Fenced(r1, r2) /\ ReconcilePermitted(r2)
    BY <1>t, <1>0, <2>1, CapitalStateFenced
  <2>3. Fenced(r2, r3) /\ ReconcilePermitted(r3)
    BY <1>t, <1>2, <2>2, ReadinessFenced DEF LiveFenced
  <2>4. Fenced(r3, r4) /\ ReconcilePermitted(r4)
    BY <1>t, <1>3, <2>3, KillSwitchFenced
  <2>5. Fenced(r4, r5) /\ ReconcilePermitted(r5)
    BY <1>t, <1>4, <2>4, AuthorityFenced DEF LiveFenced
  <2>6. Fenced(r5, r6) /\ ReconcilePermitted(r6)
    BY <1>t, <1>5, <2>5, NonceStatusFenced DEF LiveFenced
  <2>7. Fenced(r6, r7) /\ ReconcilePermitted(r7)
    BY <1>t, <1>6, <2>6, DispatchHealthFenced DEF LiveFenced
  <2>8. Fenced(r7, r8)
    BY <1>t, <1>7, <2>7, GlobalGateFenced DEF LiveFenced
  <2>9. Fenced(r8, r9)
    BY <1>8, ActivationRequestFenced
  <2> HIDE DEF r1, r2, r3, r4, r5, r6, r7, r8, r9
  <2>10. Fenced(rt, r4)
    BY <2>1, <2>2, <2>3, <2>4, FencedTransitive
  <2>11. Fenced(rt, r8)
    BY <2>10, <2>5, <2>6, <2>7, <2>8, FencedTransitive
  <2> QED
    BY <2>9, <2>11, <1>10, FencedTransitive
<1> QED
  BY <1>11, <1>12

-----------------------------------------------------------------------------
(* Snapshots, evaluation and commit.                                       *)

\* A step that neither bumps the epoch nor touches a signal, a readiness key,
\* the global gate or the bootstrap state.
Steady(rt, new) ==
  /\ new.global_epoch = rt.global_epoch
  /\ new.bootstrap_state = rt.bootstrap_state
  /\ Kept(rt, new)

LEMMA SnapshotBuiltSteady ==
  ASSUME NEW rt \in Runtime, NEW ts, NEW intent
  PROVE  Steady(rt, SnapshotBuilt(rt, ts, intent))
<1>1. \/ SnapshotBuilt(rt, ts, intent) = rt
      \/ \E state, in : SnapshotBuilt(rt, ts, intent) =
           [rt EXCEPT !.runtime_authority_state = state,
                      !.last_reconcile_inputs = in]
  BY DEF SnapshotBuilt, Reconcile
<1> QED
  BY <1>1 DEF Steady, Kept, Runtime

LEMMA ActivationEvaluatedSteady ==
  ASSUME NEW rt \in Runtime, NEW snapshot
  PROVE  Steady(rt, ActivationEvaluated(rt, snapshot))
<1>1. \E s : ActivationEvaluated(rt, snapshot) = [rt EXCEPT !.coordinator_state = s]
  BY DEF ActivationEvaluated
<1> QED
  BY <1>1 DEF Steady, Kept, Runtime

LEMMA SnapshotEvaluatedSteady ==
  ASSUME NEW rt, Sound(rt), NEW ts \in TradingStateNames, NEW intent \in BOOLEAN
  PROVE  Steady(rt, SnapshotEvaluated(rt, ts, intent))
<1> DEFINE built == SnapshotBuilt(rt, ts, intent)
           snapshot == Snapshot(rt, ts, intent)
<1>1. built \in Runtime /\ Steady(rt, built)
  BY SnapshotBuiltType, SnapshotBuiltSteady DEF Sound
<1>2. Steady(built, ActivationEvaluated(built, snapshot))
  BY <1>1, ActivationEvaluatedSteady
<1>3. SnapshotEvaluated(rt, ts, intent) = ActivationEvaluated(built, snapshot)
  BY DEF SnapshotEvaluated
<1> HIDE DEF built, snapshot
<1> QED
  BY <1>1, <1>2, <1>3 DEF Steady, Kept

LEMMA ActivationCommittedSteady ==
  ASSUME NEW rt \in Runtime, NEW snapshot, NEW same_version
  PROVE  Steady(rt, ActivationCommitted(rt, snapshot, same_version))
  BY DEF ActivationCommitted, Steady, Kept, Runtime

-----------------------------------------------------------------------------
(* The actions.                                                            *)

\* A step of the runtime record that does not advance the epoch keeps what the
\* fence protects.
Guarded(rt, new) == new.global_epoch > rt.global_epoch \/ Kept(rt, new)

LEMMA EvidenceGuarded ==
  ASSUME IInv, ReconcilePermitted(runtime), Evidence
  PROVE  Guarded(runtime, runtime')
<1> SUFFICES \E rt : Fenced(runtime, rt) /\ Record(rt)
  BY DEF Record, Fenced, Guarded
<1> USE CoordinatorAssumption DEF CoordinatorAssumption
<1>0. runtime \in Runtime
  BY DEF IInv, Sound
<1>1. CASE RecordBootstrapState
  BY <1>0, <1>1, BootstrapStateFenced DEF RecordBootstrapState
<1>2. CASE RecordReadiness
  BY <1>0, <1>2, ReadinessFenced DEF RecordReadiness, LiveFenced
<1>3. CASE RecordGlobalGate
  BY <1>0, <1>3, GlobalGateFenced DEF RecordGlobalGate, LiveFenced
<1>4. CASE RecordCapitalState
  BY <1>0, <1>4, CapitalStateFenced DEF RecordCapitalState
<1>5. CASE RecordAuthority
  BY <1>0, <1>5, AuthorityFenced DEF RecordAuthority, LiveFenced
<1>6. CASE RecordNonceStatus
  BY <1>0, <1>6, NonceStatusFenced DEF RecordNonceStatus, LiveFenced
<1>7. CASE RecordDispatchHealth
  BY <1>0, <1>7, DispatchHealthFenced DEF RecordDispatchHealth, LiveFenced
<1>8. CASE RecordThreadsLaunched
  BY <1>0, <1>8, ThreadsLaunchedFenced DEF RecordThreadsLaunched
<1>9. CASE RecordThreadsConfirmedRunning
  BY <1>0, <1>9, ThreadsConfirmedFenced DEF RecordThreadsConfirmedRunning
<1>10. CASE RecordThreadsSupervised
  BY <1>0, <1>10, ThreadsSupervisedFenced DEF RecordThreadsSupervised
<1>11. CASE RecordActivationRequested
  BY <1>0, <1>11, ActivationRequestFenced DEF RecordActivationRequested
<1>12. CASE RecordKillSwitch
  BY <1>0, <1>12, KillSwitchFenced DEF RecordKillSwitch
<1>13. CASE RecordFailSafe
  BY <1>0, <1>13, FailSafeFenced DEF RecordFailSafe
<1> QED
  BY <1>1, <1>2, <1>3, <1>4, <1>5, <1>6, <1>7, <1>8, <1>9, <1>10, <1>11, <1>12,
     <1>13 DEF Evidence

\* Evidence followed, in the same lock window, by a snapshot and its evaluation.
LEMMA EvaluatedGuarded ==
  ASSUME NEW rt, Sound(rt), NEW mid, Fenced(rt, mid),
         NEW ts \in TradingStateNames, NEW intent \in BOOLEAN
  PROVE  Guarded(rt, SnapshotEvaluated(mid, ts, intent))
<1>1. Sound(mid)
  BY EvolvesAdvances DEF Fenced, Advances
<1>2. Steady(mid, SnapshotEvaluated(mid, ts, intent))
  BY <1>1, SnapshotEvaluatedSteady
<1> QED
  BY <1>2 DEF Fenced, Steady, Guarded, Kept

LEMMA PollsGuarded ==
  ASSUME IInv, ReconcilePermitted(runtime),
         PollAuthority \/ RecordAuthorityAndEvaluate
  PROVE  Guarded(runtime, runtime')
<1>0. runtime \in Runtime
  BY DEF IInv, Sound
<1>1. CASE PollAuthority
  BY <1>0, <1>1, SnapshotBuiltSteady DEF PollAuthority, Record, Steady, Guarded
<1>2. CASE RecordAuthorityAndEvaluate
  <2>1. PICK report \in AuthorityReports, ts \in TradingStates, intent \in Intents :
          runtime' = SnapshotEvaluated(AuthorityRecorded(runtime, report), ts, intent)
    BY <1>2 DEF RecordAuthorityAndEvaluate, Record
  <2>2. /\ report \in AuthorityReport
        /\ ts \in TradingStateNames
        /\ intent \in BOOLEAN
    BY CoordinatorAssumption DEF CoordinatorAssumption
  <2>3. Fenced(runtime, AuthorityRecorded(runtime, report))
    BY <1>0, <2>2, AuthorityFenced DEF LiveFenced
  <2> QED
    BY <2>1, <2>2, <2>3, EvaluatedGuarded DEF IInv
<1> QED
  BY <1>1, <1>2

LEMMA TransactionGuarded ==
  ASSUME IInv, ReconcilePermitted(runtime), NEW c \in Callers,
         NEW tx \in TransactionType, ApplyTransaction(c, tx),
         runtime'.bootstrap_state = "RUNNING_SUPERVISED"
  PROVE  Guarded(runtime, runtime')
<1> DEFINE mid == TransactionEvidence(runtime, tx)
<1>2. tx.trading_state \in TradingStateNames /\ tx.activation_intent \in BOOLEAN
  BY DEF TransactionType
<1>3. runtime' = SnapshotEvaluated(mid, tx.trading_state, tx.activation_intent)
  BY DEF ApplyTransaction, TransactionApplied
<1>4. runtime \in Runtime
  BY DEF IInv, Sound
<1>5. /\ mid.bootstrap_state = tx.bootstrap_state
      /\ tx.bootstrap_state = "RUNNING_SUPERVISED" => Fenced(runtime, mid)
      /\ Evolves(runtime, mid)
  BY <1>2, <1>4, TransactionFenced, TransactionEvolves
<1> HIDE DEF mid
<1>6. Sound(mid)
  BY <1>5, EvolvesAdvances DEF IInv, Advances
<1>7. runtime'.bootstrap_state = mid.bootstrap_state
  BY <1>2, <1>3, <1>6, SnapshotEvaluatedSteady DEF Steady
<1>8. Fenced(runtime, mid)
  BY <1>5, <1>7
<1> QED
  BY <1>2, <1>3, <1>8, EvaluatedGuarded DEF IInv

LEMMA CallerGuarded ==
  ASSUME IInv, ReconcilePermitted(runtime), NEW c \in Callers, CallerStep(c),
         runtime'.bootstrap_state = "RUNNING_SUPERVISED"
  PROVE  Guarded(runtime, runtime')
<1>0. runtime \in Runtime
  BY DEF IInv, Sound
<1>1. CASE TakeSnapshot(c)
  BY <1>0, <1>1, SnapshotBuiltSteady DEF TakeSnapshot, Steady, Guarded
<1>2. CASE EvaluateActivation(c)
  BY <1>0, <1>2, ActivationEvaluatedSteady DEF EvaluateActivation, Steady, Guarded
<1>3. CASE ApplyBootstrapTransaction(c)
  BY <1>3, CoordinatorAssumption, TransactionGuarded
  DEF ApplyBootstrapTransaction, CoordinatorAssumption
<1>4. CASE FinalizeSnapshot(c)
  BY <1>0, <1>4, SnapshotBuiltSteady DEF FinalizeSnapshot, Steady, Guarded
<1>5. CASE FinalizeCommit(c)
  BY <1>0, <1>5, ActivationCommittedSteady
  DEF FinalizeCommit, CommitWindow, Steady, Guarded, Kept
<1>6. CASE ForceActivateBypass(c)
  BY <1>6 DEF ForceActivateBypass, Guarded, Kept
<1>7. CASE ForceProbe(c)
  BY <1>0, <1>7, SnapshotBuiltSteady DEF ForceProbe, Steady, Guarded
<1>8. CASE ForceRequest(c)
  BY <1>0, <1>8, ActivationRequestFenced DEF ForceRequest, Fenced, Guarded
<1>9. CASE ForceSnapshot(c)
  BY <1>0, <1>9, SnapshotBuiltSteady DEF ForceSnapshot, Steady, Guarded
<1> QED
  BY <1>1, <1>2, <1>3, <1>4, <1>5, <1>6, <1>7, <1>8, <1>9 DEF CallerStep

\* The fence: every step that starts in the live zone and ends with a bootstrap
\* machine in RUNNING_SUPERVISED pays for a change with an epoch and the latch.
LEMMA StepFenced ==
  ASSUME IInv, [Next]_vars, ReconcilePermitted(runtime),
         runtime'.bootstrap_state = "RUNNING_SUPERVISED"
  PROVE  \/ runtime'.global_epoch > runtime.global_epoch /\ ~runtime'.commit_latch
         \/ Kept(runtime, runtime')
<1>1. Guarded(runtime, runtime')
  <2>1. CASE UNCHANGED vars
    BY <2>1 DEF vars, Guarded, Kept
  <2>2. CASE Next
    BY <2>2, EvidenceGuarded, PollsGuarded, CallerGuarded DEF Next
  <2> QED
    BY <2>1, <2>2
<1>2. runtime.global_epoch \in Nat /\ runtime'.global_epoch \in Nat
  BY NextAdvances DEF RuntimeStep, Advances, IInv, Sound, Runtime
<1> QED
  BY <1>1, <1>2, NextAdvances DEF Guarded, RuntimeStep, Advances

-----------------------------------------------------------------------------
(* The theorems.                                                           *)

\* In the live zone, under a supervised bootstrap machine, no record_* call, no
\* transaction and no commit changes authority, nonce or dispatch-health
\* readiness without advancing the epoch and revoking the commit.
THEOREM InvalidationIsFenced == Spec => InvalidationFenced
<1>1. ASSUME IInv, [Next]_vars
      PROVE  [/\ ReconcilePermitted(runtime)
              /\ runtime'.bootstrap_state = "RUNNING_SUPERVISED"
              /\ SignalsChanged
              => /\ runtime'.global_epoch > runtime.global_epoch
                 /\ ~runtime'.commit_latch]_vars
  BY <1>1, StepFenced DEF Kept, SignalsChanged
<1> QED
  BY <1>1, Invariance, PTL DEF Spec, InvalidationFenced

\* In the live zone, under a supervised bootstrap machine, a readiness key or a
\* global gate that is lost takes the commit latch with it, in whatever table
\* or transaction the loss arrives.
THEOREM RegressionIsFenced == Spec => RegressionRevokes
<1>1. ASSUME IInv, [Next]_vars
      PROVE  [/\ ReconcilePermitted(runtime)
              /\ runtime'.bootstrap_state = "RUNNING_SUPERVISED"
              /\ \/ ~(runtime.readiness_table.ready
                        \subseteq runtime'.readiness_table.ready)
                 \/ runtime.global_gate_ready /\ ~runtime'.global_gate_ready
              => ~runtime'.commit_latch]_vars
  BY <1>1, StepFenced DEF Kept
<1> QED
  BY <1>1, Invariance, PTL DEF Spec, RegressionRevokes
=============================================================================
