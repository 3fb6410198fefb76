------------------------- MODULE CoordinatorRuntime -------------------------
(***************************************************************************)
(* The mutable record of bot/startup_coordinator.py (class _RuntimeState)  *)
(* and what each method of StartupCoordinator does to it, as operators     *)
(* from a runtime record to a runtime record.  Every method body runs      *)
(* under the re-entrant lock self._lock, so one operator is one lock       *)
(* window; apply_bootstrap_transaction nests nine of them in one window    *)
(* and is their composition.                                               *)
(*                                                                         *)
(* Data abstraction: event_version, history, log texts, "reason" and       *)
(* "detail" strings and the stored proof dictionaries are left out, they   *)
(* guard nothing.  last_committed_snapshot_version is only ever compared   *)
(* with zero and is the Boolean commit_latch.                              *)
(***************************************************************************)
EXTENDS Integers

CONSTANTS
  None,               \* Python's None: no balance, no cached inputs, no fingerprint
  Balances,           \* capital balances a broker snapshot can report
  AuthorityStatuses,  \* status dictionaries passed to record_authority
  ReadinessKeys       \* components of the readiness truth table

-----------------------------------------------------------------------------
(* State names.                                                            *)

SuppressedStates ==
  {"BOOT_INIT", "LOCKED", "HEALTHY", "ENV_READY", "MODE_READY",
   "BROKER_READY", "BALANCE_READY", "CAPABILITY_READY", "PREFLIGHT_READY",
   "CAPITAL_PENDING", "CAPITAL_READY", "INIT_COMMITTED", "THREADS_PENDING"}

FailSafeStates ==
  {"FAIL_SAFE", "FAIL_SAFE_WARN", "FAIL_SAFE_HALT", "FAIL_SAFE_SHUTDOWN"}

\* _AUTHORITY_LIVE_STATES: the zone in which authority is reconciled.
AuthorityLiveStates ==
  {"SUPERVISED_RUNNING", "ACTIVATION_ARMED", "ACTIVATION_CONVERGING",
   "LIVE_COMMITTED", "DISPATCH_ENABLED", "DEGRADED_RETRY", "RESTART_REQUIRED"}
  \cup FailSafeStates

CoordinatorStates == SuppressedStates \cup AuthorityLiveStates

RuntimeAuthorityStates ==
  {"BOOT", "STANDBY", "READY", "AUTHORIZED", "EXECUTING", "DEGRADED"}

\* Names the other machines report: BootstrapState, CapitalBootstrapState and
\* TradingState, with the fallbacks their readers substitute.
BootstrapStates ==
  {"BOOT_INIT", "LOCK_ACQUIRED", "HEALTH_BOUND", "ENV_VERIFIED",
   "CAPABILITY_VERIFIED", "STARTUP_VALIDATED", "MODE_GATED",
   "PLATFORM_CONNECTING", "PLATFORM_READY", "BALANCE_HYDRATED",
   "CAPITAL_REFRESHING", "CAPITAL_READY", "INIT_COMPLETE", "DEGRADED_READY",
   "THREADS_STARTING", "RUNNING_SUPERVISED", "CONFIG_ERROR_KEEPALIVE",
   "BOOT_FAILED_RETRY", "EXTERNAL_RESTART_REQUIRED", "SHUTDOWN", "unknown"}

CapitalStates ==
  {"BOOT_INIT", "BOOT_IDLE", "WAIT_PLATFORM", "INIT_COMPLETE",
   "REFRESH_REQUESTED", "REFRESH_IN_FLIGHT", "SNAPSHOT_EVALUATING", "READY",
   "RUNNING", "DEGRADED", "FAILED", "UNAVAILABLE"}

TradingStateNames ==
  {"OFF", "DRY_RUN", "LIVE_PENDING_CONFIRMATION", "LIVE_ACTIVE",
   "EMERGENCY_STOP", "UNKNOWN"}

EarlyBootstrapStates ==
  {"BOOT_INIT", "LOCK_ACQUIRED", "HEALTH_BOUND", "ENV_VERIFIED", "MODE_GATED",
   "unknown"}

DegradedBootstrapStates == {"BOOT_FAILED_RETRY", "EXTERNAL_RESTART_REQUIRED"}

\* _RUNTIME_ALLOWED_TRANSITIONS.
AllowedFrom ==
  [BOOT       |-> {"STANDBY", "READY", "AUTHORIZED", "EXECUTING", "DEGRADED"},
   STANDBY    |-> {"BOOT", "READY", "AUTHORIZED", "EXECUTING", "DEGRADED"},
   READY      |-> {"STANDBY", "AUTHORIZED", "EXECUTING", "DEGRADED"},
   AUTHORIZED |-> {"READY", "EXECUTING", "DEGRADED"},
   EXECUTING  |-> {"AUTHORIZED", "READY", "STANDBY", "DEGRADED"},
   DEGRADED   |-> {"BOOT", "STANDBY", "READY", "AUTHORIZED", "EXECUTING"}]

\* event_map of record_bootstrap_state: the coordinator state each bootstrap
\* state drives; a bootstrap state outside the map leaves it alone.
BootstrapTarget ==
  [LOCK_ACQUIRED |-> "LOCKED",
   HEALTH_BOUND |-> "HEALTHY",
   ENV_VERIFIED |-> "ENV_READY",
   MODE_GATED |-> "MODE_READY",
   PLATFORM_READY |-> "BROKER_READY",
   BALANCE_HYDRATED |-> "BALANCE_READY",
   CAPABILITY_VERIFIED |-> "CAPABILITY_READY",
   STARTUP_VALIDATED |-> "PREFLIGHT_READY",
   CAPITAL_REFRESHING |-> "CAPITAL_PENDING",
   CAPITAL_READY |-> "CAPITAL_READY",
   INIT_COMPLETE |-> "INIT_COMMITTED",
   THREADS_STARTING |-> "THREADS_PENDING",
   RUNNING_SUPERVISED |-> "SUPERVISED_RUNNING",
   BOOT_FAILED_RETRY |-> "DEGRADED_RETRY",
   EXTERNAL_RESTART_REQUIRED |-> "RESTART_REQUIRED"]

-----------------------------------------------------------------------------
(* Types.                                                                  *)

Capital == [state: CapitalStates, hydrated: BOOLEAN,
            balance: Balances \cup {None}, stale: BOOLEAN]

\* A readiness table: the registered keys and those of them that are True.
Table == [known: SUBSET ReadinessKeys, ready: SUBSET ReadinessKeys]

\* The arguments of one record_readiness call.
ReadinessReport ==
  [key: ReadinessKeys \cup {"__snapshot__", "__bulk_revoke__"},
   value: BOOLEAN, table: Table]

AuthorityReport ==
  [ready: BOOLEAN, status: AuthorityStatuses \cup {None}]

\* The fingerprint _reconcile_runtime_authority_locked builds of its inputs.
ReconcileInputs ==
  [trading_state: TradingStateNames, activation_intent: BOOLEAN,
   bootstrap_state: BootstrapStates, capital: Capital,
   threads_launched: Nat, threads_confirmed_running: BOOLEAN,
   authority_ready: BOOLEAN, nonce_ready: BOOLEAN,
   dispatch_health_ready: BOOLEAN, global_gate_ready: BOOLEAN,
   kill_switch_active: BOOLEAN, activation_epoch: Nat, global_epoch: Nat,
   commit_latch: BOOLEAN, coordinator_state: CoordinatorStates,
   readiness_table: Table]

CommitFingerprint ==
  [global_epoch: Nat, activation_epoch: Nat,
   runtime_authority_state: RuntimeAuthorityStates,
   global_gate_ready: BOOLEAN]

Runtime ==
  [coordinator_state: CoordinatorStates,
   bootstrap_state: BootstrapStates,
   capital: Capital,
   readiness_table: Table,
   global_gate_ready: BOOLEAN,
   global_epoch: Nat,
   authority_ready: BOOLEAN,
   authority_status: AuthorityStatuses \cup {None},
   nonce_ready: BOOLEAN,
   dispatch_health_ready: BOOLEAN,
   threads_launched: Nat,
   threads_confirmed_running: BOOLEAN,
   activation_requested: BOOLEAN,
   activation_epoch: Nat,
   kill_switch_active: BOOLEAN,
   commit_latch: BOOLEAN,
   activation_committed: BOOLEAN,
   commit_fingerprint: CommitFingerprint \cup {None},
   runtime_authority_state: RuntimeAuthorityStates,
   last_reconcile_inputs: ReconcileInputs \cup {None}]

\* The defaults of _RuntimeState.
InitRuntime ==
  [coordinator_state |-> "BOOT_INIT",
   bootstrap_state |-> "BOOT_INIT",
   capital |-> [state |-> "BOOT_INIT", hydrated |-> FALSE,
                balance |-> None, stale |-> TRUE],
   readiness_table |-> [known |-> {}, ready |-> {}],
   global_gate_ready |-> FALSE,
   global_epoch |-> 0,
   authority_ready |-> FALSE,
   authority_status |-> None,
   nonce_ready |-> FALSE,
   dispatch_health_ready |-> FALSE,
   threads_launched |-> 0,
   threads_confirmed_running |-> FALSE,
   activation_requested |-> FALSE,
   activation_epoch |-> 0,
   kill_switch_active |-> FALSE,
   commit_latch |-> FALSE,
   activation_committed |-> FALSE,
   commit_fingerprint |-> None,
   runtime_authority_state |-> "BOOT",
   last_reconcile_inputs |-> None]

-----------------------------------------------------------------------------
(* record_* methods.                                                       *)

ReconcilePermitted(rt) == rt.coordinator_state \in AuthorityLiveStates

\* Mutant: the bump leaves last_committed_snapshot_version alone.
EpochBumpedLatchKept(rt) ==
  [rt EXCEPT !.global_epoch = @ + 1, !.activation_committed = FALSE,
             !.commit_fingerprint = None]

\* Mutant: the bump resets the version and forgets the idempotence guard.
EpochBumpedGuardKept(rt) ==
  [rt EXCEPT !.global_epoch = @ + 1, !.commit_latch = FALSE]

\* _revoke_activation_commit_locked together with the epoch bump that always
\* precedes it.
EpochBumped(rt) ==
  [rt EXCEPT !.global_epoch = @ + 1,
             !.commit_latch = FALSE,
             !.activation_committed = FALSE,
             !.commit_fingerprint = None]

\* An authority-invalidating change counts only inside the live zone.
Invalidated(rt, changed) ==
  IF changed /\ ReconcilePermitted(rt) THEN EpochBumped(rt) ELSE rt

\* record_bootstrap_state: the duplicate-publish branch and the publishing one
\* write the same fields.
BootstrapStateRecorded(rt, state) ==
  [rt EXCEPT
     !.bootstrap_state = state,
     !.coordinator_state =
        IF state \in DOMAIN BootstrapTarget THEN BootstrapTarget[state] ELSE @,
     !.threads_confirmed_running = @ \/ state = "RUNNING_SUPERVISED"]

\* Mutant: a false value of the incoming table does not override a true one.
MergedUnion(previous, incoming) ==
  [known |-> previous.known \cup incoming.known,
   ready |-> previous.ready \cup incoming.ready]

\* dict.update: every key of the incoming table overrides the stored one.
Merged(previous, incoming) ==
  [known |-> previous.known \cup incoming.known,
   ready |-> (previous.ready \ incoming.known) \cup incoming.ready]

\* Mutant: any key that is true will do.
PendingOfAny(table) == IF table.ready = {} THEN table.known ELSE {}

Pending(table) == table.known \ table.ready

Regressed(previous, merged) == ~(previous.ready \subseteq merged.ready)

ReadinessRecorded(rt, report) ==
  LET merged == Merged(rt.readiness_table, report.table)
      stored == Invalidated([rt EXCEPT !.readiness_table = merged],
                            Regressed(rt.readiness_table, merged))
  IN  IF ReconcilePermitted(rt) THEN stored
      ELSE [stored EXCEPT !.coordinator_state =
              IF report.key = "broker_connected" /\ report.value
              THEN "BROKER_READY"
              ELSE IF "bootstrap_ready" \in report.table.ready
                   THEN "INIT_COMMITTED" ELSE @]

\* Mutant: a lost global gate revokes nothing.
GlobalGateUnfenced(rt, ready) == [rt EXCEPT !.global_gate_ready = ready]

GlobalGateRecorded(rt, ready) ==
  Invalidated([rt EXCEPT !.global_gate_ready = ready],
              rt.global_gate_ready /\ ~ready)

CapitalRunning(capital) == capital.state \in {"READY", "RUNNING"}

\* Capital changes never advance the epoch.
CapitalStateRecorded(rt, capital) ==
  [rt EXCEPT
     !.capital = capital,
     !.coordinator_state =
        IF ReconcilePermitted(rt) THEN @
        ELSE IF CapitalRunning(capital) /\ capital.hydrated /\ ~capital.stale
             THEN "CAPITAL_READY" ELSE "CAPITAL_PENDING"]

AuthorityRecorded(rt, report) ==
  Invalidated([rt EXCEPT !.authority_ready = report.ready,
                         !.authority_status = report.status],
              \/ rt.authority_ready # report.ready
              \/ rt.authority_status # report.status)

\* Mutant: only the loss of the nonce lease counts, not its return.
NonceLossFenced(rt, ready) ==
  Invalidated([rt EXCEPT !.nonce_ready = ready], rt.nonce_ready /\ ~ready)

NonceStatusRecorded(rt, ready) ==
  Invalidated([rt EXCEPT !.nonce_ready = ready], rt.nonce_ready # ready)

DispatchHealthRecorded(rt, ready) ==
  Invalidated([rt EXCEPT !.dispatch_health_ready = ready],
              rt.dispatch_health_ready # ready)

\* Mutant: the count is stored as it comes.
ThreadsLaunchedUnclamped(rt, count) ==
  [rt EXCEPT !.threads_launched = count, !.coordinator_state = "THREADS_PENDING"]

\* record_threads_launched leaves the live zone, whatever the state was.
ThreadsLaunchedRecorded(rt, count) ==
  [rt EXCEPT !.threads_launched = IF count > 0 THEN count ELSE 0,
             !.coordinator_state = "THREADS_PENDING"]

\* bootstrap_state is None when the caller does not pass one.
ThreadsConfirmedRecorded(rt, state) ==
  [rt EXCEPT !.bootstrap_state = IF state = None THEN @ ELSE state,
             !.threads_confirmed_running = TRUE,
             !.coordinator_state = "SUPERVISED_RUNNING"]

ThreadsSupervisedRecorded(rt, count) ==
  [rt EXCEPT !.threads_launched = count,
             !.bootstrap_state = "RUNNING_SUPERVISED",
             !.threads_confirmed_running = TRUE,
             !.coordinator_state = "SUPERVISED_RUNNING"]

ActivationRequestRecorded(rt, requested) ==
  [rt EXCEPT
     !.activation_requested = requested,
     !.activation_epoch = IF requested THEN rt.global_epoch ELSE @,
     !.coordinator_state =
        IF @ \in {"DISPATCH_ENABLED", "LIVE_COMMITTED"} THEN @
        ELSE "ACTIVATION_ARMED"]

\* Clearing the kill switch leaves the coordinator state where it is.
KillSwitchRecorded(rt, active) ==
  [rt EXCEPT !.kill_switch_active = active,
             !.coordinator_state = IF active THEN "FAIL_SAFE_SHUTDOWN" ELSE @]

FailSafeRecorded(rt, tier) ==
  [rt EXCEPT !.coordinator_state =
     CASE tier = "WARN" -> "FAIL_SAFE_WARN"
       [] tier = "HALT" -> "FAIL_SAFE_HALT"
       [] OTHER -> "FAIL_SAFE_SHUTDOWN"]

-----------------------------------------------------------------------------
(* _reconcile_runtime_authority_locked.                                    *)

\* The fingerprint: every input of the reconcile, except the current
\* runtime_authority_state.
Inputs(rt, ts, intent) ==
  [trading_state |-> ts,
   activation_intent |-> intent \/ rt.activation_requested,
   bootstrap_state |-> rt.bootstrap_state,
   capital |-> rt.capital,
   threads_launched |-> rt.threads_launched,
   threads_confirmed_running |-> rt.threads_confirmed_running,
   authority_ready |-> rt.authority_ready,
   nonce_ready |-> rt.nonce_ready,
   dispatch_health_ready |-> rt.dispatch_health_ready,
   global_gate_ready |-> rt.global_gate_ready,
   kill_switch_active |-> rt.kill_switch_active,
   activation_epoch |-> rt.activation_epoch,
   global_epoch |-> rt.global_epoch,
   commit_latch |-> rt.commit_latch,
   coordinator_state |-> rt.coordinator_state,
   readiness_table |-> rt.readiness_table]

CapitalHardGate(capital) == capital.hydrated /\ capital.balance # None

PrereqsReady(in) ==
  /\ in.bootstrap_state = "RUNNING_SUPERVISED"
  /\ CapitalRunning(in.capital)
  /\ in.threads_launched > 0
  /\ in.threads_confirmed_running
  /\ CapitalHardGate(in.capital)
  /\ ~in.capital.stale
  /\ Pending(in.readiness_table) = {}

\* Mutant: the nonce lease is not among the converged gates.
ConvergedWithoutNonce(in) ==
  /\ PrereqsReady(in)
  /\ in.activation_intent
  /\ in.authority_ready
  /\ in.dispatch_health_ready
  /\ ~in.kill_switch_active
  /\ in.activation_epoch = in.global_epoch

AuthorityConverged(in) ==
  /\ PrereqsReady(in)
  /\ in.activation_intent
  /\ in.authority_ready
  /\ in.nonce_ready
  /\ in.dispatch_health_ready
  /\ ~in.kill_switch_active
  /\ in.activation_epoch = in.global_epoch

Executing(in) ==
  AuthorityConverged(in) /\ in.commit_latch /\ in.trading_state = "LIVE_ACTIVE"

\* Mutant: the fail-safe tiers are not in the set, only the legacy alias is.
DegradedStateUntiered(in) ==
  in.coordinator_state \in {"FAIL_SAFE", "RESTART_REQUIRED", "DEGRADED_RETRY"}

DegradedState(in) ==
  in.coordinator_state
    \in FailSafeStates \cup {"RESTART_REQUIRED", "DEGRADED_RETRY"}

\* severe_degradation: one disjunct per branch of the elif chain; the last two
\* read the current authority state.
SevereDegradation(in, current) ==
  \/ in.kill_switch_active
  \/ in.trading_state = "EMERGENCY_STOP"
  \/ in.bootstrap_state \in DegradedBootstrapStates
  \/ DegradedState(in)
  \/ /\ in.capital.stale
     /\ CapitalHardGate(in.capital)
     /\ \/ in.activation_intent
        \/ in.commit_latch
        \/ in.trading_state = "LIVE_ACTIVE"
  \/ in.activation_intent /\ in.activation_epoch # in.global_epoch
  \/ in.commit_latch /\ ~AuthorityConverged(in)
  \/ /\ current \in {"AUTHORIZED", "EXECUTING"}
     /\ in.activation_intent
     /\ ~AuthorityConverged(in)
  \/ /\ current = "EXECUTING"
     /\ ~(in.commit_latch /\ in.trading_state = "LIVE_ACTIVE")

TargetAuthority(in, current) ==
  IF SevereDegradation(in, current) THEN "DEGRADED"
  ELSE IF \/ ~CapitalHardGate(in.capital)
          \/ in.capital.stale
          \/ in.bootstrap_state \in EarlyBootstrapStates
       THEN "BOOT"
  ELSE IF Executing(in) THEN "EXECUTING"
  ELSE IF AuthorityConverged(in) THEN "AUTHORIZED"
  ELSE IF PrereqsReady(in) THEN "READY"
  ELSE "STANDBY"

\* A target the transition table does not allow becomes DEGRADED.
FullReconcile(in, current) ==
  LET target == TargetAuthority(in, current)
  IN  IF target = current \/ target \in AllowedFrom[current]
      THEN target ELSE "DEGRADED"

\* Mutant: the fingerprint leaves out the coordinator state.
ReconcileStateBlind(rt, ts, intent) ==
  LET in == Inputs(rt, ts, intent)
      last == rt.last_reconcile_inputs
  IN  IF /\ last # None
         /\ [last EXCEPT !.coordinator_state = in.coordinator_state] = in
      THEN rt
      ELSE [rt EXCEPT
              !.runtime_authority_state =
                 FullReconcile(in, rt.runtime_authority_state),
              !.last_reconcile_inputs = in]

\* Edge-trigger dedup: equal inputs return the stored result unrecomputed.
Reconcile(rt, ts, intent) ==
  LET in == Inputs(rt, ts, intent)
  IN  IF rt.last_reconcile_inputs = in THEN rt
      ELSE [rt EXCEPT
              !.runtime_authority_state =
                 FullReconcile(in, rt.runtime_authority_state),
              !.last_reconcile_inputs = in]

-----------------------------------------------------------------------------
(* Snapshots, the readiness proof and activation.                          *)

\* What build_snapshot leaves behind: outside the live zone it reconciles
\* nothing and the stored authority state survives.
SnapshotBuilt(rt, ts, intent) ==
  IF ReconcilePermitted(rt) THEN Reconcile(rt, ts, intent) ELSE rt

\* runtime_authority_state of the snapshot build_snapshot returns.
SnapshotAuthority(rt, ts, intent) ==
  IF ReconcilePermitted(rt)
  THEN Reconcile(rt, ts, intent).runtime_authority_state ELSE "BOOT"

\* The gates of evaluate_system_readiness_proof; the two global_gate.* gates
\* are informational there and absent here.
ProofPassed(rt, ts, intent) ==
  /\ Pending(rt.readiness_table) = {}
  /\ rt.bootstrap_state = "RUNNING_SUPERVISED"
  /\ CapitalRunning(rt.capital)
  /\ rt.capital.hydrated
  /\ rt.capital.balance # None
  /\ ~rt.capital.stale
  /\ rt.threads_launched > 0 /\ rt.threads_confirmed_running
  /\ intent \/ rt.activation_requested
  /\ rt.authority_ready
  /\ rt.nonce_ready
  /\ rt.dispatch_health_ready
  /\ ~rt.kill_switch_active
  /\ rt.activation_epoch = rt.global_epoch
  /\ SnapshotAuthority(rt, ts, intent) \in {"AUTHORIZED", "EXECUTING"}

\* What later steps read of a StartupConvergenceSnapshot and of its proof.
SnapshotType ==
  [trading_state: TradingStateNames, activation_intent: BOOLEAN,
   global_epoch: Nat, activation_epoch: Nat,
   runtime_authority_state: RuntimeAuthorityStates,
   global_gate_ready: BOOLEAN, passed: BOOLEAN]

Snapshot(rt, ts, intent) ==
  [trading_state |-> ts,
   activation_intent |-> intent \/ rt.activation_requested,
   global_epoch |-> rt.global_epoch,
   activation_epoch |-> rt.activation_epoch,
   runtime_authority_state |-> SnapshotAuthority(rt, ts, intent),
   global_gate_ready |-> rt.global_gate_ready,
   passed |-> ProofPassed(rt, ts, intent)]

\* Python's None is no tuple of inputs, no snapshot and no report.
ASSUME NoneAssumption ==
  None \notin ReconcileInputs \cup SnapshotType \cup ReadinessReport

\* evaluate_activation writes the coordinator state the snapshot calls for,
\* whatever the coordinator state has become since.
ActivationEvaluated(rt, snapshot) ==
  [rt EXCEPT !.coordinator_state =
     IF snapshot.runtime_authority_state = "EXECUTING" \/ snapshot.passed
     THEN "DISPATCH_ENABLED"
     ELSE IF snapshot.runtime_authority_state = "DEGRADED" THEN "DEGRADED_RETRY"
     ELSE IF ~snapshot.activation_intent THEN "ACTIVATION_ARMED"
     ELSE "ACTIVATION_CONVERGING"]

\* proof_fingerprint of finalize_activation_commit, of a proof that passed:
\* its gate results can then differ in the informational gate alone.
Fingerprint(snapshot) ==
  [global_epoch |-> snapshot.global_epoch,
   activation_epoch |-> snapshot.activation_epoch,
   runtime_authority_state |-> snapshot.runtime_authority_state,
   global_gate_ready |-> snapshot.global_gate_ready]

AlreadyCommitted(rt, snapshot) ==
  rt.activation_committed /\ rt.commit_fingerprint = Fingerprint(snapshot)

\* The commit proper.  same_version says whether a commit over a standing
\* latch happens to store the very version number the cached inputs hold; if
\* not, those inputs can never match again.
ActivationCommitted(rt, snapshot, same_version) ==
  [rt EXCEPT
     !.last_reconcile_inputs =
        IF rt.commit_latch /\ ~same_version THEN None ELSE @,
     !.commit_latch = TRUE,
     !.activation_committed = TRUE,
     !.commit_fingerprint = Fingerprint(snapshot),
     !.coordinator_state = "DISPATCH_ENABLED"]

-----------------------------------------------------------------------------
(* apply_bootstrap_transaction.                                            *)

TransactionType ==
  [bootstrap_state: BootstrapStates, capital: Capital, readiness: ReadinessReport,
   kill_switch_active: BOOLEAN, authority: AuthorityReport,
   nonce_ready: BOOLEAN, dispatch_health_ready: BOOLEAN,
   global_gate_ready: BOOLEAN, activation_requested: BOOLEAN,
   trading_state: TradingStateNames, activation_intent: BOOLEAN]

\* The record_* calls of the transaction, in the order of the code.
TransactionEvidence(rt, tx) ==
  LET r1 == BootstrapStateRecorded(rt, tx.bootstrap_state)
      r2 == CapitalStateRecorded(r1, tx.capital)
      r3 == ReadinessRecorded(r2, tx.readiness)
      r4 == KillSwitchRecorded(r3, tx.kill_switch_active)
      r5 == AuthorityRecorded(r4, tx.authority)
      r6 == NonceStatusRecorded(r5, tx.nonce_ready)
      r7 == DispatchHealthRecorded(r6, tx.dispatch_health_ready)
      r8 == GlobalGateRecorded(r7, tx.global_gate_ready)
  IN  IF tx.activation_requested
      THEN ActivationRequestRecorded(r8, TRUE) ELSE r8

\* build_snapshot and evaluate_activation end the same lock window.
SnapshotEvaluated(rt, ts, intent) ==
  ActivationEvaluated(SnapshotBuilt(rt, ts, intent), Snapshot(rt, ts, intent))

TransactionApplied(rt, tx) ==
  SnapshotEvaluated(TransactionEvidence(rt, tx),
                    tx.trading_state, tx.activation_intent)

TransactionSnapshot(rt, tx) ==
  Snapshot(TransactionEvidence(rt, tx), tx.trading_state, tx.activation_intent)
=============================================================================
