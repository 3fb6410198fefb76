------------------------- MODULE StartupCoordinator -------------------------
(***************************************************************************)
(* The startup coordinator at run time: one shared runtime record, the     *)
(* subsystems that record evidence into it, pollers that build snapshots,  *)
(* and Callers, the threads that carry a snapshot from one lock window to  *)
(* the next: health_check (build_snapshot, then evaluate_activation), the  *)
(* activation commit of the trading state machine and the dispatch-commit  *)
(* repair loops (build_snapshot, then finalize_activation_commit) and      *)
(* force_activate_bypass.                                                  *)
(*                                                                         *)
(* pc[c] names the lock window caller c enters next:                       *)
(*   "idle"        none                                                    *)
(*   "holding"     evaluate_activation or finalize_activation_commit on    *)
(*                 the snapshot it built                                   *)
(*   "committing"  finalize_activation_commit: build the fresh snapshot    *)
(*   "proved"      finalize_activation_commit: the commit window           *)
(*   "probing", "requesting", "forcing"   force_activate_bypass            *)
(***************************************************************************)
EXTENDS CoordinatorRuntime

CONSTANTS
  Callers,            \* threads that hold a snapshot between two lock windows
  TradingStates,      \* trading_state arguments
  BootstrapReports,   \* arguments of record_bootstrap_state
  CapitalReports,     \* arguments of record_capital_state
  ReadinessReports,   \* arguments of record_readiness
  AuthorityReports,   \* arguments of record_authority
  NonceReports,       \* what record_nonce_status may report
  HealthReports,      \* what record_dispatch_health may report
  GateReports,        \* what record_global_gate may report
  KillReports,        \* what record_kill_switch may report
  Requests,           \* requested arguments of record_activation_requested
  Intents,            \* activation_intent arguments
  ThreadCounts,       \* arguments of record_threads_launched and _supervised
  Tiers,              \* FailSafeTier arguments
  Transactions,       \* arguments of apply_bootstrap_transaction
  MaxEpoch            \* bound on global_epoch, for model checking

ASSUME CoordinatorAssumption ==
  /\ TradingStates \subseteq TradingStateNames
  /\ BootstrapReports \subseteq BootstrapStates
  /\ CapitalReports \subseteq Capital
  /\ ReadinessReports \subseteq ReadinessReport
  /\ AuthorityReports \subseteq AuthorityReport
  /\ NonceReports \subseteq BOOLEAN
  /\ HealthReports \subseteq BOOLEAN
  /\ GateReports \subseteq BOOLEAN
  /\ KillReports \subseteq BOOLEAN
  /\ Requests \subseteq BOOLEAN
  /\ Intents \subseteq BOOLEAN
  /\ ThreadCounts \subseteq Int
  /\ Tiers \subseteq {"WARN", "HALT", "SHUTDOWN"}
  /\ Transactions \subseteq TransactionType
  /\ MaxEpoch \in Nat

VARIABLES
  runtime,   \* self._runtime
  pc,        \* pc[c]: the lock window caller c enters next
  held       \* held[c]: the snapshot caller c carries, or None

vars == <<runtime, pc, held>>

PcStates == {"idle", "holding", "committing", "proved",
             "probing", "requesting", "forcing"}

Init ==
  /\ runtime = InitRuntime
  /\ pc = [c \in Callers |-> "idle"]
  /\ held = [c \in Callers |-> None]

-----------------------------------------------------------------------------
(* Evidence: one action per record_* method.                               *)

\* The runtime record becomes rt; the bound keeps global_epoch finite.
Record(rt) ==
  /\ rt.global_epoch <= MaxEpoch
  /\ runtime' = rt
  /\ UNCHANGED <<pc, held>>

RecordBootstrapState ==
  \E state \in BootstrapReports : Record(BootstrapStateRecorded(runtime, state))

RecordReadiness ==
  \E report \in ReadinessReports : Record(ReadinessRecorded(runtime, report))

RecordGlobalGate ==
  \E ready \in GateReports : Record(GlobalGateRecorded(runtime, ready))

RecordCapitalState ==
  \E capital \in CapitalReports : Record(CapitalStateRecorded(runtime, capital))

RecordAuthority ==
  \E report \in AuthorityReports : Record(AuthorityRecorded(runtime, report))

RecordNonceStatus ==
  \E ready \in NonceReports : Record(NonceStatusRecorded(runtime, ready))

RecordDispatchHealth ==
  \E ready \in HealthReports : Record(DispatchHealthRecorded(runtime, ready))

RecordThreadsLaunched ==
  \E count \in ThreadCounts : Record(ThreadsLaunchedRecorded(runtime, count))

RecordThreadsConfirmedRunning ==
  \E state \in BootstrapReports \cup {None} :
    Record(ThreadsConfirmedRecorded(runtime, state))

\* A count that is not positive raises ValueError.
RecordThreadsSupervised ==
  \E count \in ThreadCounts :
    /\ count > 0
    /\ Record(ThreadsSupervisedRecorded(runtime, count))

RecordActivationRequested ==
  \E requested \in Requests :
    Record(ActivationRequestRecorded(runtime, requested))

RecordKillSwitch ==
  \E active \in KillReports : Record(KillSwitchRecorded(runtime, active))

RecordFailSafe ==
  \E tier \in Tiers : Record(FailSafeRecorded(runtime, tier))

-----------------------------------------------------------------------------
(* Snapshots.                                                              *)

\* runtime_authority_snapshot: a reader builds a snapshot and drops it, but
\* the reconcile it triggers stays in the runtime record.
PollAuthority ==
  \E ts \in TradingStates, intent \in Intents :
    Record(SnapshotBuilt(runtime, ts, intent))

RecordAuthorityAndEvaluate ==
  \E report \in AuthorityReports, ts \in TradingStates, intent \in Intents :
    Record(SnapshotEvaluated(AuthorityRecorded(runtime, report), ts, intent))

TakeSnapshot(c) ==
  /\ pc[c] = "idle"
  /\ \E ts \in TradingStates, intent \in Intents :
       /\ runtime' = SnapshotBuilt(runtime, ts, intent)
       /\ held' = [held EXCEPT ![c] = Snapshot(runtime, ts, intent)]
  /\ pc' = [pc EXCEPT ![c] = "holding"]

EvaluateActivation(c) ==
  /\ pc[c] = "holding"
  /\ runtime' = ActivationEvaluated(runtime, held[c])
  /\ pc' = [pc EXCEPT ![c] = "idle"]
  /\ held' = [held EXCEPT ![c] = None]

-----------------------------------------------------------------------------
(* Activation commit.                                                      *)

\* commit_activation goes on to the commit when the proof passed, or when its
\* own barrier was open (_global_gate_direct_live).
GoesOnToCommit(tx, snapshot) ==
  \/ snapshot.passed
  \/ tx.global_gate_ready /\ ~tx.kill_switch_active /\ tx.capital.hydrated

ApplyTransaction(c, tx) ==
  LET snapshot == TransactionSnapshot(runtime, tx)
  IN  /\ pc[c] = "idle"
      /\ TransactionEvidence(runtime, tx).global_epoch <= MaxEpoch
      /\ runtime' = TransactionApplied(runtime, tx)
      /\ IF GoesOnToCommit(tx, snapshot)
         THEN /\ pc' = [pc EXCEPT ![c] = "committing"]
              /\ held' = [held EXCEPT ![c] = snapshot]
         ELSE UNCHANGED <<pc, held>>

ApplyBootstrapTransaction(c) == \E tx \in Transactions : ApplyTransaction(c, tx)

\* First window of finalize_activation_commit: a fresh snapshot and its proof,
\* with the trading state and the intent of the caller's snapshot.
FinalizeSnapshot(c) ==
  /\ pc[c] \in {"holding", "committing"}
  /\ LET ts == held[c].trading_state
         intent == held[c].activation_intent
     IN  /\ runtime' = SnapshotBuilt(runtime, ts, intent)
         /\ held' = [held EXCEPT ![c] = Snapshot(runtime, ts, intent)]
  /\ pc' = [pc EXCEPT ![c] = "proved"]

\* Second window: the proof is not evaluated again.
CommitWindow(c) ==
  \/ /\ ~held[c].passed \/ AlreadyCommitted(runtime, held[c])
     /\ UNCHANGED runtime
  \/ /\ held[c].passed
     /\ ~AlreadyCommitted(runtime, held[c])
     /\ \E same_version \in BOOLEAN :
          runtime' = ActivationCommitted(runtime, held[c], same_version)

FinalizeCommit(c) ==
  /\ pc[c] = "proved"
  /\ CommitWindow(c)
  /\ pc' = [pc EXCEPT ![c] = "idle"]
  /\ held' = [held EXCEPT ![c] = None]

-----------------------------------------------------------------------------
(* force_activate_bypass: five lock windows before the commit.             *)

ForceActivateBypass(c) ==
  /\ pc[c] = "idle"
  /\ pc' = [pc EXCEPT ![c] =
              IF runtime.activation_committed /\ runtime.commit_latch
              THEN "probing" ELSE "requesting"]
  /\ UNCHANGED <<runtime, held>>

ForceProbe(c) ==
  /\ pc[c] = "probing"
  /\ runtime' = SnapshotBuilt(runtime, "LIVE_ACTIVE", TRUE)
  /\ LET probe == Snapshot(runtime, "LIVE_ACTIVE", TRUE)
     IN  pc' = [pc EXCEPT ![c] =
                  IF probe.passed /\ probe.runtime_authority_state = "EXECUTING"
                  THEN "idle" ELSE "requesting"]
  /\ UNCHANGED held

ForceRequest(c) ==
  /\ pc[c] = "requesting"
  /\ runtime' = ActivationRequestRecorded(runtime, TRUE)
  /\ pc' = [pc EXCEPT ![c] = "forcing"]
  /\ UNCHANGED held

\* A failed proof raises.
ForceSnapshot(c) ==
  /\ pc[c] = "forcing"
  /\ runtime' = SnapshotBuilt(runtime, "LIVE_PENDING_CONFIRMATION", TRUE)
  /\ LET snapshot == Snapshot(runtime, "LIVE_PENDING_CONFIRMATION", TRUE)
     IN  IF snapshot.passed
         THEN /\ pc' = [pc EXCEPT ![c] = "committing"]
              /\ held' = [held EXCEPT ![c] = snapshot]
         ELSE /\ pc' = [pc EXCEPT ![c] = "idle"]
              /\ UNCHANGED held

-----------------------------------------------------------------------------
Evidence ==
  \/ RecordBootstrapState \/ RecordReadiness \/ RecordGlobalGate
  \/ RecordCapitalState \/ RecordAuthority \/ RecordNonceStatus
  \/ RecordDispatchHealth \/ RecordThreadsLaunched
  \/ RecordThreadsConfirmedRunning \/ RecordThreadsSupervised
  \/ RecordActivationRequested \/ RecordKillSwitch \/ RecordFailSafe

CallerStep(c) ==
  \/ TakeSnapshot(c) \/ EvaluateActivation(c)
  \/ ApplyBootstrapTransaction(c)
  \/ FinalizeSnapshot(c) \/ FinalizeCommit(c)
  \/ ForceActivateBypass(c) \/ ForceProbe(c)
  \/ ForceRequest(c) \/ ForceSnapshot(c)

Next ==
  \/ Evidence
  \/ PollAuthority
  \/ RecordAuthorityAndEvaluate
  \/ \E c \in Callers : CallerStep(c)

Spec == Init /\ [][Next]_vars

-----------------------------------------------------------------------------
(* Properties.                                                             *)

\* Every field holds a value of its Python type, and a caller carries a
\* snapshot exactly between the windows that hand it over.
TypeOK ==
  /\ runtime \in Runtime
  /\ pc \in [Callers -> PcStates]
  /\ held \in [Callers -> SnapshotType \cup {None}]
  /\ \A c \in Callers :
       held[c] # None <=> pc[c] \in {"holding", "committing", "proved"}

\* A snapshot built now with these arguments would carry dispatch_enabled.
DispatchEnabled(ts, intent) == SnapshotAuthority(runtime, ts, intent) = "EXECUTING"

\* Whatever a caller passes to build_snapshot, and whether the reconcile runs
\* or its cached result is returned, dispatch_enabled is only ever reported in
\* LIVE_ACTIVE over a standing commit latch, with no kill switch, with
\* authority, nonce lease, dispatch health, threads and fresh capital in place,
\* with an activation request of the current epoch, and never from a fail-safe
\* or degraded coordinator.
DispatchSafe ==
  \A ts \in TradingStates, intent \in BOOLEAN :
    DispatchEnabled(ts, intent) =>
      /\ ts = "LIVE_ACTIVE"
      /\ runtime.commit_latch
      /\ ~runtime.kill_switch_active
      /\ runtime.authority_ready
      /\ runtime.nonce_ready
      /\ runtime.dispatch_health_ready
      /\ runtime.threads_launched > 0 /\ runtime.threads_confirmed_running
      /\ CapitalHardGate(runtime.capital) /\ ~runtime.capital.stale
      /\ Pending(runtime.readiness_table) = {}
      /\ runtime.activation_epoch = runtime.global_epoch
      /\ runtime.coordinator_state \notin
           SuppressedStates \cup FailSafeStates
           \cup {"DEGRADED_RETRY", "RESTART_REQUIRED"}

\* The reconcile and the readiness proof are written as two separate gate
\* lists: a snapshot whose authority state is AUTHORIZED or EXECUTING always
\* passes the proof, so finalize_activation_commit never refuses a commit the
\* reconcile authorized, and never latches one it did not.
AuthorizedMeansProven ==
  \A ts \in TradingStates, intent \in BOOLEAN :
    SnapshotAuthority(runtime, ts, intent) \in {"AUTHORIZED", "EXECUTING"}
      <=> ProofPassed(runtime, ts, intent)

\* A fail-safe, degraded or restart-required coordinator does not evaluate its
\* way out: whatever has been recorded since, and whether the reconcile runs or
\* its cached result is returned, the next build_snapshot and evaluate_activation
\* end in DEGRADED_RETRY.  Recovery takes a bootstrap or thread report, an
\* activation request, or a caller with an older snapshot.
EvaluationKeepsDegraded ==
  runtime.coordinator_state
      \in FailSafeStates \cup {"DEGRADED_RETRY", "RESTART_REQUIRED"} =>
    \A ts \in TradingStates, intent \in BOOLEAN :
      SnapshotEvaluated(runtime, ts, intent).coordinator_state = "DEGRADED_RETRY"

\* global_epoch never goes back, and no step advances it without dropping the
\* commit latch: a latch never outlives the epoch it stands in.
EpochRevokesLatch ==
  [][/\ runtime'.global_epoch >= runtime.global_epoch
     /\ runtime'.global_epoch # runtime.global_epoch => ~runtime'.commit_latch]_vars

SignalsChanged ==
  \/ runtime'.authority_ready # runtime.authority_ready
  \/ runtime'.nonce_ready # runtime.nonce_ready
  \/ runtime'.dispatch_health_ready # runtime.dispatch_health_ready

\* In the live zone, and as long as the bootstrap machine reports
\* RUNNING_SUPERVISED, no step (the nine-call transaction included) changes
\* authority, nonce or dispatch-health readiness without advancing the epoch
\* and revoking the commit.
InvalidationFenced ==
  [][/\ ReconcilePermitted(runtime)
     /\ runtime'.bootstrap_state = "RUNNING_SUPERVISED"
     /\ SignalsChanged
     => /\ runtime'.global_epoch > runtime.global_epoch
        /\ ~runtime'.commit_latch]_vars

\* In the live zone a readiness key or the global gate that goes from true to
\* false revokes the commit, whichever table or transaction carries the loss
\* and whatever the other eight calls of a transaction record after it.
RegressionRevokes ==
  [][/\ ReconcilePermitted(runtime)
     /\ runtime'.bootstrap_state = "RUNNING_SUPERVISED"
     /\ \/ ~(runtime.readiness_table.ready \subseteq runtime'.readiness_table.ready)
        \/ runtime.global_gate_ready /\ ~runtime'.global_gate_ready
     => ~runtime'.commit_latch]_vars

\* finalize_activation_commit never returns success over an open latch: the
\* idempotence guard only short-cuts a commit that still stands, even when the
\* commit it remembers was revoked between the two lock windows.
FinalizeLeavesLatch ==
  [][\A c \in Callers :
       pc[c] = "proved" /\ pc'[c] = "idle" /\ held[c].passed
         => runtime'.commit_latch]_vars
=============================================================================
