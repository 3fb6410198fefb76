--------------------- MODULE ReadinessPublicationProofs ---------------------
(***************************************************************************)
(* What the coordinator's copy of the readiness table is, for every set of *)
(* publishers, callers and keys.  Each report and each copy under way is a *)
(* table that was in force and lists every key of KEYS; each step of the   *)
(* coordinator leaves its copy alone or merges one such table into it.     *)
(***************************************************************************)
EXTENDS ReadinessPublication, StartupCoordinatorFenceProofs

\* The runtime record keeps its copy of the table.
KeepsTable(rt, new) == new.readiness_table = rt.readiness_table

-----------------------------------------------------------------------------
(* Operations of the record.                                               *)

LEMMA InvalidatedKeepsTable ==
  ASSUME NEW rt \in Runtime, NEW changed
  PROVE  KeepsTable(rt, Invalidated(rt, changed))
  BY DEF Invalidated, EpochBumped, KeepsTable, Runtime

LEMMA ReadinessMerges ==
  ASSUME NEW rt \in Runtime, NEW report \in ReadinessReport
  PROVE  ReadinessRecorded(rt, report).readiness_table
           = Merged(rt.readiness_table, report.table)
<1> DEFINE merged == Merged(rt.readiness_table, report.table)
           new == [rt EXCEPT !.readiness_table = merged]
           regressed == Regressed(rt.readiness_table, merged)
           stored == Invalidated(new, regressed)
<1>1. merged \in Table
  BY MergedType DEF Runtime, ReadinessReport
<1> HIDE DEF merged, regressed
<1>2. new \in Runtime /\ new.readiness_table = merged /\ Evolves(rt, new)
  BY <1>1 DEF Runtime, Evolves
<1>3. stored \in Runtime /\ stored.readiness_table = merged
  BY <1>2, InvalidatedKeepsTable, InvalidatedEvolves DEF KeepsTable, Evolves
<1> HIDE DEF stored
<1>4. \/ ReadinessRecorded(rt, report) = stored
      \/ \E s : ReadinessRecorded(rt, report)
                  = [stored EXCEPT !.coordinator_state = s]
  BY DEF ReadinessRecorded, stored, merged, regressed
<1> QED
  BY <1>3, <1>4 DEF Runtime, merged

LEMMA OthersKeepTable ==
  ASSUME NEW rt \in Runtime
  PROVE  /\ \A state : KeepsTable(rt, BootstrapStateRecorded(rt, state))
         /\ \A capital : KeepsTable(rt, CapitalStateRecorded(rt, capital))
         /\ \A active : KeepsTable(rt, KillSwitchRecorded(rt, active))
         /\ \A report \in AuthorityReport :
              KeepsTable(rt, AuthorityRecorded(rt, report))
         /\ \A ready \in BOOLEAN :
              /\ KeepsTable(rt, NonceStatusRecorded(rt, ready))
              /\ KeepsTable(rt, DispatchHealthRecorded(rt, ready))
              /\ KeepsTable(rt, GlobalGateRecorded(rt, ready))
              /\ KeepsTable(rt, ActivationRequestRecorded(rt, ready))
<1>1. \A state : KeepsTable(rt, BootstrapStateRecorded(rt, state))
  BY DEF BootstrapStateRecorded, KeepsTable, Runtime
<1>2. \A capital : KeepsTable(rt, CapitalStateRecorded(rt, capital))
  BY DEF CapitalStateRecorded, KeepsTable, Runtime
<1>3. \A active : KeepsTable(rt, KillSwitchRecorded(rt, active))
  BY DEF KillSwitchRecorded, KeepsTable, Runtime
<1>4. ASSUME NEW report \in AuthorityReport
      PROVE  KeepsTable(rt, AuthorityRecorded(rt, report))
  <2> DEFINE new == [rt EXCEPT !.authority_ready = report.ready,
                               !.authority_status = report.status]
  <2>1. new \in Runtime /\ KeepsTable(rt, new)
    BY DEF Runtime, AuthorityReport, KeepsTable
  <2> QED
    BY <2>1, InvalidatedKeepsTable DEF AuthorityRecorded, KeepsTable
<1>5. ASSUME NEW ready \in BOOLEAN
      PROVE  /\ KeepsTable(rt, NonceStatusRecorded(rt, ready))
             /\ KeepsTable(rt, DispatchHealthRecorded(rt, ready))
             /\ KeepsTable(rt, GlobalGateRecorded(rt, ready))
             /\ KeepsTable(rt, ActivationRequestRecorded(rt, ready))
  <2> DEFINE n1 == [rt EXCEPT !.nonce_ready = ready]
             n2 == [rt EXCEPT !.dispatch_health_ready = ready]
             n3 == [rt EXCEPT !.global_gate_ready = ready]
  <2>1. /\ n1 \in Runtime /\ KeepsTable(rt, n1)
        /\ n2 \in Runtime /\ KeepsTable(rt, n2)
        /\ n3 \in Runtime /\ KeepsTable(rt, n3)
    BY DEF Runtime, KeepsTable
  <2>2. KeepsTable(rt, ActivationRequestRecorded(rt, ready))
    BY DEF ActivationRequestRecorded, KeepsTable, Runtime
  <2> HIDE DEF n1, n2, n3
  <2>3. \A changed : /\ KeepsTable(rt, Invalidated(n1, changed))
                     /\ KeepsTable(rt, Invalidated(n2, changed))
                     /\ KeepsTable(rt, Invalidated(n3, changed))
    BY <2>1, InvalidatedKeepsTable DEF KeepsTable
  <2>4. KeepsTable(rt, NonceStatusRecorded(rt, ready))
    BY <2>3, Zenon DEF NonceStatusRecorded, n1
  <2>5. KeepsTable(rt, DispatchHealthRecorded(rt, ready))
    BY <2>3, Zenon DEF DispatchHealthRecorded, n2
  <2>6. KeepsTable(rt, GlobalGateRecorded(rt, ready))
    BY <2>3, Zenon DEF GlobalGateRecorded, n3
  <2> QED
    BY <2>2, <2>4, <2>5, <2>6
<1> QED
  BY <1>1, <1>2, <1>3, <1>4, <1>5

LEMMA SnapshotKeepsTable ==
  ASSUME NEW rt \in Runtime, NEW ts, NEW intent
  PROVE  KeepsTable(rt, SnapshotBuilt(rt, ts, intent))
<1>1. \/ SnapshotBuilt(rt, ts, intent) = rt
      \/ \E state, in : SnapshotBuilt(rt, ts, intent) =
           [rt EXCEPT !.runtime_authority_state = state,
                      !.last_reconcile_inputs = in]
  BY DEF SnapshotBuilt, Reconcile
<1> QED
  BY <1>1 DEF KeepsTable, Runtime

LEMMA EvaluationKeepsTable ==
  ASSUME NEW rt \in Runtime, NEW snapshot
  PROVE  KeepsTable(rt, ActivationEvaluated(rt, snapshot))
<1>1. \E s : ActivationEvaluated(rt, snapshot) = [rt EXCEPT !.coordinator_state = s]
  BY DEF ActivationEvaluated
<1> QED
  BY <1>1 DEF KeepsTable, Runtime

LEMMA CommitKeepsTable ==
  ASSUME NEW rt \in Runtime, NEW snapshot, NEW same_version
  PROVE  KeepsTable(rt, ActivationCommitted(rt, snapshot, same_version))
  BY DEF ActivationCommitted, KeepsTable, Runtime

\* Of the nine calls of a transaction one merges the readiness it carries.
LEMMA TransactionMerges ==
  ASSUME NEW rt, Sound(rt), NEW tx \in TransactionType
  PROVE  TransactionApplied(rt, tx).readiness_table
           = Merged(rt.readiness_table, tx.readiness.table)
<1> DEFINE r1 == BootstrapStateRecorded(rt, tx.bootstrap_state)
           r2 == CapitalStateRecorded(r1, tx.capital)
           r3 == ReadinessRecorded(r2, tx.readiness)
           r4 == KillSwitchRecorded(r3, tx.kill_switch_active)
           r5 == AuthorityRecorded(r4, tx.authority)
           r6 == NonceStatusRecorded(r5, tx.nonce_ready)
           r7 == DispatchHealthRecorded(r6, tx.dispatch_health_ready)
           r8 == GlobalGateRecorded(r7, tx.global_gate_ready)
           r9 == ActivationRequestRecorded(r8, TRUE)
           mid == TransactionEvidence(rt, tx)
           built == SnapshotBuilt(mid, tx.trading_state, tx.activation_intent)
<1>t. /\ tx.bootstrap_state \in BootstrapStates /\ tx.capital \in Capital
      /\ tx.readiness \in ReadinessReport /\ tx.kill_switch_active \in BOOLEAN
      /\ tx.authority \in AuthorityReport /\ tx.nonce_ready \in BOOLEAN
      /\ tx.dispatch_health_ready \in BOOLEAN /\ tx.global_gate_ready \in BOOLEAN
      /\ tx.trading_state \in TradingStateNames /\ tx.activation_intent \in BOOLEAN
  BY DEF TransactionType
<1>e. \A r, s : Evolves(r, s) => s \in Runtime
  BY DEF Evolves
<1>0. rt \in Runtime
  BY DEF Sound
<1>1. r1 \in Runtime /\ KeepsTable(rt, r1)
  BY <1>t, <1>e, <1>0, BootstrapStateEvolves, OthersKeepTable
<1>2. r2 \in Runtime /\ KeepsTable(r1, r2)
  BY <1>t, <1>e, <1>1, CapitalStateEvolves, OthersKeepTable
<1>3. /\ r3 \in Runtime
      /\ r3.readiness_table = Merged(r2.readiness_table, tx.readiness.table)
  BY <1>t, <1>e, <1>2, ReadinessEvolves, ReadinessMerges
<1>4. r4 \in Runtime /\ KeepsTable(r3, r4)
  BY <1>t, <1>e, <1>3, KillSwitchEvolves, OthersKeepTable
<1>5. r5 \in Runtime /\ KeepsTable(r4, r5)
  BY <1>t, <1>e, <1>4, AuthorityEvolves, OthersKeepTable
<1>6. r6 \in Runtime /\ KeepsTable(r5, r6)
  BY <1>t, <1>e, <1>5, NonceStatusEvolves, OthersKeepTable
<1>7. r7 \in Runtime /\ KeepsTable(r6, r7)
  BY <1>t, <1>e, <1>6, DispatchHealthEvolves, OthersKeepTable
<1>8. r8 \in Runtime /\ KeepsTable(r7, r8)
  BY <1>t, <1>e, <1>7, GlobalGateEvolves, OthersKeepTable
<1>9. KeepsTable(r8, r9)
  BY <1>8, OthersKeepTable
<1>10. mid = IF tx.activation_requested THEN r9 ELSE r8
  BY DEF TransactionEvidence
<1>11. mid.readiness_table = Merged(rt.readiness_table, tx.readiness.table)
  <2> HIDE DEF r1, r2, r3, r4, r5, r6, r7, r8, r9, mid
  <2> QED
    BY <1>1, <1>2, <1>3, <1>4, <1>5, <1>6, <1>7, <1>8, <1>9, <1>10 DEF KeepsTable
<1>12. Sound(mid)
  BY <1>0, TransactionEvolves, EvolvesAdvances DEF Advances
<1> HIDE DEF mid
<1>13. built \in Runtime /\ KeepsTable(mid, built)
  BY <1>t, <1>12, SnapshotBuiltAdvances, SnapshotKeepsTable DEF Advances, Sound
<1>14. \E snapshot : TransactionApplied(rt, tx) = ActivationEvaluated(built, snapshot)
  BY DEF TransactionApplied, SnapshotEvaluated, mid
<1> HIDE DEF built
<1> QED
  BY <1>11, <1>13, <1>14, EvaluationKeepsTable DEF KeepsTable

-----------------------------------------------------------------------------
(* The inductive invariant.                                                *)

\* The tables that were in force list KEYS.
Recorded == table \in seen /\ \A past \in seen : KEYS \subseteq past.known

PubInv == IInv /\ PubTypeOK /\ Recorded /\ MirrorWasInForce

\* A table that lists KEYS decides them all.
LEMMA MergeInForce ==
  ASSUME NEW previous, NEW past, KEYS \subseteq past.known
  PROVE  Merged(previous, past).ready \cap KEYS = past.ready \cap KEYS
  BY DEF Merged

\* A step that leaves the table alone, and merges nothing or a former table.
LEMMA QuietTable ==
  ASSUME Recorded, MirrorWasInForce, UNCHANGED <<table, seen>>,
         \/ Mirror' = Mirror
         \/ \E past \in seen : Mirror' = Merged(Mirror, past)
  PROVE  MirrorWasInForce'
<1>1. CASE Mirror' = Mirror
  BY <1>1 DEF MirrorWasInForce
<1>2. CASE \E past \in seen : Mirror' = Merged(Mirror, past)
  <2>1. PICK past \in seen : Mirror' = Merged(Mirror, past)
    BY <1>2
  <2>2. Mirror'.ready \cap KEYS = past.ready \cap KEYS
    BY <2>1, MergeInForce DEF Recorded
  <2> QED
    BY <2>2 DEF MirrorWasInForce
<1> QED
  BY <1>1, <1>2

LEMMA CoordinatorStep ==
  ASSUME IInv, RuntimeStep,
         UNCHANGED <<pc, held>> \/ \E c \in Callers : ControlStep(c)
  PROVE  IInv'
<1>1. runtime' \in Runtime /\ Sound(runtime')
  BY DEF RuntimeStep, Advances, Sound
<1>2. CASE UNCHANGED <<pc, held>>
  BY <1>1, <1>2 DEF IInv, TypeOK
<1>3. CASE \E c \in Callers : ControlStep(c)
  <2>1. PICK c \in Callers : ControlStep(c)
    BY <1>3
  <2>2. /\ pc' \in [Callers -> PcStates]
        /\ held' \in [Callers -> SnapshotType \cup {None}]
    BY <2>1 DEF ControlStep, IInv, TypeOK
  <2>3. ASSUME NEW d \in Callers
        PROVE  held'[d] # None <=> pc'[d] \in {"holding", "committing", "proved"}
    <3>1. CASE d = c
      BY <2>1, <3>1 DEF ControlStep
    <3>2. CASE d # c
      BY <2>1, <3>2 DEF ControlStep, IInv, TypeOK
    <3> QED
      BY <3>1, <3>2
  <2> QED
    BY <1>1, <2>2, <2>3 DEF IInv, TypeOK
<1> QED
  BY <1>2, <1>3

-----------------------------------------------------------------------------
(* Steps.                                                                  *)

LEMMA PubInitially == PubInit => PubInv
<1> SUFFICES ASSUME PubInit PROVE PubInv
  OBVIOUS
<1>1. IInv
  BY InitSound DEF PubInit
<1>2. PubTypeOK
  <2>1. table \in Table /\ overtaken \in BOOLEAN
    BY PublicationAssumption DEF PubInit, Table, PublicationAssumption
  <2> QED
    BY <1>1, <2>1 DEF PubTypeOK, PubInit, IInv
<1>3. Recorded
  BY DEF Recorded, PubInit
<1>4. MirrorWasInForce
  BY DEF MirrorWasInForce, Mirror, PubInit, Init, InitRuntime
<1> QED
  BY <1>1, <1>2, <1>3, <1>4 DEF PubInv

LEMMA WriteStep ==
  ASSUME PubInv, NEW p \in Publishers, NEW tab \in Table, KEYS \subseteq tab.known,
         NEW changed \in BOOLEAN, NEW key, NEW value \in BOOLEAN,
         changed => key \in ReadinessKeys \cup {"__snapshot__", "__bulk_revoke__"},
         Write(p, tab, changed, key, value)
  PROVE  PubInv'
<1>1. IInv'
  BY DEF Write, vars, PubInv, IInv, TypeOK
<1>2. publishing' \in [Publishers -> ReadinessReport \cup {None}]
  BY DEF Write, Report, ReadinessReport, PubInv, PubTypeOK
<1>3. ASSUME NEW q \in Publishers, publishing'[q] # None
      PROVE  publishing'[q].table \in seen'
  BY <1>3 DEF Write, Report, PubInv, PubTypeOK
<1>4. PubTypeOK'
  BY <1>1, <1>2, <1>3 DEF Write, PubInv, PubTypeOK, IInv
<1>5. Recorded'
  BY DEF Write, PubInv, Recorded
<1>6. MirrorWasInForce'
  BY DEF Write, vars, PubInv, MirrorWasInForce, Mirror
<1> QED
  BY <1>1, <1>4, <1>5, <1>6 DEF PubInv

LEMMA PublishStep ==
  ASSUME PubInv, NEW p \in Publishers, Publish(p)
  PROVE  PubInv'
<1> DEFINE report == publishing[p]
<1>1. report \in ReadinessReport /\ report.table \in seen
  BY DEF Publish, PubInv, PubTypeOK
<1>2. /\ runtime' = ReadinessRecorded(runtime, report)
      /\ UNCHANGED <<pc, held, table, copied, seen, overtaken>>
      /\ publishing' = [publishing EXCEPT ![p] = None]
  BY DEF Publish, Record
<1> HIDE DEF report
<1>3. runtime \in Runtime
  BY DEF PubInv, IInv, Sound
<1>4. RuntimeStep
  BY <1>1, <1>2, <1>3, ReadinessEvolves, EvolvesAdvances DEF RuntimeStep, PubInv, IInv
<1>5. IInv'
  BY <1>2, <1>4, CoordinatorStep DEF PubInv
<1>6. Mirror' = Merged(Mirror, report.table)
  BY <1>1, <1>2, <1>3, ReadinessMerges DEF Mirror
<1>7. MirrorWasInForce'
  BY <1>1, <1>2, <1>6, QuietTable DEF PubInv
<1>8. PubTypeOK'
  BY <1>2, <1>5 DEF PubInv, PubTypeOK, IInv
<1>9. Recorded'
  BY <1>2 DEF PubInv, PubTypeOK, Recorded
<1> QED
  BY <1>5, <1>7, <1>8, <1>9 DEF PubInv

LEMMA LoseReportStep ==
  ASSUME PubInv, NEW p \in Publishers, LoseReport(p)
  PROVE  PubInv'
<1>1. IInv'
  BY DEF LoseReport, vars, PubInv, IInv, TypeOK
<1>2. PubTypeOK'
  BY <1>1 DEF LoseReport, PubInv, PubTypeOK, IInv
<1>3. Recorded'
  BY DEF LoseReport, PubInv, PubTypeOK, Recorded
<1>4. MirrorWasInForce'
  BY DEF LoseReport, vars, PubInv, MirrorWasInForce, Mirror
<1> QED
  BY <1>1, <1>2, <1>3, <1>4 DEF PubInv

LEMMA PublisherStepSound ==
  ASSUME PubInv, NEW p \in Publishers, PublisherStep(p)
  PROVE  PubInv'
<1>1. table \in Table /\ KEYS \subseteq table.known
  BY DEF PubInv, PubTypeOK, Recorded
<1>2. CASE \E key \in ReadinessKeys : MarkReady(p, key) \/ RevokeReady(p, key)
  <2>1. PICK key \in ReadinessKeys : MarkReady(p, key) \/ RevokeReady(p, key)
    BY <1>2
  <2> DEFINE marked == [known |-> table.known \cup {key}, ready |-> table.ready \cup {key}]
             revoked == [known |-> table.known \cup {key}, ready |-> table.ready \ {key}]
  <2>2. /\ marked \in Table /\ KEYS \subseteq marked.known
        /\ revoked \in Table /\ KEYS \subseteq revoked.known
    BY <1>1 DEF Table
  <2>3. \/ Write(p, marked, key \notin table.ready, key, TRUE)
        \/ Write(p, revoked, key \in table.ready, key, FALSE)
    BY <2>1 DEF MarkReady, RevokeReady
  <2>4. (key \in table.ready) \in BOOLEAN /\ (key \notin table.ready) \in BOOLEAN
    OBVIOUS
  <2> HIDE DEF marked, revoked
  <2> QED
    BY <2>2, <2>3, <2>4, WriteStep
<1>3. CASE \E components \in Revocations : RevokeMany(p, components)
  <2>1. PICK components \in Revocations : RevokeMany(p, components)
    BY <1>3
  <2>2. Revoked(components) \in Table /\ KEYS \subseteq Revoked(components).known
    BY <1>1, PublicationAssumption DEF Table, Revoked, PublicationAssumption
  <2> QED
    BY <2>1, <2>2, WriteStep DEF RevokeMany
<1>4. CASE Reset(p)
  <2>1. /\ [table EXCEPT !.ready = {}] \in Table
        /\ KEYS \subseteq [table EXCEPT !.ready = {}].known
    BY <1>1 DEF Table
  <2> QED
    BY <1>4, <2>1, WriteStep DEF Reset
<1> QED
  BY <1>2, <1>3, <1>4, PublishStep, LoseReportStep DEF PublisherStep

LEMMA CopyTableStep ==
  ASSUME PubInv, NEW c \in Callers, CopyTable(c)
  PROVE  PubInv'
<1>1. IInv'
  BY DEF CopyTable, vars, PubInv, IInv, TypeOK
<1>2. PubTypeOK'
  BY <1>1 DEF CopyTable, PubInv, PubTypeOK, IInv, Recorded
<1>3. Recorded'
  BY DEF CopyTable, PubInv, PubTypeOK, Recorded
<1>4. MirrorWasInForce'
  BY DEF CopyTable, vars, PubInv, MirrorWasInForce, Mirror
<1> QED
  BY <1>1, <1>2, <1>3, <1>4 DEF PubInv

LEMMA DeliverCopyStep ==
  ASSUME PubInv, NEW c \in Callers, DeliverCopy(c)
  PROVE  PubInv'
<1> DEFINE report == Report("__snapshot__", Pending(copied[c]) = {}, copied[c])
<1>1. copied[c] \in Table /\ copied[c] \in seen
  BY DEF DeliverCopy, PubInv, PubTypeOK
<1>2. report \in ReadinessReport /\ report.table = copied[c]
  BY <1>1 DEF Report, ReadinessReport
<1>3. PICK tx \in Transactions : ApplyTransaction(c, [tx EXCEPT !.readiness = report])
  BY DEF DeliverCopy
<1> DEFINE delivery == [tx EXCEPT !.readiness = report]
<1> HIDE DEF report
<1>4. delivery \in TransactionType /\ delivery.readiness = report
  BY <1>2, CoordinatorAssumption DEF TransactionType, CoordinatorAssumption
<1> HIDE DEF delivery
<1>5. ApplyTransaction(c, delivery)
  BY <1>3 DEF delivery
<1>6. RuntimeStep /\ ControlStep(c)
  BY <1>4, <1>5, ApplyTransactionStep DEF PubInv
<1>7. IInv'
  BY <1>6, CoordinatorStep DEF PubInv
<1>8. Mirror' = Merged(Mirror, copied[c])
  BY <1>2, <1>4, <1>5, TransactionMerges DEF ApplyTransaction, Mirror, PubInv, IInv
<1>9. /\ copied' = [copied EXCEPT ![c] = None]
      /\ UNCHANGED <<table, publishing, seen, overtaken>>
  BY DEF DeliverCopy
<1>10. MirrorWasInForce'
  BY <1>1, <1>8, <1>9, QuietTable DEF PubInv
<1>11. PubTypeOK'
  BY <1>7, <1>9 DEF PubInv, PubTypeOK, IInv
<1>12. Recorded'
  BY <1>9 DEF PubInv, PubTypeOK, Recorded
<1> QED
  BY <1>7, <1>10, <1>11, <1>12 DEF PubInv

\* Commit and poll: the coordinator moves, its copy of the table does not.
LEMMA QuietStep ==
  ASSUME PubInv, UNCHANGED pubVars, RuntimeStep, KeepsTable(runtime, runtime'),
         UNCHANGED <<pc, held>> \/ \E c \in Callers : ControlStep(c)
  PROVE  PubInv'
<1>1. IInv'
  BY CoordinatorStep DEF PubInv
<1>2. PubTypeOK' /\ Recorded'
  BY <1>1 DEF pubVars, PubInv, PubTypeOK, IInv, Recorded
<1>3. MirrorWasInForce'
  BY DEF pubVars, PubInv, MirrorWasInForce, Mirror, KeepsTable
<1> QED
  BY <1>1, <1>2, <1>3 DEF PubInv

LEMMA FinalizeSteps ==
  ASSUME PubInv, UNCHANGED pubVars, NEW c \in Callers,
         FinalizeSnapshot(c) \/ FinalizeCommit(c)
  PROVE  PubInv'
<1>1. RuntimeStep /\ ControlStep(c)
  BY FinalizeSnapshotStep, FinalizeCommitStep DEF PubInv
<1>2. runtime \in Runtime
  BY DEF PubInv, IInv, Sound
<1>3. KeepsTable(runtime, runtime')
  <2>1. CASE FinalizeSnapshot(c)
    BY <2>1, <1>2, SnapshotKeepsTable DEF FinalizeSnapshot
  <2>2. CASE FinalizeCommit(c)
    <3>1. \/ UNCHANGED runtime
          \/ \E same_version \in BOOLEAN :
               runtime' = ActivationCommitted(runtime, held[c], same_version)
      BY <2>2 DEF FinalizeCommit, CommitWindow
    <3> QED
      BY <3>1, <1>2, CommitKeepsTable DEF KeepsTable
  <2> QED
    BY <2>1, <2>2
<1> QED
  BY <1>1, <1>3, QuietStep

LEMMA PollKeeps ==
  ASSUME PubInv, Poll
  PROVE  PubInv'
<1>1. RuntimeStep /\ UNCHANGED <<pc, held>>
  BY PollStep DEF Poll, PubInv, PollAuthority, Record
<1>2. KeepsTable(runtime, runtime')
  BY SnapshotKeepsTable DEF Poll, PollAuthority, Record, PubInv, IInv, Sound
<1> QED
  BY <1>1, <1>2, QuietStep DEF Poll

-----------------------------------------------------------------------------
(* Theorems.                                                               *)

\* Types, and every table on its way to the coordinator being one that was in
\* force with all of KEYS.
THEOREM PublicationInvariance == PubSpec => []PubInv
<1>1. PubInv /\ [PubNext]_allVars => PubInv'
  <2> SUFFICES ASSUME PubInv, [PubNext]_allVars PROVE PubInv'
    OBVIOUS
  <2>1. CASE \E p \in Publishers : PublisherStep(p)
    BY <2>1, PublisherStepSound
  <2>2. CASE \E c \in Callers : CommitStep(c)
    BY <2>2, CopyTableStep, DeliverCopyStep, FinalizeSteps DEF CommitStep
  <2>3. CASE Poll
    BY <2>3, PollKeeps
  <2>4. CASE UNCHANGED allVars
    <3>1. RuntimeStep /\ KeepsTable(runtime, runtime')
      BY <2>4 DEF allVars, vars, RuntimeStep, Advances, PubInv, IInv, KeepsTable
    <3> QED
      BY <2>4, <3>1, QuietStep DEF allVars, vars
  <2> QED
    BY <2>1, <2>2, <2>3, <2>4 DEF PubNext
<1> QED
  BY <1>1, PubInitially, PTL DEF PubSpec

\* Every report and every copy is a table, whoever publishes.
THEOREM PublicationTypes == PubSpec => []PubTypeOK
<1>1. PubInv => PubTypeOK
  BY DEF PubInv
<1> QED
  BY <1>1, PublicationInvariance, PTL

\* The coordinator never holds a mixture of two tables on the registered keys,
\* for any number of publishers and commits.
THEOREM NoMixture == PubSpec => []MirrorWasInForce
<1>1. PubInv => MirrorWasInForce
  BY DEF PubInv
<1> QED
  BY <1>1, PublicationInvariance, PTL

-----------------------------------------------------------------------------
(* The coordinator catches up.                                             *)

\* tab says what the table says now, and decides every key of the coordinator's.
Current(tab, now, mirror) ==
  tab.ready = now.ready /\ mirror.ready \subseteq tab.known

\* Tables only ever grow; unless one was overtaken, all that is under way is
\* current, and with no report under way the coordinator holds the table's keys.
InStep ==
  /\ \A past \in seen : past.ready \subseteq past.known /\ past.known \subseteq table.known
  /\ Mirror.ready \subseteq table.known
  /\ ~overtaken =>
       /\ \A p \in Publishers : publishing[p] # None => Current(publishing[p].table, table, Mirror)
       /\ \A c \in Callers : copied[c] # None => Current(copied[c], table, Mirror)
  /\ MirrorCatchesUp

\* Who commits has delivered a table first: the coordinator knows KEYS.
Committing == runtime.commit_latch \/ \E c \in Callers : held[c] # None
Delivered == Committing => KEYS \subseteq Mirror.known

CatchUpInv == InStep /\ Delivered

LEMMA MergeCurrent ==
  ASSUME NEW previous, NEW tab, previous.ready \subseteq tab.known
  PROVE  Merged(previous, tab).ready = tab.ready
  BY DEF Merged

LEMMA CatchUpInitially == PubInit => CatchUpInv
<1> SUFFICES ASSUME PubInit PROVE CatchUpInv
  OBVIOUS
<1>1. Mirror.ready = {} /\ runtime.commit_latch = FALSE
  BY DEF PubInit, Init, InitRuntime, Mirror
<1>2. InStep
  BY <1>1 DEF PubInit, InStep, MirrorCatchesUp
<1>3. Delivered
  BY <1>1 DEF PubInit, Init, Delivered, Committing
<1> QED
  BY <1>2, <1>3 DEF CatchUpInv

\* A write over something that is under way, or one that is not reported, counts
\* as overtaking if it changes what is true.
LEMMA WriteCatchesUp ==
  ASSUME PubInv, CatchUpInv, NEW p \in Publishers, NEW tab \in Table,
         table.known \subseteq tab.known, tab.ready \subseteq tab.known,
         NEW changed \in BOOLEAN, NEW key, NEW value \in BOOLEAN,
         changed => key \in ReadinessKeys \cup {"__snapshot__", "__bulk_revoke__"},
         Write(p, tab, changed, key, value)
  PROVE  CatchUpInv'
<1>1. /\ UNCHANGED <<runtime, pc, held, copied>>
      /\ table' = tab /\ seen' = seen \cup {tab}
      /\ publishing[p] = None
      /\ publishing' = [publishing EXCEPT ![p] =
                           IF changed THEN Report(key, value, tab) ELSE None]
      /\ overtaken' = (overtaken \/ (tab.ready # table.ready /\ (UnderWay \/ ~changed)))
  BY DEF Write, vars
<1>2. Mirror' = Mirror
  BY <1>1 DEF Mirror
<1>3. \A past \in seen' : past.ready \subseteq past.known /\ past.known \subseteq table'.known
  BY <1>1 DEF CatchUpInv, InStep
<1>4. Mirror'.ready \subseteq table'.known
  BY <1>1, <1>2 DEF CatchUpInv, InStep
<1>5. CASE overtaken'
  BY <1>1, <1>2, <1>3, <1>4, <1>5
  DEF CatchUpInv, InStep, MirrorCatchesUp, Delivered, Committing
<1>6. CASE ~overtaken'
  <2>1. ~overtaken /\ (tab.ready = table.ready \/ (changed /\ ~UnderWay))
    BY <1>1, <1>6
  <2>2. ASSUME NEW q \in Publishers, publishing'[q] # None
        PROVE  Current(publishing'[q].table, table', Mirror')
    <3>1. CASE q = p
      <4>1. publishing'[q].table = tab
        BY <1>1, <2>2, <3>1 DEF Report, PubInv, PubTypeOK
      <4> QED
        BY <1>1, <1>2, <1>4, <4>1 DEF Current
    <3>2. CASE q # p
      <4>1. publishing'[q] = publishing[q] /\ UnderWay
        BY <1>1, <2>2, <3>2 DEF UnderWay, PubInv, PubTypeOK
      <4> QED
        BY <1>1, <1>2, <2>1, <2>2, <4>1 DEF Current, CatchUpInv, InStep
    <3> QED
      BY <3>1, <3>2
  <2>3. ASSUME NEW c \in Callers, copied'[c] # None
        PROVE  Current(copied'[c], table', Mirror')
    <3>1. UnderWay /\ copied'[c] = copied[c]
      BY <1>1, <2>3 DEF UnderWay
    <3> QED
      BY <1>1, <1>2, <2>1, <2>3, <3>1 DEF Current, CatchUpInv, InStep
  <2>4. MirrorCatchesUp'
    <3> SUFFICES ASSUME \A q \in Publishers : publishing'[q] = None
                 PROVE  Mirror'.ready = table'.ready
      BY DEF MirrorCatchesUp
    <3>1. changed => Report(key, value, tab) # None
      BY NoneAssumption DEF Report, ReadinessReport
    <3>2. ~changed
      BY <1>1, <3>1 DEF PubInv, PubTypeOK
    <3>3. \A q \in Publishers : publishing[q] = None
      BY <1>1 DEF PubInv, PubTypeOK
    <3> QED
      BY <1>1, <1>2, <2>1, <3>2, <3>3 DEF CatchUpInv, InStep, MirrorCatchesUp
  <2>5. Delivered'
    BY <1>1, <1>2 DEF CatchUpInv, Delivered, Committing
  <2> QED
    BY <1>3, <1>4, <2>2, <2>3, <2>4, <2>5 DEF CatchUpInv, InStep
<1> QED
  BY <1>5, <1>6

\* What is current when it arrives leaves the coordinator with the table's keys;
\* what is not is at least a table that lists KEYS.
LEMMA MergeCatchesUp ==
  ASSUME PubInv, CatchUpInv, NEW tab \in seen, ~overtaken => Current(tab, table, Mirror),
         Mirror' = Merged(Mirror, tab), UNCHANGED <<table, seen, overtaken>>,
         \A p \in Publishers : publishing'[p] # None => publishing'[p] = publishing[p],
         \A c \in Callers : copied'[c] # None => copied'[c] = copied[c]
  PROVE  CatchUpInv'
<1>1. tab.ready \subseteq tab.known /\ tab.known \subseteq table.known
  BY DEF CatchUpInv, InStep
<1>2. Mirror'.ready \subseteq table'.known
  BY <1>1 DEF Merged, CatchUpInv, InStep
<1>3. Delivered'
  BY DEF Delivered, Merged, PubInv, Recorded
<1>4. ~overtaken => Mirror'.ready = table.ready
  BY MergeCurrent DEF Current
<1>5. ASSUME ~overtaken', NEW p \in Publishers, publishing'[p] # None
      PROVE  Current(publishing'[p].table, table', Mirror')
  <2>1. publishing[p].table \in seen /\ publishing'[p] = publishing[p]
    BY <1>5 DEF PubInv, PubTypeOK
  <2>2. publishing[p].table.ready \subseteq publishing[p].table.known
    BY <2>1 DEF CatchUpInv, InStep
  <2> QED
    BY <1>4, <1>5, <2>1, <2>2 DEF CatchUpInv, InStep, Current
<1>6. ASSUME ~overtaken', NEW c \in Callers, copied'[c] # None
      PROVE  Current(copied'[c], table', Mirror')
  <2>1. copied[c] \in seen /\ copied'[c] = copied[c]
    BY <1>6 DEF PubInv, PubTypeOK
  <2>2. copied[c].ready \subseteq copied[c].known
    BY <2>1 DEF CatchUpInv, InStep
  <2> QED
    BY <1>4, <1>6, <2>1, <2>2 DEF CatchUpInv, InStep, Current
<1>7. \A past \in seen' : past.ready \subseteq past.known /\ past.known \subseteq table'.known
  BY DEF CatchUpInv, InStep
<1>8. MirrorCatchesUp'
  BY <1>4 DEF MirrorCatchesUp
<1> QED
  BY <1>2, <1>3, <1>5, <1>6, <1>7, <1>8 DEF CatchUpInv, InStep

LEMMA PublisherCatchesUp ==
  ASSUME PubInv, CatchUpInv, NEW p \in Publishers, PublisherStep(p)
  PROVE  CatchUpInv'
<1>1. table \in Table /\ table.ready \subseteq table.known
  BY DEF PubInv, PubTypeOK, Recorded, CatchUpInv, InStep
<1>2. CASE \E key \in ReadinessKeys : MarkReady(p, key) \/ RevokeReady(p, key)
  <2>1. PICK key \in ReadinessKeys : MarkReady(p, key) \/ RevokeReady(p, key)
    BY <1>2
  <2> DEFINE marked == [known |-> table.known \cup {key}, ready |-> table.ready \cup {key}]
             revoked == [known |-> table.known \cup {key}, ready |-> table.ready \ {key}]
  <2>2. /\ marked \in Table /\ table.known \subseteq marked.known
        /\ marked.ready \subseteq marked.known
        /\ revoked \in Table /\ table.known \subseteq revoked.known
        /\ revoked.ready \subseteq revoked.known
    BY <1>1 DEF Table
  <2>3. \/ Write(p, marked, key \notin table.ready, key, TRUE)
        \/ Write(p, revoked, key \in table.ready, key, FALSE)
    BY <2>1 DEF MarkReady, RevokeReady
  <2>4. (key \in table.ready) \in BOOLEAN /\ (key \notin table.ready) \in BOOLEAN
    OBVIOUS
  <2> HIDE DEF marked, revoked
  <2> QED
    BY <2>2, <2>3, <2>4, WriteCatchesUp
<1>3. CASE \E components \in Revocations : RevokeMany(p, components)
  <2>1. PICK components \in Revocations : RevokeMany(p, components)
    BY <1>3
  <2> DEFINE revoked == Revoked(components)
  <2>2. /\ revoked \in Table /\ table.known \subseteq revoked.known
        /\ revoked.ready \subseteq revoked.known
    BY <1>1, PublicationAssumption DEF Table, Revoked, PublicationAssumption
  <2>3. Write(p, revoked, components \cap table.ready # {}, "__bulk_revoke__", FALSE)
    BY <2>1 DEF RevokeMany
  <2> HIDE DEF revoked
  <2> QED
    BY <2>2, <2>3, WriteCatchesUp
<1>4. CASE Reset(p)
  <2> DEFINE blank == [table EXCEPT !.ready = {}]
  <2>1. /\ blank \in Table /\ table.known \subseteq blank.known
        /\ blank.ready \subseteq blank.known
    BY <1>1 DEF Table
  <2>2. Write(p, blank, FALSE, "", FALSE)
    BY <1>4 DEF Reset
  <2> HIDE DEF blank
  <2> QED
    BY <2>1, <2>2, WriteCatchesUp
<1>5. CASE Publish(p)
  <2> DEFINE report == publishing[p]
  <2>1. /\ report \in ReadinessReport /\ report.table \in seen
        /\ ~overtaken => Current(report.table, table, Mirror)
    BY <1>5 DEF Publish, PubInv, PubTypeOK, Recorded, CatchUpInv, InStep
  <2>2. /\ runtime' = ReadinessRecorded(runtime, report)
        /\ UNCHANGED <<table, copied, seen, overtaken>>
        /\ publishing' = [publishing EXCEPT ![p] = None]
    BY <1>5 DEF Publish, Record
  <2> HIDE DEF report
  <2>3. Mirror' = Merged(Mirror, report.table)
    BY <2>1, <2>2, ReadinessMerges DEF Mirror, PubInv, IInv, Sound
  <2>4. \A q \in Publishers : publishing'[q] # None => publishing'[q] = publishing[q]
    BY <2>2 DEF PubInv, PubTypeOK
  <2> QED
    BY <2>1, <2>2, <2>3, <2>4, MergeCatchesUp
<1>6. CASE LoseReport(p)
  BY <1>6 DEF LoseReport, vars, CatchUpInv, InStep, MirrorCatchesUp, Delivered,
     Committing, Mirror
<1> QED
  BY <1>2, <1>3, <1>4, <1>5, <1>6 DEF PublisherStep

LEMMA CopyCatchesUp ==
  ASSUME PubInv, CatchUpInv, NEW c \in Callers, CopyTable(c) \/ DeliverCopy(c)
  PROVE  CatchUpInv'
<1>1. CASE CopyTable(c)
  <2>1. /\ UNCHANGED <<runtime, pc, held, table, publishing, seen, overtaken>>
        /\ copied' = [copied EXCEPT ![c] = table]
    BY <1>1 DEF CopyTable, vars
  <2>2. Mirror' = Mirror
    BY <2>1 DEF Mirror
  <2>3. ASSUME ~overtaken', NEW d \in Callers, copied'[d] # None
        PROVE  Current(copied'[d], table', Mirror')
    <3>1. CASE d = c
      BY <2>1, <2>2, <3>1 DEF Current, CatchUpInv, InStep, PubInv, PubTypeOK
    <3>2. CASE d # c
      BY <2>1, <2>2, <2>3, <3>2 DEF Current, CatchUpInv, InStep, PubInv, PubTypeOK
    <3> QED
      BY <3>1, <3>2
  <2>4. InStep'
    BY <2>1, <2>2, <2>3 DEF CatchUpInv, InStep, MirrorCatchesUp, Current
  <2>5. Delivered'
    BY <2>1, <2>2 DEF CatchUpInv, Delivered, Committing
  <2> QED
    BY <2>4, <2>5 DEF CatchUpInv
<1>2. CASE DeliverCopy(c)
  <2> DEFINE report == Report("__snapshot__", Pending(copied[c]) = {}, copied[c])
  <2>1. /\ copied[c] \in Table /\ copied[c] \in seen
        /\ ~overtaken => Current(copied[c], table, Mirror)
    BY <1>2 DEF DeliverCopy, PubInv, PubTypeOK, Recorded, CatchUpInv, InStep
  <2>2. report \in ReadinessReport /\ report.table = copied[c]
    BY <2>1 DEF Report, ReadinessReport
  <2>3. PICK tx \in Transactions : ApplyTransaction(c, [tx EXCEPT !.readiness = report])
    BY <1>2 DEF DeliverCopy
  <2> DEFINE delivery == [tx EXCEPT !.readiness = report]
  <2> HIDE DEF report
  <2>4. delivery \in TransactionType /\ delivery.readiness = report
    BY <2>2, CoordinatorAssumption DEF TransactionType, CoordinatorAssumption
  <2>5. runtime' = TransactionApplied(runtime, delivery)
    BY <2>3 DEF ApplyTransaction
  <2> HIDE DEF delivery
  <2>6. Mirror' = Merged(Mirror, copied[c])
    BY <2>2, <2>4, <2>5, TransactionMerges DEF Mirror, PubInv, IInv
  <2>7. /\ copied' = [copied EXCEPT ![c] = None]
        /\ UNCHANGED <<table, publishing, seen, overtaken>>
    BY <1>2 DEF DeliverCopy
  <2>8. \A d \in Callers : copied'[d] # None => copied'[d] = copied[d]
    BY <2>7 DEF PubInv, PubTypeOK
  <2> QED
    BY <2>1, <2>6, <2>7, <2>8, MergeCatchesUp
<1> QED
  BY <1>1, <1>2

\* A commit and a poll leave the coordinator's table alone, and only a caller
\* that has delivered one commits.
LEMMA QuietCatchesUp ==
  ASSUME CatchUpInv, UNCHANGED pubVars, KeepsTable(runtime, runtime'),
         Committing' => Committing
  PROVE  CatchUpInv'
<1>1. Mirror' = Mirror
  BY DEF KeepsTable, Mirror
<1>2. InStep'
  BY <1>1 DEF pubVars, CatchUpInv, InStep, MirrorCatchesUp, Current
<1>3. Delivered'
  BY <1>1 DEF CatchUpInv, Delivered
<1> QED
  BY <1>2, <1>3 DEF CatchUpInv

LEMMA CoordinatorCatchesUp ==
  ASSUME PubInv, CatchUpInv, UNCHANGED pubVars,
         PollAuthority \/ \E c \in Callers : FinalizeSnapshot(c) \/ FinalizeCommit(c)
  PROVE  CatchUpInv'
<1>1. runtime \in Runtime /\ CacheJustified(runtime)
  BY DEF PubInv, IInv, Sound
<1>2. CASE PollAuthority
  <2>1. PICK ts \in TradingStateNames, intent \in BOOLEAN :
          runtime' = SnapshotBuilt(runtime, ts, intent) /\ UNCHANGED held
    BY <1>2, CoordinatorAssumption DEF CoordinatorAssumption, PollAuthority, Record
  <2>2. runtime'.commit_latch = runtime.commit_latch
    BY <1>1, <2>1, SnapshotBuiltType
  <2>3. KeepsTable(runtime, runtime')
    BY <1>1, <2>1, SnapshotKeepsTable
  <2> QED
    BY <2>1, <2>2, <2>3, QuietCatchesUp DEF Committing
<1>3. ASSUME NEW c \in Callers, FinalizeSnapshot(c) \/ FinalizeCommit(c)
      PROVE  CatchUpInv'
  <2>1. Committing
    BY <1>3 DEF FinalizeSnapshot, FinalizeCommit, Committing, PubInv, IInv, TypeOK
  <2>2. KeepsTable(runtime, runtime')
    <3>1. CASE FinalizeSnapshot(c)
      BY <3>1, <1>1, SnapshotKeepsTable DEF FinalizeSnapshot
    <3>2. CASE FinalizeCommit(c)
      <4>1. \/ UNCHANGED runtime
            \/ \E same_version \in BOOLEAN :
                 runtime' = ActivationCommitted(runtime, held[c], same_version)
        BY <3>2 DEF FinalizeCommit, CommitWindow
      <4> QED
        BY <4>1, <1>1, CommitKeepsTable DEF KeepsTable
    <3> QED
      BY <1>3, <3>1, <3>2
  <2> QED
    BY <2>1, <2>2, QuietCatchesUp
<1> QED
  BY <1>2, <1>3

\* CatchUpInv is an invariant of the composition.
THEOREM CatchUpInvariance == PubSpec => []CatchUpInv
<1>1. PubInv /\ CatchUpInv /\ [PubNext]_allVars => CatchUpInv'
  <2> SUFFICES ASSUME PubInv, CatchUpInv, [PubNext]_allVars PROVE CatchUpInv'
    OBVIOUS
  <2>1. CASE \E p \in Publishers : PublisherStep(p)
    BY <2>1, PublisherCatchesUp
  <2>2. CASE \E c \in Callers : CommitStep(c)
    BY <2>2, CopyCatchesUp, CoordinatorCatchesUp DEF CommitStep
  <2>3. CASE Poll
    BY <2>3, CoordinatorCatchesUp DEF Poll
  <2>4. CASE UNCHANGED allVars
    BY <2>4, QuietCatchesUp DEF allVars, vars, KeepsTable, Committing
  <2> QED
    BY <2>1, <2>2, <2>3, <2>4 DEF PubNext
<1> QED
  BY <1>1, CatchUpInitially, PublicationInvariance, PTL DEF PubSpec

\* With no report under way the coordinator holds the table's keys for true,
\* unless the table changed over a report or a copy, or without a report.
THEOREM MirrorFollows == PubSpec => []MirrorCatchesUp
<1>1. CatchUpInv => MirrorCatchesUp
  BY DEF CatchUpInv, InStep
<1> QED
  BY <1>1, CatchUpInvariance, PTL

\* Dispatch takes a latch, a latch takes a delivered table, and the reconcile
\* wants every key the coordinator knows: so all of KEYS are true in the table.
THEOREM DispatchFollowsTable == PubSpec => []DispatchHonoursKeys
<1>1. PubInv /\ CatchUpInv => DispatchHonoursKeys
  <2> SUFFICES ASSUME PubInv, CatchUpInv, ~overtaken,
                      \A p \in Publishers : publishing[p] = None,
                      DispatchEnabled("LIVE_ACTIVE", TRUE)
               PROVE  KEYS \subseteq table.ready
    BY DEF DispatchHonoursKeys
  <2>1. Executing(Inputs(runtime, "LIVE_ACTIVE", TRUE))
    BY SnapshotAuthorityJustified
    DEF DispatchEnabled, PubInv, IInv, Sound, TradingStateNames
  <2>2. runtime.commit_latch /\ Pending(Mirror) = {}
    BY <2>1 DEF Executing, AuthorityConverged, PrereqsReady, Inputs, Mirror
  <2>3. KEYS \subseteq Mirror.known
    BY <2>2 DEF CatchUpInv, Delivered, Committing
  <2>4. Mirror.ready = table.ready
    BY DEF CatchUpInv, InStep, MirrorCatchesUp
  <2> QED
    BY <2>2, <2>3, <2>4 DEF Pending
<1> QED
  BY <1>1, CatchUpInvariance, PublicationInvariance, PTL

-----------------------------------------------------------------------------
(* What the coordinator guarantees by itself survives the publishers.      *)

\* The table's publishers, with late and lost reports, and a commit's old copy
\* never make the coordinator report dispatch over a closed gate.
THEOREM DispatchIsSafeUnderPublication == PubSpec => []DispatchSafe
<1>1. PubInv => DispatchSafe
  BY DispatchSafety DEF PubInv, IInv
<1> QED
  BY <1>1, PublicationInvariance, PTL

LEMMA PublicationGuarded ==
  ASSUME PubInv, PubNext, ReconcilePermitted(runtime),
         runtime'.bootstrap_state = "RUNNING_SUPERVISED"
  PROVE  UNCHANGED vars \/ (RuntimeStep /\ Guarded(runtime, runtime'))
<1>0. IInv /\ runtime \in Runtime
  BY DEF PubInv, IInv, Sound
<1>1. CASE \E p \in Publishers : PublisherStep(p)
  <2>1. PICK p \in Publishers : PublisherStep(p)
    BY <1>1
  <2>2. CASE Publish(p)
    <3>1. /\ publishing[p] \in ReadinessReport
          /\ runtime' = ReadinessRecorded(runtime, publishing[p])
      BY <2>2 DEF Publish, Record, PubInv, PubTypeOK
    <3> QED
      BY <1>0, <3>1, ReadinessFenced, EvolvesAdvances
      DEF LiveFenced, Fenced, Guarded, RuntimeStep, IInv
  <2>3. CASE ~Publish(p)
    BY <2>1, <2>3 DEF PublisherStep, MarkReady, RevokeReady, RevokeMany, Reset,
       LoseReport, Write
  <2> QED
    BY <2>2, <2>3
<1>2. ASSUME NEW c \in Callers, CommitStep(c)
      PROVE  UNCHANGED vars \/ (RuntimeStep /\ Guarded(runtime, runtime'))
  <2>1. CASE CopyTable(c)
    BY <2>1 DEF CopyTable
  <2>2. CASE DeliverCopy(c)
    <3> DEFINE report == Report("__snapshot__", Pending(copied[c]) = {}, copied[c])
    <3>1. report \in ReadinessReport
      BY <2>2 DEF DeliverCopy, PubInv, PubTypeOK, Report, ReadinessReport
    <3>2. PICK tx \in Transactions : ApplyTransaction(c, [tx EXCEPT !.readiness = report])
      BY <2>2 DEF DeliverCopy
    <3> HIDE DEF report
    <3>3. [tx EXCEPT !.readiness = report] \in TransactionType
      BY <3>1, CoordinatorAssumption DEF TransactionType, CoordinatorAssumption
    <3> QED
      BY <1>0, <3>2, <3>3, TransactionGuarded, ApplyTransactionStep
  <2>3. CASE FinalizeSnapshot(c) \/ FinalizeCommit(c)
    BY <1>0, <2>3, CallerGuarded, CallerStepSound DEF CallerStep
  <2> QED
    BY <1>2, <2>1, <2>2, <2>3 DEF CommitStep
<1>3. CASE Poll
  BY <1>0, <1>3, PollsGuarded, PollStep DEF Poll
<1> QED
  BY <1>1, <1>2, <1>3 DEF PubNext

\* A lost key takes the latch with it in whatever order reports and copies
\* arrive; what was revoked in the table and overtaken on the way is the
\* exception MirrorCatchesUp states.
THEOREM RegressionIsFencedUnderPublication == PubSpec => RegressionRevokes
<1>1. ASSUME PubInv, PubInv', [PubNext]_allVars
      PROVE  [/\ ReconcilePermitted(runtime)
              /\ runtime'.bootstrap_state = "RUNNING_SUPERVISED"
              /\ \/ ~(runtime.readiness_table.ready
                        \subseteq runtime'.readiness_table.ready)
                 \/ runtime.global_gate_ready /\ ~runtime'.global_gate_ready
              => ~runtime'.commit_latch]_vars
  <2> SUFFICES ASSUME ReconcilePermitted(runtime), ~UNCHANGED vars,
                      runtime'.bootstrap_state = "RUNNING_SUPERVISED",
                      ~Kept(runtime, runtime')
               PROVE  ~runtime'.commit_latch
    BY DEF Kept
  <2>1. PubNext
    BY <1>1 DEF allVars
  <2>2. RuntimeStep /\ runtime'.global_epoch > runtime.global_epoch
    BY <1>1, <2>1, PublicationGuarded DEF Guarded
  <2>3. runtime.global_epoch \in Nat /\ runtime'.global_epoch \in Nat
    BY <1>1 DEF PubInv, IInv, Sound, Runtime
  <2> QED
    BY <2>2, <2>3 DEF RuntimeStep, Advances
<1> QED
  BY <1>1, PublicationInvariance, PTL DEF PubSpec, RegressionRevokes

-----------------------------------------------------------------------------
(* The composition is one of the coordinator's environments.               *)

\* Every report under way does.
Truthful ==
  \A p \in Publishers : publishing[p] # None => SaysWhatItCarries(publishing[p])

LEMMA TruthfulInitially == PubInit => Truthful
  BY DEF PubInit, Truthful

\* A write leaves the publisher with nothing to report or with a true report.
LEMMA WriteTruthful ==
  ASSUME PubTypeOK, Truthful, NEW p \in Publishers, NEW tab, NEW changed, NEW key,
         NEW value, Write(p, tab, changed, key, value),
         \/ key \in ReadinessKeys /\ value = (key \in tab.ready)
         \/ key = "__bulk_revoke__" /\ value = FALSE
         \/ ~changed
  PROVE  Truthful'
<1> SUFFICES ASSUME NEW q \in Publishers, publishing'[q] # None
             PROVE  SaysWhatItCarries(publishing'[q])
  BY DEF Truthful
<1>1. CASE q = p
  <2>1. changed /\ publishing'[q] = Report(key, value, tab)
    BY <1>1 DEF Write, PubTypeOK
  <2> QED
    BY <2>1 DEF Report, SaysWhatItCarries
<1>2. CASE q # p
  BY <1>2 DEF Write, PubTypeOK, Truthful
<1> QED
  BY <1>1, <1>2

LEMMA PublisherTruthful ==
  ASSUME PubInv, Truthful, NEW p \in Publishers, PublisherStep(p)
  PROVE  Truthful'
<1>1. PubTypeOK
  BY DEF PubInv
<1>2. CASE \E key \in ReadinessKeys : MarkReady(p, key)
  BY <1>1, <1>2, WriteTruthful DEF MarkReady
<1>3. CASE \E key \in ReadinessKeys : RevokeReady(p, key)
  <2>1. PICK key \in ReadinessKeys : RevokeReady(p, key)
    BY <1>3
  <2> DEFINE tab == [known |-> table.known \cup {key}, ready |-> table.ready \ {key}]
  <2>2. Write(p, tab, key \in table.ready, key, FALSE)
    BY <2>1, Zenon DEF RevokeReady
  <2>3. FALSE = (key \in tab.ready)
    OBVIOUS
  <2> HIDE DEF tab
  <2> QED
    BY <1>1, <2>2, <2>3, WriteTruthful, Zenon
<1>4. CASE \E components \in Revocations : RevokeMany(p, components)
  BY <1>1, <1>4, WriteTruthful DEF RevokeMany
<1>5. CASE Reset(p)
  BY <1>1, <1>5, WriteTruthful DEF Reset
<1>6. CASE Publish(p) \/ LoseReport(p)
  BY <1>1, <1>6 DEF Publish, LoseReport, PubTypeOK, Truthful
<1> QED
  BY <1>2, <1>3, <1>4, <1>5, <1>6 DEF PublisherStep

LEMMA TruthfulInvariance == PubSpec => []Truthful
<1>1. PubInv /\ Truthful /\ [PubNext]_allVars => Truthful'
  <2> SUFFICES ASSUME PubInv, Truthful, [PubNext]_allVars PROVE Truthful'
    OBVIOUS
  <2>1. CASE \E p \in Publishers : PublisherStep(p)
    BY <2>1, PublisherTruthful
  <2>2. CASE UNCHANGED publishing
    BY <2>2 DEF Truthful
  <2>3. CASE (\E c \in Callers : CommitStep(c)) \/ Poll \/ UNCHANGED allVars
    BY <2>2, <2>3 DEF CommitStep, CopyTable, DeliverCopy, Poll, allVars, pubVars
  <2> QED
    BY <2>1, <2>3 DEF PubNext
<1> QED
  BY <1>1, TruthfulInitially, PublicationInvariance, PTL DEF PubSpec

\* What is under way is a whole table.
LEMMA UnderWayIsWhole ==
  ASSUME PubInv, CatchUpInv, Truthful
  PROVE  /\ \A p \in Publishers : publishing[p] # None => publishing[p] \in WholeReports
         /\ \A c \in Callers : copied[c] # None => copied[c] \in WholeTables
<1>1. \A past \in seen : past \in WholeTables
  BY DEF PubInv, PubTypeOK, Recorded, CatchUpInv, InStep, WholeTables
<1>2. ASSUME NEW p \in Publishers, publishing[p] # None
      PROVE  publishing[p] \in WholeReports
  <2>1. /\ publishing[p] \in ReadinessReport
        /\ publishing[p].table \in WholeTables
        /\ SaysWhatItCarries(publishing[p])
    BY <1>1, <1>2 DEF PubInv, PubTypeOK, Truthful
  <2>2. publishing[p] \in ReportsOf(publishing[p].table)
    BY <2>1 DEF ReadinessReport, ReportsOf, SaysWhatItCarries
  <2> QED
    BY <2>1, <2>2 DEF WholeReports
<1>3. \A c \in Callers : copied[c] # None => copied[c] \in WholeTables
  BY <1>1 DEF PubInv, PubTypeOK
<1> QED
  BY <1>2, <1>3

\* The instance gives the operators on the runtime record their old meaning: only
\* ReadinessReports and Transactions are substituted, and those operators read
\* neither.
LEMMA SameFence ==
  /\ \A rt : Coordinator!ReconcilePermitted(rt) = ReconcilePermitted(rt)
  /\ \A rt, changed : Coordinator!Invalidated(rt, changed) = Invalidated(rt, changed)
<1> USE DEF ReconcilePermitted, AuthorityLiveStates, FailSafeStates,
            Coordinator!ReconcilePermitted, Coordinator!AuthorityLiveStates,
            Coordinator!FailSafeStates
<1> QED
  BY Zenon DEF Invalidated, EpochBumped, Coordinator!Invalidated, Coordinator!EpochBumped

LEMMA SameRecords ==
  ASSUME NEW rt
  PROVE  /\ \A state : Coordinator!BootstrapStateRecorded(rt, state) = BootstrapStateRecorded(rt, state)
         /\ \A capital : Coordinator!CapitalStateRecorded(rt, capital) = CapitalStateRecorded(rt, capital)
         /\ \A report : Coordinator!ReadinessRecorded(rt, report) = ReadinessRecorded(rt, report)
         /\ \A active : Coordinator!KillSwitchRecorded(rt, active) = KillSwitchRecorded(rt, active)
         /\ \A report : Coordinator!AuthorityRecorded(rt, report) = AuthorityRecorded(rt, report)
         /\ \A ready : /\ Coordinator!NonceStatusRecorded(rt, ready) = NonceStatusRecorded(rt, ready)
                       /\ Coordinator!DispatchHealthRecorded(rt, ready) = DispatchHealthRecorded(rt, ready)
                       /\ Coordinator!GlobalGateRecorded(rt, ready) = GlobalGateRecorded(rt, ready)
                       /\ Coordinator!ActivationRequestRecorded(rt, ready) = ActivationRequestRecorded(rt, ready)
<1>1. \A state : Coordinator!BootstrapStateRecorded(rt, state) = BootstrapStateRecorded(rt, state)
  BY Zenon DEF BootstrapStateRecorded, BootstrapTarget,
               Coordinator!BootstrapStateRecorded, Coordinator!BootstrapTarget
<1>2. \A capital : Coordinator!CapitalStateRecorded(rt, capital) = CapitalStateRecorded(rt, capital)
  BY SameFence DEF CapitalStateRecorded, CapitalRunning,
               Coordinator!CapitalStateRecorded, Coordinator!CapitalRunning
<1>3. \A report : Coordinator!ReadinessRecorded(rt, report) = ReadinessRecorded(rt, report)
  BY SameFence DEF ReadinessRecorded, Merged, Regressed,
     Coordinator!ReadinessRecorded, Coordinator!Merged, Coordinator!Regressed
<1>4. \A active : Coordinator!KillSwitchRecorded(rt, active) = KillSwitchRecorded(rt, active)
  BY Zenon DEF KillSwitchRecorded, Coordinator!KillSwitchRecorded
<1>5. \A report : Coordinator!AuthorityRecorded(rt, report) = AuthorityRecorded(rt, report)
  BY SameFence DEF AuthorityRecorded, Coordinator!AuthorityRecorded
<1>6. \A ready : /\ Coordinator!NonceStatusRecorded(rt, ready) = NonceStatusRecorded(rt, ready)
                 /\ Coordinator!DispatchHealthRecorded(rt, ready) = DispatchHealthRecorded(rt, ready)
                 /\ Coordinator!GlobalGateRecorded(rt, ready) = GlobalGateRecorded(rt, ready)
                 /\ Coordinator!ActivationRequestRecorded(rt, ready) = ActivationRequestRecorded(rt, ready)
  BY SameFence DEF NonceStatusRecorded, DispatchHealthRecorded, GlobalGateRecorded,
     ActivationRequestRecorded, Coordinator!NonceStatusRecorded,
     Coordinator!DispatchHealthRecorded, Coordinator!GlobalGateRecorded,
     Coordinator!ActivationRequestRecorded
<1> QED
  BY <1>1, <1>2, <1>3, <1>4, <1>5, <1>6

LEMMA SameGates ==
  ASSUME NEW in
  PROVE  /\ Coordinator!CapitalHardGate(in.capital) = CapitalHardGate(in.capital)
         /\ Coordinator!PrereqsReady(in) = PrereqsReady(in)
         /\ Coordinator!AuthorityConverged(in) = AuthorityConverged(in)
         /\ Coordinator!Executing(in) = Executing(in)
  BY DEF Executing, AuthorityConverged, PrereqsReady, CapitalHardGate,
     CapitalRunning, Pending, Coordinator!Executing, Coordinator!AuthorityConverged,
     Coordinator!PrereqsReady, Coordinator!CapitalHardGate, Coordinator!CapitalRunning,
     Coordinator!Pending

LEMMA SameReconcile ==
  \A in, current : Coordinator!FullReconcile(in, current) = FullReconcile(in, current)
<1>1. \A in, current : Coordinator!SevereDegradation(in, current) = SevereDegradation(in, current)
  BY SameGates DEF SevereDegradation, DegradedState, DegradedBootstrapStates,
     FailSafeStates, Coordinator!SevereDegradation, Coordinator!DegradedState,
     Coordinator!DegradedBootstrapStates, Coordinator!FailSafeStates
<1>2. \A in, current : Coordinator!TargetAuthority(in, current) = TargetAuthority(in, current)
  BY <1>1, SameGates DEF TargetAuthority, EarlyBootstrapStates,
     Coordinator!TargetAuthority, Coordinator!EarlyBootstrapStates
<1>3. Coordinator!AllowedFrom = AllowedFrom
  BY DEF AllowedFrom, Coordinator!AllowedFrom
<1> QED
  BY <1>2, <1>3 DEF FullReconcile, Coordinator!FullReconcile

LEMMA SameSnapshots ==
  ASSUME NEW rt, NEW ts, NEW intent
  PROVE  /\ Coordinator!SnapshotBuilt(rt, ts, intent) = SnapshotBuilt(rt, ts, intent)
         /\ Coordinator!Snapshot(rt, ts, intent) = Snapshot(rt, ts, intent)
<1>1. Coordinator!Reconcile(rt, ts, intent) = Reconcile(rt, ts, intent)
  BY SameReconcile DEF Reconcile, Inputs, Coordinator!Reconcile, Coordinator!Inputs
<1>2. /\ Coordinator!SnapshotBuilt(rt, ts, intent) = SnapshotBuilt(rt, ts, intent)
      /\ Coordinator!SnapshotAuthority(rt, ts, intent) = SnapshotAuthority(rt, ts, intent)
  BY <1>1, SameFence DEF SnapshotBuilt, SnapshotAuthority, Coordinator!SnapshotBuilt,
     Coordinator!SnapshotAuthority
<1>3. Coordinator!ProofPassed(rt, ts, intent) = ProofPassed(rt, ts, intent)
  BY <1>2 DEF ProofPassed, Pending, CapitalRunning, Coordinator!ProofPassed,
     Coordinator!Pending, Coordinator!CapitalRunning
<1> QED
  BY <1>2, <1>3 DEF Snapshot, Coordinator!Snapshot

LEMMA SameTransaction ==
  ASSUME NEW rt, NEW tx
  PROVE  /\ Coordinator!TransactionEvidence(rt, tx) = TransactionEvidence(rt, tx)
         /\ Coordinator!TransactionApplied(rt, tx) = TransactionApplied(rt, tx)
         /\ Coordinator!TransactionSnapshot(rt, tx) = TransactionSnapshot(rt, tx)
<1>1. Coordinator!TransactionEvidence(rt, tx) = TransactionEvidence(rt, tx)
  <2> DEFINE r1 == BootstrapStateRecorded(rt, tx.bootstrap_state)
             r2 == CapitalStateRecorded(r1, tx.capital)
             r3 == ReadinessRecorded(r2, tx.readiness)
             r4 == KillSwitchRecorded(r3, tx.kill_switch_active)
             r5 == AuthorityRecorded(r4, tx.authority)
             r6 == NonceStatusRecorded(r5, tx.nonce_ready)
             r7 == DispatchHealthRecorded(r6, tx.dispatch_health_ready)
             r8 == GlobalGateRecorded(r7, tx.global_gate_ready)
  <2>1. /\ r1 = Coordinator!BootstrapStateRecorded(rt, tx.bootstrap_state)
        /\ r2 = Coordinator!CapitalStateRecorded(r1, tx.capital)
        /\ r3 = Coordinator!ReadinessRecorded(r2, tx.readiness)
        /\ r4 = Coordinator!KillSwitchRecorded(r3, tx.kill_switch_active)
        /\ r5 = Coordinator!AuthorityRecorded(r4, tx.authority)
        /\ r6 = Coordinator!NonceStatusRecorded(r5, tx.nonce_ready)
        /\ r7 = Coordinator!DispatchHealthRecorded(r6, tx.dispatch_health_ready)
        /\ r8 = Coordinator!GlobalGateRecorded(r7, tx.global_gate_ready)
        /\ Coordinator!ActivationRequestRecorded(r8, TRUE) = ActivationRequestRecorded(r8, TRUE)
    BY SameRecords
  <2>2. TransactionEvidence(rt, tx)
          = IF tx.activation_requested THEN ActivationRequestRecorded(r8, TRUE) ELSE r8
    BY DEF TransactionEvidence
  <2> HIDE DEF r1, r2, r3, r4, r5, r6, r7, r8
  <2>3. Coordinator!TransactionEvidence(rt, tx)
          = IF tx.activation_requested THEN Coordinator!ActivationRequestRecorded(r8, TRUE) ELSE r8
    BY <2>1 DEF Coordinator!TransactionEvidence
  <2> QED
    BY <2>1, <2>2, <2>3
<1>2. \A r, snapshot : Coordinator!ActivationEvaluated(r, snapshot) = ActivationEvaluated(r, snapshot)
  BY DEF ActivationEvaluated, Coordinator!ActivationEvaluated
<1>3. \A r, ts, intent : Coordinator!SnapshotEvaluated(r, ts, intent) = SnapshotEvaluated(r, ts, intent)
  BY <1>2, SameSnapshots DEF SnapshotEvaluated, Coordinator!SnapshotEvaluated
<1>4. Coordinator!TransactionApplied(rt, tx) = TransactionApplied(rt, tx)
  BY <1>1, <1>3 DEF TransactionApplied, Coordinator!TransactionApplied
<1>5. Coordinator!TransactionSnapshot(rt, tx) = TransactionSnapshot(rt, tx)
  BY <1>1, SameSnapshots DEF TransactionSnapshot, Coordinator!TransactionSnapshot
<1> QED
  BY <1>1, <1>4, <1>5

LEMMA SameCommit ==
  ASSUME NEW rt, NEW snapshot
  PROVE  /\ Coordinator!AlreadyCommitted(rt, snapshot) = AlreadyCommitted(rt, snapshot)
         /\ \A same : Coordinator!ActivationCommitted(rt, snapshot, same)
                        = ActivationCommitted(rt, snapshot, same)
  BY DEF AlreadyCommitted, ActivationCommitted, Fingerprint, Coordinator!AlreadyCommitted,
     Coordinator!ActivationCommitted, Coordinator!Fingerprint

LEMMA SameRecord ==
  ASSUME NEW rt
  PROVE  Record(rt) <=> Coordinator!Record(rt)
  BY DEF Record, Coordinator!Record

LEMMA DeliveryRefines ==
  ASSUME PubInv, CatchUpInv, Truthful, NEW c \in Callers, DeliverCopy(c)
  PROVE  Coordinator!ApplyBootstrapTransaction(c)
<1> DEFINE report == Report("__snapshot__", Pending(copied[c]) = {}, copied[c])
<1>1. PICK tx \in Transactions : ApplyTransaction(c, [tx EXCEPT !.readiness = report])
  BY DEF DeliverCopy
<1>2. copied[c] \in WholeTables
  BY UnderWayIsWhole DEF DeliverCopy
<1> DEFINE delivery == [tx EXCEPT !.readiness = report]
<1>3. delivery \in WholeTransactions
  BY <1>2 DEF WholeTransactions
<1> HIDE DEF delivery
<1>4. ApplyTransaction(c, delivery)
  BY <1>1 DEF delivery
<1>5. Coordinator!ApplyTransaction(c, delivery)
  BY <1>4, SameTransaction DEF ApplyTransaction, GoesOnToCommit,
     Coordinator!ApplyTransaction, Coordinator!GoesOnToCommit
<1> QED
  BY <1>3, <1>5 DEF Coordinator!ApplyBootstrapTransaction

LEMMA FinalizeRefines ==
  ASSUME NEW c \in Callers
  PROVE  /\ FinalizeSnapshot(c) => Coordinator!FinalizeSnapshot(c)
         /\ FinalizeCommit(c) => Coordinator!FinalizeCommit(c)
<1>1. FinalizeSnapshot(c) => Coordinator!FinalizeSnapshot(c)
  BY SameSnapshots DEF FinalizeSnapshot, Coordinator!FinalizeSnapshot
<1>2. CommitWindow(c) => Coordinator!CommitWindow(c)
  BY SameCommit DEF CommitWindow, Coordinator!CommitWindow
<1>3. FinalizeCommit(c) => Coordinator!FinalizeCommit(c)
  BY <1>2 DEF FinalizeCommit, Coordinator!FinalizeCommit
<1> QED
  BY <1>1, <1>3

\* Every step of the composition is one of the coordinator's, or leaves the
\* coordinator alone.
LEMMA StepRefines ==
  ASSUME PubInv, CatchUpInv, Truthful, PubNext
  PROVE  UNCHANGED vars \/ Coordinator!Next
<1>1. CASE \E p \in Publishers : PublisherStep(p)
  <2>1. PICK p \in Publishers : PublisherStep(p)
    BY <1>1
  <2>2. CASE Publish(p)
    <3>1. publishing[p] \in WholeReports
      BY <2>2, UnderWayIsWhole DEF Publish
    <3>2. Coordinator!Record(Coordinator!ReadinessRecorded(runtime, publishing[p]))
      BY <2>2, SameRecord, SameRecords DEF Publish
    <3>3. Coordinator!RecordReadiness
      BY <3>1, <3>2 DEF Coordinator!RecordReadiness
    <3> QED
      BY <3>3 DEF Coordinator!Evidence, Coordinator!Next
  <2>3. CASE ~Publish(p)
    BY <2>1, <2>3 DEF PublisherStep, MarkReady, RevokeReady, RevokeMany, Reset,
       LoseReport, Write
  <2> QED
    BY <2>2, <2>3
<1>2. ASSUME NEW c \in Callers, CommitStep(c)
      PROVE  UNCHANGED vars \/ Coordinator!Next
  <2>1. CASE CopyTable(c)
    BY <2>1 DEF CopyTable
  <2>2. CASE ~CopyTable(c)
    <3>1. Coordinator!CallerStep(c)
      BY <1>2, <2>2, DeliveryRefines, FinalizeRefines DEF CommitStep, Coordinator!CallerStep
    <3> QED
      BY <3>1 DEF Coordinator!Next
  <2> QED
    BY <2>1, <2>2
<1>3. CASE Poll
  <2>1. Coordinator!PollAuthority
    BY <1>3, SameSnapshots, SameRecord DEF Poll, PollAuthority, Coordinator!PollAuthority
  <2> QED
    BY <2>1 DEF Coordinator!Next
<1> QED
  BY <1>1, <1>2, <1>3 DEF PubNext

\* The values substituted are values the coordinator's assumption allows.
LEMMA InstanceIsAdmissible ==
  WholeReports \subseteq ReadinessReport /\ WholeTransactions \subseteq TransactionType
<1>1. WholeReports \subseteq ReadinessReport
  BY DEF WholeReports, ReportsOf, WholeTables, ReadinessReport
<1>2. ASSUME NEW tx \in Transactions, NEW tab \in WholeTables
      PROVE  [tx EXCEPT !.readiness = Report("__snapshot__", Pending(tab) = {}, tab)]
               \in TransactionType
  <2>1. Report("__snapshot__", Pending(tab) = {}, tab) \in ReadinessReport
    BY DEF Report, ReadinessReport, WholeTables
  <2> QED
    BY <2>1, CoordinatorAssumption DEF TransactionType, CoordinatorAssumption
<1> QED
  BY <1>1, <1>2 DEF WholeTransactions

\* The composition implements the coordinator: all that is proved of every
\* behaviour of StartupCoordinator holds under the publishers.
THEOREM PublicationRefinesCoordinator == PubSpec => Coordinator!Spec /\ PublicationIsEvidence
<1>1. PubInit => Coordinator!Init
  BY DEF PubInit, Init, InitRuntime, Coordinator!Init, Coordinator!InitRuntime
<1>2. ASSUME PubInv, CatchUpInv, Truthful, [PubNext]_allVars
      PROVE  /\ [Coordinator!Next]_(Coordinator!vars)
             /\ [UNCHANGED vars \/ Coordinator!Next]_vars
  BY <1>2, StepRefines DEF allVars, vars, Coordinator!vars
<1> QED
  BY <1>1, <1>2, PublicationInvariance, CatchUpInvariance, TruthfulInvariance, PTL
  DEF PubSpec, PublicationIsEvidence, Coordinator!Spec

=============================================================================
