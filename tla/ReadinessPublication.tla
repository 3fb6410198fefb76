------------------------ MODULE ReadinessPublication ------------------------
(***************************************************************************)
(* bot/readiness_table.py feeding the startup coordinator.  set_ready and  *)
(* revoke_many change the table under its module lock, release it, and     *)
(* only then call record_readiness with the copy they took: Publishers     *)
(* interleave between the two.  commit_activation copies the table         *)
(* (snapshot_with_version) well before its bootstrap transaction delivers  *)
(* the copy.  The version number travels along and orders nothing.         *)
(***************************************************************************)
EXTENDS StartupCoordinator

CONSTANTS
  KEYS,         \* the keys the module registers at import
  Publishers,   \* threads that call set_ready, revoke_many or reset
  Revocations,  \* component sets passed to revoke_many
  ResetAllowed, \* whether reset may be called
  LossAllowed   \* whether record_readiness may raise

ASSUME PublicationAssumption ==
  /\ KEYS \subseteq ReadinessKeys
  /\ Revocations \subseteq SUBSET ReadinessKeys
  /\ ResetAllowed \in BOOLEAN
  /\ LossAllowed \in BOOLEAN

VARIABLES
  table,       \* _TABLE
  publishing,  \* publishing[p]: the report p has yet to record, or None
  copied,      \* copied[c]: the table commit_activation of c has copied, or None
  seen,        \* history: every value _TABLE has had
  overtaken    \* history: keys became true or false while a report or a copy was
               \* under way, or without a report that arrived

pubVars == <<table, publishing, copied, seen, overtaken>>
allVars == <<vars, pubVars>>

PubInit ==
  /\ Init
  /\ table = [known |-> KEYS, ready |-> {}]
  /\ publishing = [p \in Publishers |-> None]
  /\ copied = [c \in Callers |-> None]
  /\ seen = {table}
  /\ overtaken = FALSE

-----------------------------------------------------------------------------
(* Writers of the table.                                                   *)

\* Mutant: the report carries the changed key alone.
DeltaReport(key, value, tab) ==
  [key |-> key, value |-> value,
   table |-> [known |-> {key}, ready |-> {key} \cap tab.ready]]

Report(key, value, tab) == [key |-> key, value |-> value, table |-> tab]

\* Some thread has the table in hand and has yet to hand it to the coordinator.
UnderWay ==
  \/ \E p \in Publishers : publishing[p] # None
  \/ \E c \in Callers : copied[c] # None

\* The table becomes tab and, if its truth changed, p has a report to record.
Write(p, tab, changed, key, value) ==
  /\ publishing[p] = None
  /\ table' = tab
  /\ seen' = seen \cup {tab}
  /\ overtaken' = (overtaken \/ (tab.ready # table.ready /\ (UnderWay \/ ~changed)))
  /\ publishing' = [publishing EXCEPT ![p] =
                      IF changed THEN Report(key, value, tab) ELSE None]
  /\ UNCHANGED <<vars, copied>>

\* mark_ready, mark_not_applicable: a known or unknown key becomes true.
MarkReady(p, key) ==
  Write(p, [known |-> table.known \cup {key}, ready |-> table.ready \cup {key}],
        key \notin table.ready, key, TRUE)

\* revoke_ready: set_ready(False, allow_regression=True); an unknown key is
\* registered as false and, nothing having changed, not reported.
RevokeReady(p, key) ==
  Write(p, [known |-> table.known \cup {key}, ready |-> table.ready \ {key}],
        key \in table.ready, key, FALSE)

\* revoke_many: one table change and one report for all the components.
Revoked(components) ==
  [known |-> table.known \cup components, ready |-> table.ready \ components]

\* Mutant: changed is set only if every component was true.
RevokeManyUnlessAll(p, components) ==
  /\ components # {}
  /\ Write(p, Revoked(components), components \subseteq table.ready,
           "__bulk_revoke__", FALSE)

RevokeMany(p, components) ==
  /\ components # {}
  /\ Write(p, Revoked(components), components \cap table.ready # {},
           "__bulk_revoke__", FALSE)

\* reset tells the coordinator nothing.
Reset(p) ==
  /\ ResetAllowed
  /\ Write(p, [table EXCEPT !.ready = {}], FALSE, "", FALSE)

\* Mutant: the copy is stored before its fence compares it with the old one.
PublishUnfenced(p) ==
  /\ publishing[p] # None
  /\ Record([runtime EXCEPT !.readiness_table =
               Merged(runtime.readiness_table, publishing[p].table)])
  /\ publishing' = [publishing EXCEPT ![p] = None]
  /\ UNCHANGED <<table, copied, seen, overtaken>>

\* record_readiness, outside the table's lock.
Publish(p) ==
  /\ publishing[p] # None
  /\ Record(ReadinessRecorded(runtime, publishing[p]))
  /\ publishing' = [publishing EXCEPT ![p] = None]
  /\ UNCHANGED <<table, copied, seen, overtaken>>

\* An exception of record_readiness is swallowed; the table keeps the change.
LoseReport(p) ==
  /\ LossAllowed
  /\ publishing[p] # None
  /\ publishing' = [publishing EXCEPT ![p] = None]
  /\ overtaken' = TRUE
  /\ UNCHANGED <<vars, table, copied, seen>>

PublisherStep(p) ==
  \/ \E key \in ReadinessKeys : MarkReady(p, key) \/ RevokeReady(p, key)
  \/ \E components \in Revocations : RevokeMany(p, components)
  \/ Reset(p)
  \/ Publish(p)
  \/ LoseReport(p)

-----------------------------------------------------------------------------
(* commit_activation.                                                      *)

CopyTable(c) ==
  /\ pc[c] = "idle" /\ copied[c] = None
  /\ copied' = [copied EXCEPT ![c] = table]
  /\ UNCHANGED <<vars, table, publishing, seen, overtaken>>

\* readiness_value is True when every copied key is.
DeliverCopy(c) ==
  /\ copied[c] # None
  /\ \E tx \in Transactions :
       ApplyTransaction(c, [tx EXCEPT
         !.readiness = Report("__snapshot__", Pending(copied[c]) = {}, copied[c])])
  /\ copied' = [copied EXCEPT ![c] = None]
  /\ UNCHANGED <<table, publishing, seen, overtaken>>

CommitStep(c) ==
  \/ CopyTable(c)
  \/ DeliverCopy(c)
  \/ (FinalizeSnapshot(c) \/ FinalizeCommit(c)) /\ UNCHANGED pubVars

Poll == PollAuthority /\ UNCHANGED pubVars

PubNext ==
  \/ \E p \in Publishers : PublisherStep(p)
  \/ \E c \in Callers : CommitStep(c)
  \/ Poll

PubSpec == PubInit /\ [][PubNext]_allVars

\* A publisher that has left the table's lock goes on to record_readiness.
FairPubSpec == PubSpec /\ \A p \in Publishers : WF_allVars(Publish(p))

-----------------------------------------------------------------------------
(* The coordinator by itself.                                              *)

\* Tables that list every key registered at import, and hold for true only
\* what they list.
WholeTables ==
  {tab \in Table : KEYS \subseteq tab.known /\ tab.ready \subseteq tab.known}

\* A report says of its key what its table says.
SaysWhatItCarries(report) ==
  \/ report.key \in ReadinessKeys /\ report.value = (report.key \in report.table.ready)
  \/ report.key = "__bulk_revoke__" /\ report.value = FALSE

ReportsOf(tab) ==
  {report \in [key: ReadinessKeys \cup {"__bulk_revoke__"}, value: BOOLEAN, table: {tab}] :
     SaysWhatItCarries(report)}

WholeReports == UNION {ReportsOf(tab) : tab \in WholeTables}

WholeTransactions ==
  {[tx EXCEPT !.readiness = Report("__snapshot__", Pending(tab) = {}, tab)] :
     tx \in Transactions, tab \in WholeTables}

\* A coordinator told any whole table by anybody at any moment.
Coordinator == INSTANCE StartupCoordinator WITH
  ReadinessReports <- WholeReports,
  Transactions <- WholeTransactions

-----------------------------------------------------------------------------
(* Properties.                                                             *)

Mirror == runtime.readiness_table

\* Every variable holds a value of its type, and what a thread has in hand, a
\* report or a commit's copy, is the table as it once was: no writer reports a
\* part of it, or a state that it went through inside the lock.
PubTypeOK ==
  /\ TypeOK
  /\ table \in Table
  /\ seen \subseteq Table
  /\ publishing \in [Publishers -> ReadinessReport \cup {None}]
  /\ copied \in [Callers -> Table \cup {None}]
  /\ overtaken \in BOOLEAN
  /\ \A p \in Publishers : publishing[p] # None => publishing[p].table \in seen
  /\ \A c \in Callers : copied[c] # None => copied[c] \in seen

\* On the keys that every table lists, the coordinator's copy is what really
\* was in force at one moment, never a mixture of several: publications carry
\* whole tables, so late, lost and reordered ones replace each other as wholes,
\* even a commit's old copy.  A key registered at run time is outside the promise:
\* an older table does not list it and leaves its newer value standing.
MirrorWasInForce ==
  \/ Mirror = [known |-> {}, ready |-> {}]
  \/ \E past \in seen : Mirror.ready \cap KEYS = past.ready \cap KEYS

\* Whatever several publishers and commits do one after the other, the
\* coordinator's copy catches up with the table: at rest both hold the same keys
\* for true, unless the table changed over a report or a copy under way, or a
\* change was not reported (reset, an exception of record_readiness).
MirrorCatchesUp ==
  ~overtaken /\ (\A p \in Publishers : publishing[p] = None) =>
    Mirror.ready = table.ready

\* What is left of "single source of truth": with no report under way, dispatch
\* over a table that is not all ready takes an overtaken report or copy.
DispatchHonoursKeys ==
  /\ ~overtaken
  /\ \A p \in Publishers : publishing[p] = None
  /\ DispatchEnabled("LIVE_ACTIVE", TRUE)
  => KEYS \subseteq table.ready

\* Publishers and commits, however they interleave, lose and overtake reports,
\* do to the coordinator only what its own record_readiness and transactions do
\* for whole tables: every step is one of the coordinator's, or none.  (The
\* stutter comes first so that TLC need not search Next for it.)
PublicationIsEvidence == [][UNCHANGED vars \/ Coordinator!Next]_vars

\* With one publisher and no commit in flight, a revoked key does not stay
\* true in the coordinator unless it is marked ready again.
RevocationDelivered ==
  \A key \in ReadinessKeys :
    key \notin table.ready ~> key \notin Mirror.ready \/ key \in table.ready

\* "Single source of truth for startup readiness" (readiness_table.py): with
\* no report and no copy under way, the coordinator does not report dispatch
\* while the table has revoked a key.  A commit that copied the table before
\* the revocation restores the old table, and its activation request accepts
\* the epoch the revocation advanced.
DispatchHonoursTable ==
  /\ \A p \in Publishers : publishing[p] = None
  /\ \A c \in Callers : copied[c] = None
  /\ DispatchEnabled("LIVE_ACTIVE", TRUE)
  => Pending(table) = {}
=============================================================================
