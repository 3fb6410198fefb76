----------------------- MODULE MCReadinessPublication -----------------------
(* Inputs of the ReadinessPublication runs.                                *)
EXTENDS ReadinessPublication, MCStartupCoordinator

MCRevocations == {{"bootstrap_ready", "execution_ready"}}
\* A key that no list registers at import.
ThreeKeys == MCKeys \cup {"position_sync_ready"}

\* Bound on the number of different tables in one behaviour.
MaxTables == 3
FewTables == Cardinality(seen) <= MaxTables

\* After boot: every key was marked ready and reported.
BootedPubInit ==
  /\ BootedInit
  /\ table = AllReady
  /\ publishing = [p \in Publishers |-> None]
  /\ copied = [c \in Callers |-> None]
  /\ seen = {table}
  /\ overtaken = FALSE

BootedPubSpec == BootedPubInit /\ [][PubNext]_allVars
=============================================================================
