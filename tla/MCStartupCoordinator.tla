------------------------ MODULE MCStartupCoordinator ------------------------
(* Inputs of the StartupCoordinator runs.                                  *)
EXTENDS CoordinatorClaims, FiniteSets

CONSTANT b1, s1

\* The keys the readiness table registers at import.
MCKeys == {"bootstrap_ready", "execution_ready"}
AllReady == [known |-> MCKeys, ready |-> MCKeys]
HalfReady == [known |-> MCKeys, ready |-> {"bootstrap_ready"}]

ReadyReport == [key |-> "bootstrap_ready", value |-> TRUE, table |-> AllReady]
RevokeReport == [key |-> "__bulk_revoke__", value |-> FALSE, table |-> HalfReady]

Running == [state |-> "RUNNING", hydrated |-> TRUE, balance |-> b1, stale |-> FALSE]
Stale == [Running EXCEPT !.stale = TRUE]

MCBalances == {b1}
MCStatuses == {s1}

HealthyTx ==
  [bootstrap_state |-> "RUNNING_SUPERVISED", capital |-> Running,
   readiness |-> [ReadyReport EXCEPT !.key = "__snapshot__"],
   kill_switch_active |-> FALSE,
   authority |-> [ready |-> TRUE, status |-> s1],
   nonce_ready |-> TRUE, dispatch_health_ready |-> TRUE,
   global_gate_ready |-> TRUE, activation_requested |-> TRUE,
   trading_state |-> "LIVE_PENDING_CONFIRMATION", activation_intent |-> TRUE]

LiveStates == {"LIVE_PENDING_CONFIRMATION", "LIVE_ACTIVE"}
HealthyOnly == {HealthyTx}
StaleOnly == {Stale}
RevokeOnly == {RevokeReport}
ClampedCounts == {-1, 1}
AuthorityOff == {[ready |-> FALSE, status |-> s1]}

-----------------------------------------------------------------------------
(* A start after boot, so that MaxEpoch counts invalidations of a running  *)
(* bot: the evidence of a healthy startup, recorded in the order in which  *)
(* bot.py records it, up to the supervised threads.                        *)
BootedRuntime ==
  LET r1 == CapitalStateRecorded(InitRuntime, Running)
      r2 == ReadinessRecorded(r1, ReadyReport)
      r3 == AuthorityRecorded(r2, [ready |-> TRUE, status |-> s1])
      r4 == NonceStatusRecorded(r3, TRUE)
      r5 == DispatchHealthRecorded(r4, TRUE)
      r6 == ThreadsLaunchedRecorded(r5, 1)
  IN  GlobalGateRecorded(BootstrapStateRecorded(r6, "RUNNING_SUPERVISED"), TRUE)

BootedInit ==
  /\ runtime = BootedRuntime
  /\ pc = [c \in Callers |-> "idle"]
  /\ held = [c \in Callers |-> None]

BootedSpec == BootedInit /\ [][Next]_vars

\* Bound on the pieces of evidence that are bad at the same time.
MaxFaults == 1

Faults ==
  {f \in {<<"capital", runtime.capital.stale>>,
         <<"readiness", Pending(runtime.readiness_table) # {}>>,
         <<"gate", ~runtime.global_gate_ready>>,
         <<"authority", ~runtime.authority_ready>>,
         <<"nonce", ~runtime.nonce_ready>>,
         <<"health", ~runtime.dispatch_health_ready>>,
         <<"kill", runtime.kill_switch_active>>,
         <<"bootstrap", runtime.bootstrap_state # "RUNNING_SUPERVISED">>,
         <<"threads", runtime.threads_launched = 0>>} : f[2]}

FewFaults == Cardinality(Faults) <= MaxFaults
=============================================================================
