-------------------------- MODULE CoordinatorClaims --------------------------
(***************************************************************************)
(* What the repository's documentation and comments say of the startup     *)
(* coordinator and the code does not keep: one property per claim, each    *)
(* with the run that refutes it.                                           *)
(***************************************************************************)
EXTENDS StartupCoordinator

\* A trader in LIVE_ACTIVE that asks now is told to dispatch.
LiveDispatch == DispatchEnabled("LIVE_ACTIVE", TRUE)

\* I_SC_2 and the GLOBAL_EPOCH contract of the module docstring: a change of
\* authority, nonce or dispatch health revokes the standing commit.
\* record_threads_launched leaves the live zone, and there the record_*
\* methods store the change without the bump.
SignalChangeRevokes ==
  [][SignalsChanged /\ runtime.commit_latch => ~runtime'.commit_latch]_vars

\* FailSafeTier.HALT and SHUTDOWN: trading is stopped until an operator
\* intervenes, or for good.  A commit already past its proof overwrites the
\* fail-safe state with DISPATCH_ENABLED.
FailSafeHolds ==
  [][runtime.coordinator_state \in {"FAIL_SAFE_HALT", "FAIL_SAFE_SHUTDOWN"}
     => ~LiveDispatch']_vars
=============================================================================
