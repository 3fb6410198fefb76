# NIJA in TLA+

NIJA is a crypto-currency trading bot: one Python process, many threads, several
state machines that must all agree before an order may leave the process. This
directory specifies the part that decides *whether the bot may dispatch orders*,
*which container may issue the nonces they are signed with*, and *how a position is bought and sold*,
model-checks it with TLC and proves its main safety properties with TLAPS.

Contents: [inventory](#1-inventory), [plan](#2-plan),
[modules](#3-modules-and-their-correspondence-to-the-code), [runs](#4-what-the-runs-check),
[divergences](#5-where-code-and-documentation-disagree), [proofs](#6-what-is-proved),
[limits](#7-what-is-not-modelled).

## 1. Inventory

The repository names eight machines itself, in `bot/formal_state_machine_spec.py` and
`FORMAL_STATE_MACHINE_SPEC.md`; around them stand the sources of evidence they read.

| Component | State | Operations | Talks to | What makes it correct |
|---|---|---|---|---|
| **StartupCoordinator** `bot/startup_coordinator.py` | one `_RuntimeState` record under a re-entrant lock: coordinator and bootstrap state, capital, readiness table, authority / nonce / dispatch-health signals, epochs, commit latch, runtime authority state, cached reconcile inputs | 13 `record_*` methods, `build_snapshot`, `evaluate_activation`, `apply_bootstrap_transaction`, `finalize_activation_commit`, `force_activate_bypass` | everything below records into it; every order gate reads it | dispatch is reported only over a standing commit with all evidence in place; every lost signal revokes the commit |
| **Readiness table** `bot/readiness_table.py` | `_TABLE` of Booleans under its own lock, version | `mark_ready`, `revoke_ready`, `revoke_many`, `mark_not_applicable`, `reset` | publishes whole tables to the coordinator after releasing its lock | the coordinator's copy is a real table and catches up |
| **TradingStateMachine** `bot/trading_state_machine.py` | OFF / DRY_RUN / LIVE_PENDING_CONFIRMATION / LIVE_ACTIVE / EMERGENCY_STOP, execution flags, persisted file | `transition_to`, `commit_activation`, `_load_state`, auto-activation | coordinator (transaction, then commit), kill switch, brokers | a live machine has its authority; only a look that raises lets an activation past a standing stop; a restart never resumes live by itself |
| ExecutionAuthorityConvergenceFSM (same file, 994-1121) | convergence phase, streaks | observe, reset | trading state machine | execution authority only after convergence |
| **BootstrapStateMachine** `bot/bootstrap_state_machine.py` | 20 boot states, retry count, ownership | `transition`, `advance_to_capital_ready`, `finalize_boot`, retry | `record_bootstrap_state` | the flags that gate orders say exactly that the boot is supervised; no strategy on capital of an old connection; a requested restart is final |
| CapitalBootstrap / CapitalRuntime FSMs `bot/capital_flow_state_machine.py` | capital readiness, refresh in flight | refresh, evaluate | `record_capital_state` | no stale or unknown balance is called ready |
| NonceFSM `bot/nonce_fsm.py` | nonce, NORMAL / RECOVERING / PROBING / ..., probe window | `next_nonce`, `record_error`, `probe_and_resync`, watchdog | its tests alone; the nonces in use are those of the lease | not modelled |
| **ExecutionStateController** `bot/execution_state_controller.py` | per order a retry and a back-off counter | `submit` | the market order of an entry, halt callbacks | bounded retries, hence a bounded number of fills that nobody recorded |
| **Writer lock** (Redis) `bot/entrypoint_writer_authority.py` | lock value, metadata, fencing counter; per process role and token | elect, renew, find lost, re-elect, evict a stale holder, release | bot_main, every lease | an old writer never comes back |
| **Nonce lease** (Redis) `bot/distributed_nonce_manager.py` | per API key owner, version and nonce; version counter; per process remembered leases and lease heartbeats, without a lock | acquire, renew, take over, release, `next_nonce`, resync, reset | writer lock, exchange | nonces increase; a superseded owner never issues again |
| Heartbeat monitor, generation tracker `bot/authority_heartbeat.py`, `bot/writer_generation_tracker.py` | failure counts | lock down, request EMERGENCY_STOP | `record_authority`, `revoke_many`, trading state machine | inputs of the modelled parts |
| **Kill switch** `bot/kill_switch.py` (`bot/exchange_kill_switch.py` is not modelled) | active flag, file, lock | activate, deactivate, is_active | trading state machine, under its lock; sampled by `commit_activation` | it can be cleared; only an unanswered look passes a standing stop |
| **Order path: entries** `bot/execution_engine.py` | the orders of one call of `execute_entry`, limit orders the exchange accepted and has not filled | market order, limit order with a market order to fall back on, refusal of a bad fill, record | ExecutionStateController, broker | what is bought is recorded or accounted for |
| **Order path: exits** `bot/execution_engine.py`, `bot/execution_pipeline.py` | `positions`, `closing_positions`, `active_exit_orders`, each under its own lock; orders whose acknowledgement timed out | `execute_exit`, `check_stepped_profit_exits`, `close_position`, the pipeline's answer | profit monitors and the strategy call it from several threads; broker | one exit of a symbol at a time; record and account agree; no mark blocks a symbol for ever |
| Gates of an entry; capital authority, brokers, main loop | - | - | read coordinator snapshots | listed in `PROJECT.json` with the reason why they are not modelled |
| Strategies, indicators, AI modules, web, mobile, deployment | - | - | - | no protocol; not modelled |
| `*_patch.py` (several hundred) | replace functions at import time | some call `finalize_activation_commit` or `revoke_ready` | coordinator, table | they are why the commit has more than one concurrent caller |

**How they interact.** Subsystems push evidence into the coordinator (each `record_*` is one
lock window). Readers call `build_snapshot`, which inside the *live zone* of coordinator states
re-derives the runtime authority state (`BOOT ... AUTHORIZED, EXECUTING, DEGRADED`);
`dispatch_enabled` means EXECUTING. `commit_activation` copies the readiness table, runs its own
gates, records nine pieces of evidence in one transaction, and then calls
`finalize_activation_commit`, which takes a fresh snapshot and its proof in one lock window and
sets the commit latch in another. A change of authority, nonce, dispatch health, a lost global
gate or readiness key advances `global_epoch` and drops the latch; a new activation request must
adopt the new epoch.

**Hard behaviours.** Check-then-act across two lock windows; the edge-trigger dedup cache of the
reconcile; nine dependent writes in one transaction; publications outside the lock that made
them; a coordinator state written from an old snapshot; a zone in which changes are not fenced;
an order that is repeated, or given up, although the exchange filled it.
`PROJECT.json` lists each hazard at its line, with the properties about it.

## 2. Plan

Done, in this order: `CoordinatorRuntime` (the record and every operation as an operator),
`StartupCoordinator` (threads and lock windows), `ReadinessPublication` (composition with the
readiness table), `CoordinatorClaims` (documentation claims); `WriterLock` and `NonceLease` (the
latter composes both) with the abstract specification `FencedNonce`; `BootstrapStateMachine`;
`KillSwitch` and `TradingStateMachine` (the latter composes both); `PositionExit`; a proof module
for each family; `OrderEntry`, which `PositionExit` composes with its exits; the composition of
coordinator and readiness table shown to implement the coordinator alone.

Left out, in order of worth:

1. The trading state machine composed with the coordinator: a `transition_to` that raises after the
   coordinator has committed (each side alone is covered: `LiveHasAuthority` and `DispatchSafe`), and
   the liveness of a commit under fair threads (the heartbeat's changed status dictionary is the case
   to watch; that evaluation alone never leaves DEGRADED_RETRY is `EvaluationKeepsDegraded`).
2. The convergence FSM and the capital FSMs, whose verdicts are inputs of the modelled parts.

`NonceFSM` and the `GlobalState` cache are used by tests only and stay out.

Bounds: two or three threads or processes, one or two values per datum, one fault at a time.

## 3. Modules and their correspondence to the code

**`CoordinatorRuntime`** - no variables. `Runtime` is the type of `_RuntimeState`, `InitRuntime` its
defaults. `XRecorded(rt, ...)` is what `record_x` does to the record; `EpochBumped` is
`global_epoch += 1` with `_revoke_activation_commit_locked`; `Invalidated` adds the guard
`_reconcile_permitted_locked`. `PrereqsReady`, `AuthorityConverged`, `Executing`,
`SevereDegradation` and `TargetAuthority` are the Booleans and the branch chain of
`_reconcile_runtime_authority_locked`; `Reconcile` adds the transition table and the dedup cache.
`SnapshotBuilt` is the effect of `build_snapshot` on the record, `Snapshot` its result;
`ProofPassed` is `evaluate_system_readiness_proof`; `ActivationEvaluated`, `AlreadyCommitted` and
`ActivationCommitted` are `evaluate_activation` and the second half of the commit.
`TransactionEvidence` nests the nine `record_*` calls in the code's order.

Abstractions:

- `event_version`, the history, reason and detail texts and the stored proof dictionaries are
  dropped: no branch reads them. `_last_bootstrap_state_published` only decides whether an event
  is published.
- `last_committed_snapshot_version` is compared with zero only, except as a member of the cache
  key. `commit_latch` is that comparison; when a commit replaces a standing one, the choice
  `same_version` covers both outcomes: the number stays (the cached key can still match) or it
  changes (it cannot, and the cached key is forgotten). A number that changes and later returns to
  a former value is left out; `event_version` only grows.
- `authority_status`, the balance and capital/bootstrap/trading names range over given sets.
- A proof fingerprint contains all gate results; of a proof that passed, only the informational
  gate can differ, so the fingerprint keeps that one.

**`StartupCoordinator`** - variables `runtime`, `pc`, `held`. One action per `record_*` method;
`PollAuthority` for readers that build a snapshot and drop it; `RecordAuthorityAndEvaluate`.
`Callers` are threads that carry a snapshot from one lock window to the next, `pc[c]` names the
next window: `TakeSnapshot`, `EvaluateActivation` (health check); `ApplyBootstrapTransaction`,
`FinalizeSnapshot`, `FinalizeCommit` (`commit_activation`; the repair patches enter at
`TakeSnapshot`); `ForceActivateBypass` ... `ForceSnapshot`. Between two windows any other thread
may act. A raised exception returns the caller to "idle". All inputs are constants.

**`ReadinessPublication`** - adds `table` (`_TABLE`), `publishing` (a publisher between the table's
lock and `record_readiness`), `copied` (the table `commit_activation` holds between its copy and its
transaction), and two history variables: `seen`, the tables that were in force, and `overtaken`,
which is set when the table changes while a report or a copy of it is under way, or changes without
a report. A report whose `record_readiness` raises is lost
(`LoseReport`). `Coordinator` is `StartupCoordinator` with whole tables for its reports;
`PublicationIsEvidence` says that the composition implements it: publishers that lose and overtake
each other's reports do nothing to the coordinator that its own operations do not.

**`CoordinatorClaims`** - claims of the documentation that the code does not keep.

**`WriterLock`** - Redis: `lock` (`nija:writer_lock`, token and owner), `meta` (whether the metadata key
exists), `fence` (the counter tokens are drawn from). Per process: `boot` (each start draws a new
owner identity), `role`, `token`, `held` (the holder a refused acquisition reported). One action per
Redis script or command: `Acquire` and `Refused` (`acquire_once`), `Activate`, `Inspect` and `Reclaim`
(`_check_stale_lock`, `_force_reclaim_stale_lock`, two round trips), `Renew` and `FindLost`
(`_heartbeat_tick`, with the branch that recreates an absent lock from the fencing counter),
`GraceExpired`, `ReleaseForReelection`, `Reelect`, `Shutdown`, `Crash`. An acquisition whose reply is lost
leaves a lock that its owner does not know of. A loss ends the process, but for an absent lock with a
later token: from it ("recovering") `production_readiness_v39_patch.py` elects the same process again,
under the same owner identity, and only the next acquisition clears the loss. A re-election that cannot
prove its new lock releases it and tries again; here that is a further loss, or the end of the process.
Time is left out: a TTL may run out at any moment and existing metadata may be judged stale at any moment, so the result holds for every
TTL, threshold and pause. `Authority(p)` is the proof `assert_distributed_writer_authority` asks for.

**`NonceLease`** - extends `WriterLock`. `lease`, `generation`, `nonce` are the Redis keys of
`_PerKeyRedisBackend`; `prev` says whether `_lease_by_key` has an entry (the version in it decides
nothing, see below), `beat` is the registered heartbeat, `call` the place of each thread inside
`_ensure_writer_lease` / `next_nonce` / `release_writer_lease`; `issued` is history. Every Redis round
trip, and every access to the memory that the threads share without a lock, is a step. A call: assert
authority (`BeginCall`), read the memory (`ReadHeld`, a backoff may follow), lease script
(`RunLeaseScript`), second assertion (`Reassert`), forced takeover (`TakeOver`), write the memory
(`StoreLease`), start the heartbeat unless one is registered (`Register`, only when `ReadHeld` found
nothing), fenced nonce script (`Issue` / `Reject`). A release: `BeginRelease` (the shutdown hook of
`bot.py`, `_drop_nonce_authority` of `broker_integration.py`, or the heartbeat that lost its authority),
`ReleaseScript`, `PopLease`, `StopBeat`. Each script may raise, without having run, or after it has run with
its reply lost: a grant then raises before anything is stored. A heartbeat thread that released returns
and, if it could not deregister itself, stays registered, finished; a tick under way when the
heartbeat is deregistered is its last (`stopped`). History: `loose`, the containers and keys for which a
release overlapped another call of the container, or a grant's reply was lost while no heartbeat was
registered, until a heartbeat and the memory agree again.
Of Redis data loss, an expiry of the lease and the eviction of its version key are modelled, the case
the scripts provide for; the counter is never lost. The branches in which a granting script names
another owner are unreachable and dropped, and with them every use of the remembered version. Two calls
that find no heartbeat at once start two; the surplus one, which nothing can stop any more, renews and
releases as an API thread may at any time, and is left out.

**`FencedNonce`** - the promise: `last`, `epoch`, `issuer` per key, `Issue` and `Rotate`. `NonceLease`
implements it with the refinement mapping `Abstract` (`NonceIsFenced == Abstract!Spec`).

**`BootstrapStateMachine`** - `state`, `owner`, `bootComplete`, `execution`, `latched`, `retries` are the
fields of the class; `entered` is the part of `_history` since the platform was last connected. One
action per method (`Transition`, `ClaimOwnership`, `ResetForRetry`, `ForceTransitionFromRetry`,
`FinalizeBoot`); the fast forward `advance_to_capital_ready` takes the lock in every iteration and is
split there: `BeginAdvance`, `BarrierFails` or `BorrowOwnership`, `Look` and `Drive` per target,
`RestoreOwner`; the history `overlapped` says that two of them were under way at once. A fresh
startup attempt of `bot.py` that finds the machine armed resets it and clears
the counter in separate windows (`FindStale`, `ResetStale`, `ZeroRetries`). The hydration barrier and
the startup authority are nondeterministic: a refused call is a stutter. `RetryBound` bounds the
retry counter in guards (`CountsRetry`).

**`KillSwitch`** - `active`, `file`, `ksLock`. Writing or removing the file may fail; an operator
may create or delete it at any time; `Probe` is `is_active`, which lets the file activate the
switch.

**`TradingStateMachine`** - extends `KillSwitch`. `state`, `committed`, `granted`
(`_execution_authority`, `_can_dispatch_trades` and the negation of `_core_loop_owns_execution`,
which are always assigned together), `commitLock`; `call[t]` is the method a thread is in and the
lock window it reaches next, `stopped[t]` a history variable: the switch has been engaged since the
call began. A window under `TradingStateMachine._lock` is one step; so the consistency check of a
reader in EMERGENCY_STOP is three steps (`Look`, `AskSwitch`, `AutoClear`), `activate_live_trading`
three (`BeginLive`, `SyncLive`, `EnterState` then `GrantFlags`), and `commit_activation` up to nine
(`BeginCommit`, the forced route `ForceProbe` / `ForceLook` / `ForceLive`, arming `SeeOff` / `Arm`,
`Gate`, `SampleSwitch`, `Prove`, `EnterState` or `Undo`). `BeginRequest` stands for the components
that call `transition_to` from outside (authority heartbeat, failure modes, profitability monitor,
generation tracker). `Waits` names the places whose window needs the switch's lock. Each of the three looks of an activation at the switch (`BeginLive`, `ForceProbe`,
`SampleSwitch`) may raise, and the code swallows that and goes on as if the switch were clear
(`FailsOpen`; a reader's probe that raises clears nothing); `blind` remembers such a look at an engaged
switch. The gates and the coordinator's verdict are choices. `Restart` starts in any
state `_load_state` and the startup override can produce from any file, so the order in which files
were persisted needs no variable. Histories: `stopped` (the switch has been engaged since a call
began) and `halted` (`activate` has told the machine, and nobody entitled to it has lifted the stop:
`Delivers`, `Lifts`). No `LIVE_ACTIVE` request comes from outside in this process: the
command-line audit tool that makes one runs in a process of its own.

**`OrderEntry`** - the orders of one call of `execute_entry`, as operators for `PositionExit`. A market
order goes through the controller (`Submit("submitting")`): it is filled (`Bought`), or its failure is
sorted into a category and retried, backed off or given up (`SubmitFails` with `Retry`, `BackOff`,
`GiveUp`); both counters belong to the controller and are shared by categories whose limits differ. A
limit order goes to the broker, an open one passes for a purchase (`Accepted`, filled at any later
moment by `RestingFills`), and one that fails is followed by a market order (`LimitFails`,
`FallbackFails`). A failed order may have been filled all the same, unless the exchange refused it
for its nonce or a rate limit (`Doubtful`, external); it is counted as bought at once, also when its
worker fills it later. `Discard` and `CloseBadEntry` are the ways in which a filled order ends
without a record. `held` is what the account holds, `resting` the open limit orders; history:
`sunk`, the units bought without a record, and `lost`, the orders of the latest call that bought them.

**`PositionExit`** - extends `OrderEntry` by the record and the exits of one symbol. `tracked` is
its entry in `positions` (which of the position objects, numbered by the calls of `execute_entry` so
far, `opened`), `remaining` the record of each object in units, `closing` and
`active` the symbol's membership in the two sets of marks, `late` an order to sell that was reported
as failed and may still fill. `exit[t]` is the call of
`execute_exit` a thread is in: the lock window it reaches next, the position it fetched, the size of
its order. The windows are the code's: `CheckClosing`, `CheckActive`, `FindPosition`, `ReadPosition`
(with the dust gate and the `KeyError` of a position that went away), `MarkClosing`, `MarkActive`,
the answer of the pipeline (`Fill`, `Refuse`, `AckTimeout`, `Raise`, and `RaiseFilled` for what raises
between a filled order and its record), `Apply`
(`remaining_size *= 1 - size_pct`), `Flush` (`close_position`), `DropClosing` and `DropActive`, which the normal end and
both exception handlers go through. `TakeProfit` is `check_stepped_profit_exits`, which cuts the
record before it asks for the exit; `Enter` is the beginning of `execute_entry`, `RecordEntry` the
window in which it writes its position down; `SettleLate` the exchange. One entry at a time, and only
without a position. History: `crossed` (two exits worked at once, or one removed the other's closing mark),
`adrift` (units cut from the record without a sale), `unreported` (units sold by orders reported as
failed, or whose answer raised). A level of the ladder is half of the position, every other exit all of it.

**`MC...`** - model values and inputs of the runs.
**`CoordinatorRuntimeProofs`, `StartupCoordinatorProofs`, `StartupCoordinatorFenceProofs`** - lemmas
about the operators, the inductive invariant with its consequences, and the fence.
**`ReadinessPublicationProofs`** - the composition with the readiness table, on top of these.
**`NonceLeaseProofs`, `BootstrapStateMachineProofs`, `TradingStateMachineProofs`,
`PositionExitProofs`** - the inductive invariant of each of the other families and its consequences,
the refinement in the first.

Definitions with a comment "Mutant:" are deliberately broken variants of the definition that
follows them; each property is known to fail when the variant takes its place.

## 4. What the runs check

| Run | Question | Instance |
|---|---|---|
| `commit` | `AuthorizedMeansProven`, `EpochRevokesLatch`, `InvalidationFenced`, `FinalizeLeavesLatch`: do two commits and a stream of signal changes, interleaved by lock window, ever leave a latch over a changed signal, an old epoch, or a success over an open latch? | 2 callers, authority/nonce/dispatch-health changes, request withdrawn |
| `evidence` | `TypeOK`, `DispatchSafe`, `RegressionRevokes`, `EvaluationKeepsDegraded`: is dispatch ever reported without every piece of evidence, from the cache included, and can a degraded coordinator evaluate its way out? | 1 caller; kill switch, HALT, stale capital, gate and readiness loss, thread counts -1 and 1, failed bootstrap |
| `mixture` | `PubTypeOK`, `MirrorWasInForce`, `MirrorCatchesUp`, `DispatchHonoursKeys`, `PublicationIsEvidence`: can late and reordered publications mix two tables, when does the coordinator dispatch on an outdated one, and is a step of the composition one of the coordinator's own? | 2 publishers, 1 commit, `reset` allowed, lost reports, a key registered at run time |
| `delivery` | `RevocationDelivered`: does a revocation arrive? | 1 publisher, a key no list registers, fairness |
| `lease` | `TypeOK`, `LockIsNewest`, `VersionsAdvance`, `NonceIsFenced`: can an expired, evicted, crashed or superseded container issue a nonce again, or a lock come back? | 2 containers, 1 API key, an API thread each |
| `handover` | `LeaseIsKept`, `SupersededLetGo`: can a container own or remember a lease without a heartbeat, and does a superseded one lose it? | 2 containers, 1 API key, an API thread and the heartbeat of one, fairness |
| `boot` | `TypeOK`, `AuthorityIsSupervision`, `LatchMatchesState`, `CountOnlyWhileFailing`, `ArmedAfterPreparation`, `LoanIsReturned`, `TerminalStays`: do forced moves, resets and interrupted walks keep flags, latch, counter and state together, and who owns the machine after a walk? | 1 driver, 1 capital callback, 1 supervisor |
| `stop` | `TypeOK`, `LiveHasAuthority`, `SwitchSeenClear`, `StopStands`, `OnlyDeactivateHangs`: can an activation or a reader slip past a standing stop or undo one that was delivered, leave a live machine without authority, or wait for ever on a lock? | 3 threads, outside requests for OFF, DRY_RUN and EMERGENCY_STOP |
| `exit` | `TypeOK`, `OneExitAtATime`, `MarksHaveOwner`, `Accounted`, `ClosesWhatItSold`, `LostBounded`, `MarkCleared`: when can one symbol be sold twice, what do record and account agree on, how often can one entry buy, and does every mark go away? | 2 threads, 2 entries, one retry per category, fairness |
| `claim_I_SC_2`, `claim_halt`, `claim_dispatch` | see section 5 | small |

**Start.** `delivery`, `boot`, `stop` and `exit` start from `Init`. `handover` starts
with one container elected and the other down, the start of a rolling deployment, and `lease` with the
second elected after the lock of the first expired, before the first notices, its end; election and
expiry reach both from `Init`. The coordinator's others start from `BootedRuntime`, the record after the
evidence of a healthy boot has been recorded in the order in which `bot.py` records it (an operator
expression over the `record_*` operators, no invented state): from `Init` the same bounds spend the
whole state space on boot and reach no commit. The proofs cover `Init`.

**Bounds.** `MaxEpoch` bounds `global_epoch`: 1 means one invalidation after boot (in
`claim_dispatch` 2), enough for commit - revocation - new request - new commit. `MaxFaults` with the
constraint `FewFaults` (runs `commit` and `evidence`): states in which two pieces of evidence are
bad at once are reached and checked, but not extended. Two callers are enough for one to commit, or
be revoked, between the windows of another; a third adds only a third copy of the same steps. Two
readiness keys distinguish a partial from a total loss; the third, unregistered one is the dynamic
key `position_sync_ready`, which `mixture` starts without. `MaxTables = 3` (run `mixture`, by
constraint) bounds the different tables of one behaviour; three suffice for a stale and a mixed
copy. Values not listed in a cfg do not occur in that run, each kind of evidence occurs in one of
them. These bounds are the reason for the proofs, which
have none of them.

For the lease: `MaxBoots = 1` is one start of each container (a crash is final; the second container
is the successor), `MaxFence` one election each (`handover`) and a re-election after it (`lease`), `MaxGen = 2` a lease and one takeover or
re-acquisition, `MaxNonce = 2` two nonces; `MaxLosses = 1` (run `lease`, by constraint) lets Redis
lose one of lock, metadata and version at a time. `handover` needs no nonces (`MaxNonce = 0`). These
suffice for takeover, eviction, resurrection and a stale call that reaches the fence; restarts of
the same container, more keys and more versions are covered by the proofs. For the bootstrap machine
`RetryBound = 3` is a retry count that has passed several resets; the count guards nothing in the
machine itself. The trading run has no bound but its requests: three threads let a commit, a stop and a reader or
request meet. Requests for LIVE_PENDING_CONFIRMATION, which arming and restarts enter as well, are left to
the proofs, which hold for every set of requests. In `exit` a position is three units (`Size`), so that halves are rounded and a rest
remains; less than two are dust (`DustLimit`); `MaxEntries = 2` is a position and its successor,
enough for an exit to close the wrong one; `MaxLate = 1` and one undecided order at a time let
a timed-out sale of one level, a unit, sell after all, or its answer raise; `OneRetry` lets each category be tried once more, where
the taxonomy has three or four, and `MaxBought = 6` records a position only while what was bought
without a record, what rests and the calls made so far come to at most two positions. That guard does
not stop a call from losing orders: three of one call can be lost, the number `LostBounded` then names. By constraint (`CalmWhenCrossed`)
states in which exits have crossed and a purchase is in doubt are reached and checked, not extended: what
the books promise ends with the crossing, and the other properties do not relate the two. The proofs
need none of these.

**Deadlock** is checked in every run but `boot`, where SHUTDOWN ends the machine, and `exit`, which
ends when its entries are used up.

**Fairness.** `handover` assumes that a call under way and a running lease heartbeat go on (they are
threads that loop with a timeout), and that the TTL of a lease that nothing renews runs out; no
election, API call, crash or loss is forced. `exit` assumes that a thread in `execute_exit` takes
its next step: its locks are held for a moment only, and the pipeline answers at the latest when the
acknowledgement times out; no entry, request for an exit or settlement of a late order is forced. In
the coordinator family only `delivery` states any: weak fairness of `Publish`. The code justifies
it, since a publisher that has left the table's lock calls `record_readiness` next, whose lock no
thread holds while waiting for another. Exceptions in that call, which the table
swallows, are possible in `mixture` only (`LoseReport`).

**What `DispatchSafe` does not say.** `DispatchEnabled(ts, intent)` is what a snapshot built *now*
would report. A thread that acts on an earlier snapshot acts on the past; the order path that does so
is not modelled.

## 5. Where code and documentation disagree

With a run each (the counterexample is short in all three):

- `claim_I_SC_2` / `SignalChangeRevokes`: `record_threads_launched` leaves the live zone, in which
  alone signal changes are fenced. Latch and epoch survive a lost nonce lease.
- `claim_halt` / `FailSafeHolds`: a commit past its proof overwrites `FAIL_SAFE_HALT` with
  `DISPATCH_ENABLED`; dispatch is reported although trading was halted.
- `claim_dispatch` / `DispatchHonoursTable`: a commit delivers the readiness table it copied earlier,
  over a revocation recorded since; its activation request adopts the epoch the revocation advanced.

Seen while modelling, without a run of their own:

- I_SC_1 (dispatch only from LIVE_COMMITTED or DISPATCH_ENABLED): a repeated
  `record_bootstrap_state("RUNNING_SUPERVISED")` rewinds the coordinator state under a standing latch,
  and dispatch stays reported.
- I_SC_4 (DISPATCH_ENABLED has a current activation epoch): an epoch bump leaves the state alone.
- X6 (commit at the current epoch): the second window of the commit does not compare epochs. The
  latch it sets is harmless for dispatch (`DispatchSafe` holds).
- The dedup comment ("guaranteed to be identical"): the result also depends on the current authority
  state, which the key omits. A DEGRADED caused by leaving EXECUTING stays cached.
- `FailSafeTier.WARN` ("trading continues"): the reconcile degrades on WARN like on the other tiers.
- `authority_heartbeat.py` records status `{"source": ...}` and `commit_activation` records
  `{"current_state": ...}`; `record_authority` counts a changed dictionary as a changed authority, so
  each revokes the commit of the other although authority was ready throughout. The heartbeat does so
  on every tick (line 837), under a comment that expects it to speed the convergence up. How long a
  commit then stands is not modelled.
- Two publishers can leave the coordinator with an older table than the readiness table, and dispatch
  then stands on it; `MirrorCatchesUp` and `DispatchHonoursKeys` say that it takes an overtaken report or copy.
- The canonical writer proves its authority before the takeover script, not in it: a writer that
  loses the lock in between still evicts its successor's lease. The fence keeps nonces ordered
  (`NonceIsFenced`), and its next heartbeat gives the lease up again (`SupersededLetGo`), but the
  doc of the handoff ("canonical_writer_verified=true") is about the past.
- A lease heartbeat that ended without releasing stays registered (`distributed_nonce_manager.py:791`):
  after a re-election in the same process no heartbeat is started for that key.
- `release_writer_lease` runs its script (`distributed_nonce_manager.py:1312`), forgets the lease (1318)
  and deregisters the heartbeat (1319) without a lock. A call that read the lease as held before (1058)
  takes it anew and registers no heartbeat (1213); one that acquires in between has its entry or its
  heartbeat removed. A lease script that granted but whose reply is lost raises at 1065 or 1074, and the
  lease lives on in Redis unremembered. `LeaseIsKept` says that these are the only ways to a lease
  without a heartbeat, and that they end with the next registration.
- Every look of an activation at the kill switch fails open (`trading_state_machine.py:1568`, 2025, 2419:
  "kill switch check skipped", "could not check kill switch"), unlike the reader's probe, which takes an
  exception for no answer (94). All three import a bare `kill_switch`, where other callers use
  `bot.kill_switch`: the same object where an alias is registered, else a second one with a flag of its
  own. `SwitchSeenClear` says that such a look is the only way past a standing stop; a stop that the
  machine was told of stands all the same (`StopStands`).
- A rejected or raised exit that had been filled is sold without a record: what raises between the answer
  and `remaining_size` (`execution_engine.py:4624`) goes to the handlers of a failed exit.
- Two overlapping fast forwards of the bootstrap machine restore each other as owner; the last
  restoration can leave a finished callback thread as owner (`bootstrap_state_machine.py:970`).
  `LoanIsReturned` says that nothing else does.
- A handler that saw LIVE_ACTIVE and requests OFF later can take EMERGENCY_STOP to OFF under an
  engaged switch (`failure_mode_manager.py:197`); a commit that sampled the switch before it was
  engaged can then go live. `SwitchSeenClear` is stated per call for that reason,
  and `StopStands` lists the request for OFF among the ways to lift a delivered stop.
- `KillSwitch.deactivate` keeps its non-reentrant lock while it reads the trading state machine
  (`kill_switch.py:276`); in EMERGENCY_STOP that read asks the switch, which takes the lock. The
  thread hangs, and with it every later `is_active`, in the very case the method is for ("expected
  to return the trading FSM to OFF", `runtime_killswitch_authority_liveness_patch.py:317`). It is
  the one exception in `OnlyDeactivateHangs`.
- "FIX #1: Atomic position close lock to prevent double-sells" (`execution_engine.py:4445`): the
  check of `closing_positions` (4484) and the mark (4537) are separate lock windows, so two exits
  can pass together and sell the position twice; `bot/tests/test_concurrency_position_closing.py`
  starts the second exit a tenth of a second after the first. `OneExitAtATime` says when it happens.
  An exit whose submission raised discards its marks in both handlers (4884 and after); the second
  time they may be those of another exit.
- `check_stepped_profit_exits` cuts `remaining_size` (5104, 5188) and `execute_exit` multiplies it
  again (4673): the record falls below what the account holds. After profit protection it is zero,
  and the dust gate (4504) refuses the exit that "Exiting remaining position" announces, and every
  later one.
- A failed market order is repeated although it may have been filled
  (`execution_state_controller.py:441`, a network error or an acknowledgement that timed out), so one
  entry may buy several times and record one position. `LostBounded` says how often: the two counters
  are shared by categories, so the bound is a sum over one category of each policy, not a product.
- The handler of `execute_entry` logs "order was NOT submitted to broker"
  (`execution_engine.py:4420`) for every exception, also for those after a submission.
- An open limit order is recorded as a position (`execution_engine.py:3695` asks only whether the order
  failed); an exit may then sell what the account does not hold.
- An order whose acknowledgement timed out is reported as rejected while its worker goes on
  (`execution_pipeline.py:2151`); if it fills, the engine keeps a position on record that is sold.
- A key that the readiness table registers at run time is missing in older tables: an older report
  recorded late leaves the newer value of that key standing, a combination that was never in force.
- `commit_activation` returns True for a machine that went from LIVE_ACTIVE to DRY_RUN
  (`trading_state_machine.py:2305`).

## 6. What is proved

For every value of the constants (callers, threads, containers, keys, inputs, bounds), from `Init`:

| Theorem | Statement |
|---|---|
| `TypeCorrectness` | `Spec => []TypeOK` |
| `DispatchIsSafe` | `Spec => []DispatchSafe` |
| `AuthorizedIsProven` | `Spec => []AuthorizedMeansProven` |
| `EpochRevokes` | `Spec => EpochRevokesLatch` |
| `FinalizeLatches` | `Spec => FinalizeLeavesLatch` |
| `InvalidationIsFenced` | `Spec => InvalidationFenced` |
| `RegressionIsFenced` | `Spec => RegressionRevokes` |
| `DegradedStands` | `Spec => []EvaluationKeepsDegraded` |
| `LockNewest`, `LeaseTypes`, `VersionsOnlyAdvance` | `[]LockIsNewest`, `[]TypeOK`, `[]VersionsAdvance` of `NonceLease` |
| `LeasesAreKept` | `Spec => []LeaseIsKept` |
| `NonceFencing` | `Spec => NonceIsFenced`: `NonceLease` implements `FencedNonce` |
| `BootstrapTypes`, `SupervisionIsAuthority`, `LatchAgrees`, `RetriesEnd`, `PreparedWhenArmed`, `OwnershipIsReturned`, `TerminalIsFinal` | the properties of run `boot` |
| `MachineTypes`, `LiveIsAuthorised`, `StopIsHonoured`, `DeliveredStopStands`, `HangsAreDeactivates` | the properties of run `stop` |
| `ExitTypes`, `NoDoubleSell`, `MarksAreOwned`, `BooksAgree`, `ClosesItsOwn`, `LossIsBounded` | the properties of run `exit` but `MarkCleared` |
| `PublicationTypes`, `NoMixture`, `MirrorFollows`, `DispatchFollowsTable` | the state properties of run `mixture`, of `PubSpec` |
| `PublicationRefinesCoordinator` | `PubSpec => Coordinator!Spec /\ PublicationIsEvidence`: the composition with the readiness table implements the coordinator |
| `DispatchIsSafeUnderPublication`, `RegressionIsFencedUnderPublication` | `DispatchSafe` and `RegressionRevokes` of `PubSpec`: the composition keeps them |

Assumptions: the constants are what their comments say (`CallsAssumption`, `FloorsAssumption`,
`ThreadsAssumption`, `BoundAssumption`, `NoThreadAssumption`, `RequestsAssumption`,
`SizeAssumption`, `RetriesAssumption`, `DustLimitAssumption`, `MaxEntriesAssumption`, `PublicationAssumption`), and for
the coordinator `NoneAssumption` (Python's `None` is neither an input tuple, nor a snapshot, nor a
readiness report) and `CoordinatorAssumption` (the inputs have their Python types).
`ThreadsAssumption` of the bootstrap machine keeps the threads of the capital callback apart from
those that drive or observe the machine. TLC evaluates them on every run.

**The coordinator's inductive invariant.** `DispatchSafe` is not inductive: the reconcile may return
its stored result, so one must know what that result says about the inputs stored with it. `IInv`
adds to the types that (a) a stored AUTHORIZED or EXECUTING agrees with the stored inputs - it is
what these inputs converge to - and (b) the idempotence flag and the latch stand and fall together.
(a) survives every `record_*` because both stored fields are written by the reconcile alone,
together; a commit that renumbers the latch forgets the stored inputs. (b) holds because every bump
goes through `_revoke_activation_commit_locked`. The proof of each step is one lemma per operator in
`CoordinatorRuntimeProofs` (does it preserve the types, the cache fact, the guard fact; does it
advance the epoch only with a dropped latch) and one case per action in `StartupCoordinatorProofs`.
`AuthorizedMeansProven` then compares the two gate lists definition by definition.
`EvaluationKeepsDegraded` needs the same care for the cache: a stored result other than DEGRADED must
not come from a degraded coordinator, or a matching key would return it. So (a) also says that inputs
stored under a degraded coordinator state carry the result DEGRADED.

**The fence.** A single `record_*` call keeps the signals or, in the live zone, advances the epoch
(`Fenced`). For a transaction this is not enough: an earlier call could leave the zone in which a later
one is fenced. One that reports RUNNING_SUPERVISED enters the zone with its first call, and each of the
other calls stays inside (`TransactionFenced`); without that report the claim fails, which is why the
two properties carry it as a condition. Snapshots, evaluation and commit touch nothing the fence
protects (`Steady`).

**The lease.** `LockIsNewest` is inductive with the types of the lock: a process that writes it either
draws the token or finds its own token equal to the fence. The fence of the nonces needs `LeaseInv`: the
lease of another owner than the last issuer is strictly newer than what was issued, also when its
version key is evicted and will be redrawn from the counter. For the refinement, a step that issues must
raise the version last issued under, or keep version and owner; the fence script makes the call's
version the lease's, `LeaseInv` does the rest, and every other step maps to `Rotate` or a stutter.
`LeaseIsKept` has an invariant of its own, `KeepInv`: calls carry a version from grant to return, a
process that is down has nothing, a lease names no later start of a container than its current one, and,
for each container and key (`PairInv`), until one is loose: which places of other calls a release may
find, who has read the memory as empty and so will register, and that memory, lease and heartbeat agree
but for a call on its way from one to the other. The last is what the unlocked steps make delicate: a
call that begins between script and deregistration makes the pair loose, and it stays so until a
registered heartbeat and the memory agree with no release under way.

**The bootstrap machine.** `ArmedAfterPreparation` is inductive because each armed state is entered
only from `CAPITAL_REFRESHING` or another armed state, and each preparation state only from its
predecessor; the invariant states this chain state by state. The other properties follow from the
effects of the four operations that write the state. `LoanIsReturned` is proved with `OneLoan`: until
two walks overlap at most one thread holds the ownership on loan, so what it saved is the owner
before the walk, and no other thread's restoration can bring it back.

**The trading machine.** The places of a call from which it goes on to LIVE_ACTIVE, or clears
EMERGENCY_STOP, without a further look at the switch are exactly those behind a clear answer of
`is_active`, or a look that raised; the invariant says that a call there is not `stopped` or is `blind`,
and that one about to clear EMERGENCY_STOP, which needs an answer, is not `stopped` (`SeenClear`), which
operation each place belongs to (`PlacesOK`) and who holds which lock (`LocksOK`). `LiveHasAuthority` holds
because every window that writes the state to, or keeps it at, LIVE_ACTIVE writes or keeps the flags
with it. `OnlyDeactivateHangs` follows from the last two parts: the switch's lock belongs to an `activate`,
which goes on to enter its state, or to a `deactivate`, which alone can wait for the switch meanwhile.
`StopStands` is inductive with three facts about the flag of the switch (`StopInv`): an `activate`
requests EMERGENCY_STOP and nothing else, a `deactivate` has cleared the flag and keeps the switch's
lock, so that no stop newer than itself exists, and a delivered stop implies the flag. Every other
window that writes the state looks at it again in the window, and finds EMERGENCY_STOP.

**Entries and exits.** None of the five properties is inductive. The invariant says what holds until exits
cross (`crossed`): at most one thread is between the check and the removal of its mark (`Alone`),
its mark stands so that no other passes the check (`Guarded`), what it read of the record is still
so (`OnTracked`, `OrderIsPart`, `SoldOut`), and record and account differ, beyond `adrift` and
`unreported`, by the order of that thread alone (`Books`). Types and the owners of the marks hold
also afterwards. One lemma per action. Of the entry it says that it began, and stays, without a
position (`EntryOK`), so that nobody is engaged in an exit of what it will record, and the books count
what it has bought and not recorded (`Unrecorded`): every step of a purchase changes the account by
exactly what it changes there (`OneOrder`). `LostBounded` holds because a loss in the controller is
followed by one more try or by the end, so that losses never outnumber tries (`LossCounted`), and
each counter is within the limit of some category of its policy (`Tries`), whichever failed last.

**The publication.** Every report and every copy under way is a table of `seen`, and each of those
lists `KEYS`; a merge of such a table therefore decides all of `KEYS` (`MergeInForce`). Every other
operation of the record leaves its table alone, and of the nine calls of a transaction one merges
(`TransactionMerges`). That the mirror catches up is `CatchUpInv`: until a report or copy is
overtaken, each one under way equals the table in force, and with none under way the mirror does
(`InStep`); a latch stands only over a delivered table (`Delivered`), which turns it into a statement
about dispatch. For the refinement each action of the composition is one of the coordinator's
with a whole table as its input, or leaves its variables alone; that the key and value a report
names agree with the table it carries is an invariant of its own (`Truthful`). `DispatchSafe` and `RegressionRevokes` carry over because the lemmas about
`record_readiness` hold for every report of the type, also for the tables that publishers and commits
deliver, which are not the constant reports of `Spec`.

**Only model-checked:** `RevocationDelivered`, `SupersededLetGo` and `MarkCleared`, since liveness
under fairness is outside the prover's reach. The modules use no recursion; no statement here needs induction over data.

## 7. What is not modelled

The rows of section 1 that are not set in bold, with reasons in `PROJECT.json`. Inside the modelled
files: `GlobalState` and its cache, the event history, logging, `reset_for_testing`. The gates
`commit_activation` runs between its copy of the table and its transaction are represented by the
arbitrary inputs of the transaction. Concurrency inside one lock window does not exist in the code:
the lock is re-entrant and held throughout. In the trading state machine: the persisted file's
contents and order, callbacks, environment variables, `can_execute`, the convergence FSM and the
patches that wrap `deactivate` and the switch's replay from other files. In the lease: loss of the
counter keys, the file-backed nonce fallback, and the local (Redis-less) writer mode. In the order path:
partial fills (the engine takes a pending order for filled), the gates of an entry, the halts that
the controller passes to its callback and to the convergence FSM, the ledgers and
the duplication guard, which record and refuse but do not touch marks or positions, and
`force_exit_position`, which nothing calls. The locks of the marks stand behind a barrier
(`_assert_bootstrap_ready_for_execution_locks(strict=True)`, `execution_engine.py:1268-1367`) that waits
for the capital bootstrap and raises after 120 s, in the handlers (4875, 4888) too: such a raise would
leave a mark set for good. It is left out because a mark is only set past the barrier, and the states it
asks for, READY and RUNNING, are left by a forced transition alone. One attempt at an entry is one order
here, but `_dispatch` submits the same order to the single router when the multi router's worker or the
reconciliation of its timeout raises (`execution_pipeline.py:2245-2311`), possibly after a submission:
`lost` and `LostBounded` count that pair as one.

To repeat: `tlc -config MCStartupCoordinator_commit.cfg MCStartupCoordinator` (about one to two
minutes with two workers, 437 000 states; `evidence` 379 000; `lease` 596 000 in two minutes;
`handover` 184 000; `mixture` 295 000; `exit` 534 000, one to two minutes; `stop` 703 000, two
minutes; `boot` 149 000; the others seconds), and `tlapm` on the proof modules.
