------------------------ MODULE TradingStateMachine -------------------------
(* The trading state machine (bot/trading_state_machine.py) under its threads, *)
(* composed with the kill switch: what reads, requests, activations, stops and *)
(* restarts do to each other when they meet between two lock windows.          *)
(*                                                                             *)
(* A window under TradingStateMachine._lock is one step.  _execution_authority *)
(* and _can_dispatch_trades always have one value, the negation of             *)
(* _core_loop_owns_execution: here they are granted.  The gates of             *)
(* commit_activation and the coordinator's verdict are left open.              *)
EXTENDS KillSwitch

CONSTANT Requests   \* targets that other components pass to transition_to

States == {"OFF", "DRY_RUN", "LIVE_PENDING_CONFIRMATION", "LIVE_ACTIVE",
           "EMERGENCY_STOP"}

ASSUME RequestsAssumption == Requests \subseteq States

VARIABLES
  state,        \* _current_state
  committed,    \* _activation_committed
  granted,      \* _execution_authority
  commitLock,   \* the holder of _activation_commit_lock
  call,         \* what each thread is doing
  stopped,      \* history: the switch has been engaged since the call began
  halted        \* history: activate has told the machine, and nobody has lifted it

machineVars == <<state, committed, granted>>
vars == <<switchVars, machineVars, commitLock, call, stopped, halted>>

Stopping == {"EMERGENCY_STOP", "OFF"}

VALID_TRANSITIONS ==
  [s \in States |->
     CASE s = "OFF" -> States \ {"OFF"}
       [] s = "DRY_RUN" -> {"OFF", "LIVE_PENDING_CONFIRMATION", "EMERGENCY_STOP"}
       [] s = "LIVE_PENDING_CONFIRMATION" -> {"OFF", "LIVE_ACTIVE", "EMERGENCY_STOP"}
       [] s = "LIVE_ACTIVE" -> {"OFF", "DRY_RUN", "EMERGENCY_STOP"}
       [] s = "EMERGENCY_STOP" -> {"OFF"}]

\* A call is a method and the place it has reached; target is the argument of
\* the transition_to it is about to make.  blind: a look of the call at the
\* engaged switch raised, and the call went on.
Ops == {"none", "activate", "deactivate", "read", "request", "live", "commit"}
PCs == {"idle", "reading", "probing", "clearing", "read", "entering", "syncing",
        "granting", "forcing", "forced", "overriding", "arming", "armed", "gated",
        "rearming", "rearmed", "sampling", "proving", "undoing"}
Call == [op : Ops, pc : PCs, target : States, blind : BOOLEAN]
Idle == [op |-> "none", pc |-> "idle", target |-> "OFF", blind |-> FALSE]

At(t, pc) == call[t].pc = pc
Goto(t, pc) == call' = [call EXCEPT ![t].pc = pc] /\ UNCHANGED commitLock
Enter(t, target) ==
  /\ call' = [call EXCEPT ![t].pc = "entering", ![t].target = target]
  /\ UNCHANGED commitLock
Begin(t, op, pc, target) ==
  /\ call[t] = Idle
  /\ call' = [call EXCEPT ![t] =
                [op |-> op, pc |-> pc, target |-> target, blind |-> FALSE]]

\* The end of a call gives up the commit lock, if it has it.
Return(t) ==
  /\ call' = [call EXCEPT ![t] = Idle]
  /\ commitLock' = IF commitLock = t THEN NoThread ELSE commitLock

-----------------------------------------------------------------------------
(* Windows of the machine.                                                   *)

Granted == committed' = TRUE /\ granted' = TRUE
Revoked == committed' = FALSE /\ granted' = FALSE

\* The window of transition_to.  DRY_RUN and LIVE_PENDING_CONFIRMATION leave the
\* flags as they are.
Moved(target) ==
  /\ state' = target
  /\ \/ target \in Stopping /\ Revoked
     \/ target = "LIVE_ACTIVE" /\ Granted
     \/ target \notin Stopping \cup {"LIVE_ACTIVE"} /\ UNCHANGED <<committed, granted>>

Allowed(target) == target \in VALID_TRANSITIONS[state]

\* transition_to raises; a target that is already the state is suppressed.
Refused(target) == target # state /\ ~Allowed(target)

Transition(target) ==
  IF Allowed(target) THEN Moved(target) ELSE UNCHANGED machineVars

-----------------------------------------------------------------------------
(* get_current_state: outside EMERGENCY_STOP a plain read, in it a check that  *)
(* the switch still stands, in three lock windows.                             *)

BeginRead(t) ==
  /\ state = "EMERGENCY_STOP"
  /\ Begin(t, "read", "probing", "OFF")
  /\ UNCHANGED <<switchVars, machineVars, commitLock>>

\* The nested reads of deactivate and commit_activation.
Look(t) ==
  /\ At(t, "reading")
  /\ \/ state = "EMERGENCY_STOP" /\ Goto(t, "probing")
     \/ state # "EMERGENCY_STOP" /\ Goto(t, "read")
  /\ UNCHANGED <<switchVars, machineVars>>

\* A probe that raises has no answer (None), and nothing is cleared.
AskSwitch(t) ==
  /\ At(t, "probing")
  /\ \/ Probe /\ Goto(t, IF Engaged THEN "read" ELSE "clearing")
     \/ UNCHANGED switchVars /\ Goto(t, "read")
  /\ UNCHANGED machineVars

\* "Auto-clear stale EMERGENCY_STOP", from whatever state it is by now.
AutoClear(t) ==
  /\ At(t, "clearing")
  /\ Transition("OFF")
  /\ Goto(t, "read")
  /\ UNCHANGED switchVars

EndRead(t) ==
  /\ At(t, "read")
  /\ call[t].op \in {"read", "commit"}
  /\ Return(t)
  /\ UNCHANGED <<switchVars, machineVars>>

-----------------------------------------------------------------------------
(* KillSwitch.activate and deactivate, and a plain is_active.                  *)

\* Mutant of BeginActivate: is_active is asked under the switch's own lock.
ActivateAsks(t) ==
  /\ Begin(t, "activate", "probing", "EMERGENCY_STOP")
  /\ Engage(t)
  /\ UNCHANGED <<machineVars, commitLock>>

BeginActivate(t) ==
  /\ Begin(t, "activate", "entering", "EMERGENCY_STOP")
  /\ Engage(t)
  /\ UNCHANGED <<machineVars, commitLock>>

BeginDeactivate(t) ==
  /\ Begin(t, "deactivate", "reading", "OFF")
  /\ Disengage(t)
  /\ UNCHANGED <<machineVars, commitLock>>

\* deactivate takes the machine out of EMERGENCY_STOP if it still is there.
EndDeactivate(t) ==
  /\ At(t, "read")
  /\ call[t].op = "deactivate"
  /\ \/ state = "EMERGENCY_STOP" /\ Enter(t, "OFF") /\ UNCHANGED switchVars
     \/ state # "EMERGENCY_STOP" /\ Return(t) /\ Unlock(t)
  /\ UNCHANGED machineVars

IsActive ==
  /\ Probe
  /\ UNCHANGED <<machineVars, commitLock, call>>

-----------------------------------------------------------------------------
(* transition_to, for every caller.                                            *)

\* A component outside: authority heartbeat, failure modes, profitability.
BeginRequest(t, target) ==
  /\ Begin(t, "request", "entering", target)
  /\ UNCHANGED <<switchVars, machineVars, commitLock>>

\* A refused activation ends its call: activate_live_trading returns False, and
\* commit_activation, past the coordinator's commit, suppresses the rollback.
EnterState(t) ==
  LET c == call[t] IN
  /\ At(t, "entering")
  /\ Transition(c.target)
  /\ Unlock(t)
  /\ \/ c.op = "live" /\ ~Refused(c.target) /\ Goto(t, "granting")
     \/ c.op = "commit" /\ ~Refused(c.target) /\ Goto(t, "reading")
     \/ c.op \in {"live", "commit"} /\ Refused(c.target) /\ Return(t)
     \/ c.op \notin {"live", "commit"} /\ Return(t)

\* release_core_loop_ownership, in whatever state.
ReleaseCoreLoop ==
  /\ granted' = TRUE
  /\ UNCHANGED <<switchVars, state, committed, commitLock, call>>

-----------------------------------------------------------------------------
(* The looks of an activation at the switch, through a bare import kill_switch  *)
(* whose exceptions, like those of is_active, are swallowed.  The import finds   *)
(* the alias of bot.kill_switch, or, where sys.path has bot/ first, a second     *)
(* module with a switch of its own, which knows the file but not this flag.      *)

\* The caller goes on as if the switch had answered that it is not active.
FailsOpen(t, pc) ==
  /\ UNCHANGED switchVars
  /\ call' = [call EXCEPT ![t].pc = pc, ![t].blind = @ \/ Engaged]
  /\ UNCHANGED commitLock

-----------------------------------------------------------------------------
(* activate_live_trading.                                                      *)

BeginLive(t) ==
  /\ \/ Begin(t, "live", "syncing", "OFF") /\ Probe /\ ~Engaged
     \/ /\ call[t] = Idle
        /\ UNCHANGED switchVars
        /\ call' = [call EXCEPT ![t] =
             [op |-> "live", pc |-> "syncing", target |-> "OFF", blind |-> Engaged]]
  /\ UNCHANGED <<machineVars, commitLock>>

\* The window, and the gates behind it.
SyncLive(t) ==
  /\ At(t, "syncing")
  /\ \/ state = "LIVE_ACTIVE" /\ Granted /\ UNCHANGED state /\ Return(t)
     \/ state # "LIVE_ACTIVE" /\ UNCHANGED machineVars /\ Enter(t, "LIVE_ACTIVE")
     \/ state # "LIVE_ACTIVE" /\ UNCHANGED machineVars /\ Return(t)
  /\ UNCHANGED switchVars

\* A window of its own: the state may have changed since it was read.
GrantFlags(t) ==
  /\ At(t, "granting")
  /\ Granted
  /\ Return(t)
  /\ UNCHANGED <<switchVars, state>>

-----------------------------------------------------------------------------
(* commit_activation, under _activation_commit_lock.                           *)

\* With NIJA_FORCE_ACTIVATION set the forced route is tried first.
BeginCommit(t) ==
  /\ commitLock = NoThread
  /\ commitLock' = t
  /\ \E pc \in {"arming", "forcing"} : Begin(t, "commit", pc, "OFF")
  /\ UNCHANGED <<switchVars, machineVars>>

\* The operator's flags may still refuse the route.
ForceProbe(t) ==
  /\ At(t, "forcing")
  /\ \/ Probe /\ ~Engaged /\ Goto(t, "forced")
     \/ Probe /\ Goto(t, "arming")
     \/ \E pc \in {"forced", "arming"} : FailsOpen(t, pc)
  /\ UNCHANGED machineVars

ForceLook(t) ==
  /\ At(t, "forced")
  /\ Goto(t, IF state = "LIVE_ACTIVE" THEN "granting" ELSE "overriding")
  /\ UNCHANGED <<switchVars, machineVars>>

\* Mutant of ForceLive: the window does not look at the state again.
ForceLiveAnyState(t) ==
  /\ At(t, "overriding")
  /\ \/ state' = "LIVE_ACTIVE" /\ Granted /\ Return(t)
     \/ UNCHANGED machineVars /\ Goto(t, "arming")
  /\ UNCHANGED switchVars

\* _force_live_active_transition: the coordinator refuses, or the window moves
\* every state but EMERGENCY_STOP to LIVE_ACTIVE, DRY_RUN by way of arming.
ForceLive(t) ==
  /\ At(t, "overriding")
  /\ \/ state # "EMERGENCY_STOP" /\ state' = "LIVE_ACTIVE" /\ Granted /\ Return(t)
     \/ UNCHANGED machineVars /\ Goto(t, "arming")
  /\ UNCHANGED switchVars

\* Arming reads the state in one window and moves it in another; without intent
\* it is skipped.
SeeOff(t, here, armed, skip) ==
  /\ At(t, here)
  /\ \/ state = "OFF" /\ Goto(t, armed)
     \/ Goto(t, skip)
  /\ UNCHANGED <<switchVars, machineVars>>

Arm(t, here, next) ==
  /\ At(t, here)
  /\ Transition("LIVE_PENDING_CONFIRMATION")
  /\ Goto(t, next)
  /\ UNCHANGED switchVars

\* The heartbeat and live gates close, or the window finds the activation
\* committed, or the state not armable.
Gate(t) ==
  /\ At(t, "gated")
  /\ UNCHANGED <<switchVars, state, committed>>
  /\ \/ UNCHANGED granted /\ Return(t)
     \/ committed /\ granted' = (granted \/ state = "LIVE_ACTIVE") /\ Return(t)
     \/ /\ ~committed
        /\ state \in {"OFF", "LIVE_PENDING_CONFIRMATION"}
        /\ UNCHANGED granted
        /\ Goto(t, "rearming")

\* Mutant of SampleSwitch: the file is not looked at.
SampleFlagOnly(t) ==
  /\ At(t, "sampling")
  /\ \/ ksLock = NoThread /\ UNCHANGED switchVars /\ ~active /\ Goto(t, "proving")
     \/ ksLock = NoThread /\ UNCHANGED switchVars /\ active /\ Return(t)
     \/ FailsOpen(t, "proving")
  /\ UNCHANGED machineVars

\* Gate 2: the sample that the transaction hands to the coordinator, whose proof
\* fails on it.
SampleSwitch(t) ==
  /\ At(t, "sampling")
  /\ \/ Probe /\ ~Engaged /\ Goto(t, "proving")
     \/ Probe /\ Engaged /\ Return(t)
     \/ FailsOpen(t, "proving")
  /\ UNCHANGED machineVars

\* The coordinator's proof blocks, its commit raises, or it commits.
Prove(t) ==
  /\ At(t, "proving")
  /\ \/ Return(t)
     \/ Goto(t, "undoing")
     \/ Enter(t, "LIVE_ACTIVE")
  /\ UNCHANGED <<switchVars, machineVars>>

\* Mutant of Undo: the flags of a live machine are revoked, its state is kept.
UndoKeepsLive(t) ==
  /\ At(t, "undoing")
  /\ state' = IF state = "OFF" THEN "LIVE_PENDING_CONFIRMATION" ELSE state
  /\ Revoked
  /\ Return(t)
  /\ UNCHANGED switchVars

\* The handler of a commit the coordinator did not make; OFF is armed only when
\* the readiness proof is what is pending.
Undo(t) ==
  /\ At(t, "undoing")
  /\ \/ /\ state \in {"LIVE_ACTIVE", "OFF"}
        /\ state' = "LIVE_PENDING_CONFIRMATION"
        /\ Revoked
     \/ state # "LIVE_ACTIVE" /\ UNCHANGED machineVars
  /\ Return(t)
  /\ UNCHANGED switchVars

-----------------------------------------------------------------------------
CallStep(t) ==
  \/ Look(t) \/ AskSwitch(t) \/ AutoClear(t) \/ EndRead(t)
  \/ EndDeactivate(t) \/ EnterState(t) \/ SyncLive(t) \/ GrantFlags(t)
  \/ ForceProbe(t) \/ ForceLook(t) \/ ForceLive(t)
  \/ SeeOff(t, "arming", "armed", "gated") \/ Arm(t, "armed", "gated")
  \/ Gate(t)
  \/ SeeOff(t, "rearming", "rearmed", "sampling") \/ Arm(t, "rearmed", "rearming")
  \/ SampleSwitch(t) \/ Prove(t) \/ Undo(t)

BeginCall(t) ==
  \/ BeginRead(t) \/ BeginActivate(t) \/ BeginDeactivate(t)
  \/ BeginLive(t) \/ BeginCommit(t)
  \/ \E target \in Requests : BeginRequest(t, target)

\* What _load_state keeps of the file, under any startup override: never
\* LIVE_ACTIVE, never EMERGENCY_STOP.
StartStates == {"OFF", "DRY_RUN", "LIVE_PENDING_CONFIRMATION"}

Restart ==
  /\ SwitchRestart
  /\ state' \in StartStates
  /\ Revoked
  /\ commitLock' = NoThread
  /\ call' = [t \in Threads |-> Idle]

Init ==
  /\ SwitchInit
  /\ state \in StartStates
  /\ committed = FALSE
  /\ granted = FALSE
  /\ commitLock = NoThread
  /\ call = [t \in Threads |-> Idle]
  /\ stopped = [t \in Threads |-> Engaged]
  /\ halted = FALSE

Step ==
  \/ \E t \in Threads : BeginCall(t) \/ CallStep(t)
  \/ IsActive
  \/ ReleaseCoreLoop
  \/ OperatorFile /\ UNCHANGED <<machineVars, commitLock, call>>
  \/ Restart

\* activate hands its stop to the machine.
Delivers == \E t \in Threads : call[t].op = "activate" /\ EnterState(t)

\* Whoever may end a stop while the switch is set: a component that asks for OFF,
\* a reader that has seen the switch disengaged, a new process.
Lifts ==
  \/ Restart
  \/ \E t \in Threads :
       \/ call[t].op = "request" /\ call[t].target = "OFF" /\ EnterState(t)
       \/ ~stopped[t] /\ AutoClear(t)

\* The history: idle threads see the switch as it is, and a delivered stop counts
\* as long as the flag of the switch is set.
Remember ==
  /\ stopped' = [t \in Threads |-> Engaged' /\ (stopped[t] \/ call[t] = Idle)]
  /\ halted' = (active' /\ (Delivers \/ (halted /\ ~Lifts)))

Next == Step /\ Remember

Spec == Init /\ [][Next]_vars

-----------------------------------------------------------------------------
(* Properties.                                                               *)

\* Every variable has its type, and a call holds the locks its place implies.
TypeOK ==
  /\ SwitchTypeOK
  /\ state \in States
  /\ committed \in BOOLEAN /\ granted \in BOOLEAN
  /\ commitLock \in Threads \cup {NoThread}
  /\ call \in [Threads -> Call]
  /\ stopped \in [Threads -> BOOLEAN]
  /\ halted \in BOOLEAN
  /\ \A t \in Threads :
       /\ ksLock = t <=> call[t].op \in {"activate", "deactivate"}
       /\ commitLock = t <=> call[t].op = "commit"

\* However activations, rollbacks, stops and readers meet, a machine that is live
\* has the commitment flag and the authority that can_execute asks for.
LiveHasAuthority == state = "LIVE_ACTIVE" => committed /\ granted

\* An activation, and a reader's clearing of EMERGENCY_STOP, only take effect in
\* a call that began, or during which the switch was seen, disengaged: neither a
\* restart nor a late file lets a call begun under a standing stop through.  The one
\* way past a standing stop is a look that raises: all three looks of an activation
\* swallow the exception and go on.
SwitchSeenClear ==
  [][\A t \in Threads :
       /\ CallStep(t)
       /\ stopped[t] /\ ~call[t].blind
       /\ call[t].op \in {"read", "live", "commit"}
       => /\ state' = "LIVE_ACTIVE" => state = "LIVE_ACTIVE"
          /\ state = "EMERGENCY_STOP" => state' = "EMERGENCY_STOP"]_vars

\* A stop that activate has handed to the machine keeps it in EMERGENCY_STOP as
\* long as the flag of the switch is set, until somebody entitled to it lifts the
\* stop: no activation, rollback, arming or late grant that had got past its own
\* look at the switch, with or without an answer, takes the machine out, and no
\* deactivate, which keeps the lock of the switch, undoes a stop newer than itself.
StopStands == halted => state = "EMERGENCY_STOP"

\* The places whose window is the switch's own, while somebody holds its lock.
Waits(t) == ksLock # NoThread /\ call[t].pc \in {"probing", "forcing", "sampling"}

\* No call waits for ever for a lock, with one exception: whoever holds the
\* switch's lock goes on, unless it is deactivate, whose read of the machine in
\* EMERGENCY_STOP asks the switch; no two calls wait for each other.
OnlyDeactivateHangs ==
  \A t \in Threads : Waits(t) =>
    \E u \in Threads :
      ksLock = u /\ (Waits(u) => call[u].op = "deactivate" /\ At(u, "probing"))
=============================================================================
