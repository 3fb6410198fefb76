--------------------- MODULE TradingStateMachineProofs ----------------------
(* TradingStateMachine keeps its types, its locks and the agreement of state  *)
(* and flags, and honours a standing stop, for any set of threads and of      *)
(* requests.                                                                  *)
EXTENDS TradingStateMachine, TLAPS

\* The places of activate_live_trading and commit_activation.
ActivationPCs == {"syncing", "granting", "forcing", "forced", "overriding", "arming",
                  "armed", "gated", "rearming", "rearmed", "sampling", "proving",
                  "undoing"}

\* From these places a call goes on to LIVE_ACTIVE or clears EMERGENCY_STOP.
Ahead(t) ==
  \/ call[t].pc \in {"clearing", "syncing", "forced", "overriding", "proving"}
  \/ call[t].pc = "entering" /\ call[t].op \in {"live", "commit"}

MachineOK == state \in States /\ committed \in BOOLEAN /\ granted \in BOOLEAN

CallsOK ==
  /\ call \in [Threads -> Call]
  /\ commitLock \in Threads \cup {NoThread}
  /\ stopped \in [Threads -> BOOLEAN]
  /\ halted \in BOOLEAN

LocksOK ==
  \A t \in Threads :
    /\ ksLock = t <=> call[t].op \in {"activate", "deactivate"}
    /\ commitLock = t <=> call[t].op = "commit"

PlacesOK ==
  \A t \in Threads :
    /\ call[t].pc \in ActivationPCs => call[t].op \in {"live", "commit"}
    /\ call[t].pc = "entering" => call[t].op # "read"
    /\ call[t].pc = "entering" /\ call[t].op \in {"live", "commit"} =>
         call[t].target = "LIVE_ACTIVE"
    /\ call[t].op = "activate" => call[t].pc = "entering"

\* A reader is about to clear only on an answer; an activation may have gone on
\* without one.
SeenClear ==
  \A t \in Threads :
    /\ call[t].pc = "clearing" => ~stopped[t]
    /\ Ahead(t) => ~stopped[t] \/ call[t].blind

IInv ==
  /\ SwitchTypeOK /\ MachineOK /\ CallsOK
  /\ LocksOK /\ PlacesOK
  /\ LiveHasAuthority
  /\ SeenClear

USE NoThreadAssumption, RequestsAssumption

-----------------------------------------------------------------------------
(* How the forms of a step change one call.                                   *)

\* Only thread t's call changes, and it takes or leaves the commit lock with it.
LEMMA GotoCall ==
  ASSUME CallsOK, NEW t \in Threads, NEW pc \in PCs, Goto(t, pc)
  PROVE  /\ call' \in [Threads -> Call]
         /\ call'[t] = [op |-> call[t].op, pc |-> pc, target |-> call[t].target,
                        blind |-> call[t].blind]
         /\ \A u \in Threads \ {t} : call'[u] = call[u]
         /\ commitLock' = commitLock
  BY DEF CallsOK, Goto, Call

\* A look that raised goes on at its place, and remembers what it did not see.
LEMMA FailsOpenCall ==
  ASSUME CallsOK, SwitchTypeOK, NEW t \in Threads, NEW pc \in PCs, FailsOpen(t, pc)
  PROVE  /\ call' \in [Threads -> Call]
         /\ call'[t] = [op |-> call[t].op, pc |-> pc, target |-> call[t].target,
                        blind |-> call[t].blind \/ Engaged]
         /\ \A u \in Threads \ {t} : call'[u] = call[u]
         /\ commitLock' = commitLock
<1> DEFINE b == call[t].blind \/ Engaged
<1>1. b \in BOOLEAN
  BY DEF CallsOK, SwitchTypeOK, Engaged, Call
<1>2. call' = [call EXCEPT ![t] = [call[t] EXCEPT !.pc = pc, !.blind = b]]
  BY DEF FailsOpen, CallsOK, Call
<1> HIDE DEF b
<1>3. /\ call' \in [Threads -> Call]
      /\ call'[t] = [op |-> call[t].op, pc |-> pc, target |-> call[t].target, blind |-> b]
      /\ \A u \in Threads \ {t} : call'[u] = call[u]
  BY <1>1, <1>2 DEF CallsOK, Call
<1> QED
  BY <1>3 DEF FailsOpen, b

LEMMA EnterCall ==
  ASSUME CallsOK, NEW t \in Threads, NEW target \in States, Enter(t, target)
  PROVE  /\ call' \in [Threads -> Call]
         /\ call'[t] = [op |-> call[t].op, pc |-> "entering", target |-> target,
                        blind |-> call[t].blind]
         /\ \A u \in Threads \ {t} : call'[u] = call[u]
         /\ commitLock' = commitLock
  BY DEF CallsOK, Enter, Call, PCs

LEMMA BeginCallFact ==
  ASSUME CallsOK, NEW t \in Threads, NEW op \in Ops, NEW pc \in PCs,
         NEW target \in States, Begin(t, op, pc, target)
  PROVE  /\ call[t] = Idle
         /\ call' \in [Threads -> Call]
         /\ call'[t] = [op |-> op, pc |-> pc, target |-> target, blind |-> FALSE]
         /\ \A u \in Threads \ {t} : call'[u] = call[u]
  BY DEF CallsOK, Begin, Call

LEMMA ReturnCall ==
  ASSUME CallsOK, NEW t \in Threads, Return(t)
  PROVE  /\ call' \in [Threads -> Call]
         /\ call'[t] = Idle
         /\ \A u \in Threads \ {t} : call'[u] = call[u]
         /\ commitLock' = IF commitLock = t THEN NoThread ELSE commitLock
  BY DEF CallsOK, Return, Call, Idle, Ops, PCs, States

-----------------------------------------------------------------------------
(* What a step of thread t has to show: the other calls look after themselves. *)

OthersWait(t) == \A u \in Threads \ {t} : call'[u] = call[u]

\* A call that has seen the switch clear stays so to its end.
LEMMA History ==
  ASSUME IInv, Remember
  PROVE  /\ stopped' \in [Threads -> BOOLEAN]
         /\ halted' \in BOOLEAN
         /\ \A u \in Threads : call[u].pc # "idle" /\ ~stopped[u] => ~stopped'[u]
         /\ ~active' /\ ~file' => \A u \in Threads : ~stopped'[u]
<1>1. stopped' = [u \in Threads |-> Engaged' /\ (stopped[u] \/ call[u] = Idle)]
  BY DEF Remember
<1>2. ASSUME NEW u \in Threads
      PROVE  stopped'[u] = (Engaged' /\ (stopped[u] \/ call[u] = Idle))
  BY <1>1
<1>3. \A u \in Threads : call[u].pc # "idle" => call[u] # Idle
  BY DEF Idle
<1>4. stopped' \in [Threads -> BOOLEAN]
  BY <1>1
<1>5. \A u \in Threads : call[u].pc # "idle" /\ ~stopped[u] => ~stopped'[u]
  BY <1>2, <1>3
<1>6. ~active' /\ ~file' => \A u \in Threads : ~stopped'[u]
  BY <1>2 DEF Engaged
<1>7. halted' \in BOOLEAN
  BY DEF Remember
<1> QED
  BY <1>4, <1>5, <1>6, <1>7

LEMMA SeenClearKept ==
  ASSUME IInv, Remember, NEW t \in Threads, OthersWait(t),
         call'[t].pc = "clearing" => ~stopped'[t],
         Ahead(t)' => ~stopped'[t] \/ call'[t].blind
  PROVE  SeenClear'
<1> SUFFICES ASSUME NEW u \in Threads, u # t
             PROVE  /\ call'[u].pc = "clearing" => ~stopped'[u]
                    /\ Ahead(u)' => ~stopped'[u] \/ call'[u].blind
  BY DEF SeenClear
<1>1. call'[u] = call[u]
  BY DEF OthersWait
<1>2. Ahead(u)' => Ahead(u) /\ call[u].pc # "idle"
  BY <1>1 DEF Ahead
<1> QED
  BY <1>1, <1>2, History DEF IInv, SeenClear

LEMMA LocksKept ==
  ASSUME IInv, NEW t \in Threads, OthersWait(t), call'[t].op = call[t].op,
         ksLock' = ksLock, commitLock' = commitLock
  PROVE  LocksOK'
  BY DEF IInv, LocksOK, OthersWait

LEMMA LocksReturned ==
  ASSUME IInv, NEW t \in Threads, OthersWait(t), call'[t] = Idle,
         commitLock' = (IF commitLock = t THEN NoThread ELSE commitLock),
         ksLock' = (IF ksLock = t THEN NoThread ELSE ksLock)
  PROVE  LocksOK'
  BY DEF IInv, LocksOK, OthersWait, Idle

\* activate_live_trading and commit_activation never hold the lock of the switch.
LEMMA NotHolding ==
  ASSUME IInv, NEW t \in Threads,
         call[t].op \in {"none", "read", "request", "live", "commit"}
  PROVE  ksLock # t
  BY DEF IInv, LocksOK

LEMMA PlacesKept ==
  ASSUME IInv, NEW t \in Threads, OthersWait(t),
         call'[t].pc \in ActivationPCs => call'[t].op \in {"live", "commit"},
         call'[t].pc = "entering" => call'[t].op # "read",
         call'[t].pc = "entering" /\ call'[t].op \in {"live", "commit"} =>
           call'[t].target = "LIVE_ACTIVE",
         call'[t].op = "activate" => call'[t].pc = "entering"
  PROVE  PlacesOK'
  BY DEF IInv, PlacesOK, OthersWait

\* The windows keep the types, and leave a live machine with its flags.
LEMMA MovedMachine ==
  ASSUME IInv, NEW target \in States, Transition(target)
  PROVE  MachineOK' /\ LiveHasAuthority'
<1>1. CASE Moved(target) /\ target \in Stopping
  BY <1>1 DEF MachineOK, LiveHasAuthority, Moved, Revoked, Stopping
<1>2. CASE Moved(target) /\ target = "LIVE_ACTIVE"
  BY <1>2 DEF MachineOK, LiveHasAuthority, Moved, Granted, Stopping
<1>3. CASE /\ state' = target /\ target \notin Stopping \cup {"LIVE_ACTIVE"}
           /\ UNCHANGED <<committed, granted>>
  BY <1>3 DEF IInv, MachineOK, LiveHasAuthority
<1>4. CASE UNCHANGED machineVars
  BY <1>4 DEF IInv, MachineOK, LiveHasAuthority, machineVars
<1> QED
  BY <1>1, <1>2, <1>3, <1>4 DEF Transition, Moved

LEMMA SameMachine ==
  ASSUME IInv, UNCHANGED machineVars
  PROVE  MachineOK' /\ LiveHasAuthority'
  BY DEF IInv, MachineOK, LiveHasAuthority, machineVars

LEMMA GrantedMachine ==
  ASSUME IInv, Granted, state' \in States
  PROVE  MachineOK' /\ LiveHasAuthority'
  BY DEF MachineOK, LiveHasAuthority, Granted

-----------------------------------------------------------------------------
(* A step that moves the call of t and nothing else about it.                 *)

\* The call goes on at another place, the machine may move, no lock changes hands.
LEMMA GoOnAs ==
  ASSUME IInv, Remember, NEW t \in Threads, NEW pc \in PCs, NEW blind \in BOOLEAN,
         call' \in [Threads -> Call],
         call'[t] = [op |-> call[t].op, pc |-> pc, target |-> call[t].target,
                     blind |-> blind],
         OthersWait(t), commitLock' = commitLock,
         SwitchTypeOK', ksLock' = ksLock, MachineOK', LiveHasAuthority',
         pc \in ActivationPCs => call[t].op \in {"live", "commit"},
         pc # "entering", call[t].op = "activate" => call[t].pc # "entering",
         pc = "clearing" => ~stopped'[t],
         pc \in {"syncing", "forced", "overriding", "proving"} => ~stopped'[t] \/ blind
  PROVE  IInv'
<1>2. CallsOK'
  BY History DEF IInv, CallsOK
<1>3. LocksOK'
  BY LocksKept
<1>4. PlacesOK'
  <2>1. call[t].op # "activate"
    BY DEF IInv, PlacesOK
  <2> QED
    BY <2>1, PlacesKept
<1>5. SeenClear'
  BY SeenClearKept DEF Ahead
<1> QED
  BY <1>2, <1>3, <1>4, <1>5 DEF IInv

LEMMA GoOn ==
  ASSUME IInv, Remember, NEW t \in Threads, NEW pc \in PCs, Goto(t, pc),
         SwitchTypeOK', ksLock' = ksLock, MachineOK', LiveHasAuthority',
         pc \in ActivationPCs => call[t].op \in {"live", "commit"},
         pc # "entering", call[t].op = "activate" => call[t].pc # "entering",
         pc = "clearing" => ~stopped'[t],
         pc \in {"syncing", "forced", "overriding", "proving"} =>
           ~stopped'[t] \/ call[t].blind
  PROVE  IInv'
<1>1. /\ call' \in [Threads -> Call]
      /\ call'[t] = [op |-> call[t].op, pc |-> pc, target |-> call[t].target,
                     blind |-> call[t].blind]
      /\ OthersWait(t)
      /\ commitLock' = commitLock
  BY GotoCall DEF IInv, OthersWait
<1>2. call[t].blind \in BOOLEAN
  BY DEF IInv, CallsOK, Call
<1> QED
  BY <1>1, <1>2, GoOnAs

\* The call goes on to a transition.
LEMMA GoEnter ==
  ASSUME IInv, Remember, NEW t \in Threads, NEW target \in States, Enter(t, target),
         UNCHANGED switchVars, UNCHANGED machineVars,
         call[t].op # "read",
         call[t].op \in {"live", "commit"} =>
           target = "LIVE_ACTIVE" /\ (~stopped'[t] \/ call[t].blind)
  PROVE  IInv'
<1>1. /\ call' \in [Threads -> Call]
      /\ call'[t] = [op |-> call[t].op, pc |-> "entering", target |-> target,
                     blind |-> call[t].blind]
      /\ OthersWait(t)
      /\ commitLock' = commitLock
  BY EnterCall DEF IInv, OthersWait
<1>2. CallsOK' /\ SwitchTypeOK'
  BY <1>1, History DEF IInv, CallsOK, SwitchTypeOK, switchVars
<1>3. LocksOK'
  BY <1>1, LocksKept DEF switchVars
<1>4. PlacesOK'
  BY <1>1, PlacesKept DEF ActivationPCs
<1>5. SeenClear'
  BY <1>1, SeenClearKept DEF Ahead
<1> QED
  BY <1>2, <1>3, <1>4, <1>5, SameMachine DEF IInv

\* The call ends.
LEMMA GoHome ==
  ASSUME IInv, Remember, NEW t \in Threads, Return(t), SwitchTypeOK',
         ksLock' = (IF ksLock = t THEN NoThread ELSE ksLock),
         MachineOK', LiveHasAuthority'
  PROVE  IInv'
<1>1. /\ call' \in [Threads -> Call]
      /\ call'[t] = Idle
      /\ OthersWait(t)
      /\ commitLock' = IF commitLock = t THEN NoThread ELSE commitLock
  BY ReturnCall DEF IInv, OthersWait
<1>2. CallsOK'
  BY <1>1, History DEF IInv, CallsOK
<1>3. LocksOK'
  BY <1>1, LocksReturned
<1>4. PlacesOK'
  BY <1>1, PlacesKept DEF ActivationPCs, Idle
<1>5. SeenClear'
  BY <1>1, SeenClearKept DEF Ahead, Idle
<1> QED
  BY <1>2, <1>3, <1>4, <1>5 DEF IInv

\* A probe that finds the switch clear ends the history of a standing stop.
LEMMA ProbeFacts ==
  ASSUME IInv, Remember, Probe
  PROVE  /\ SwitchTypeOK' /\ ksLock' = ksLock
         /\ ~Engaged => \A u \in Threads : ~stopped'[u]
<1>1. SwitchTypeOK' /\ ksLock' = ksLock
  BY DEF IInv, SwitchTypeOK, Probe, Engaged
<1>2. ~Engaged => ~active' /\ ~file'
  BY DEF IInv, SwitchTypeOK, Probe, Engaged
<1> QED
  BY <1>1, <1>2, History

LEMMA SameSwitch ==
  ASSUME IInv, UNCHANGED switchVars
  PROVE  SwitchTypeOK' /\ ksLock' = ksLock
  BY DEF IInv, SwitchTypeOK, switchVars

\* A call that was ahead still has not seen a standing stop, or has not looked.
LEMMA StillClear ==
  ASSUME IInv, Remember, NEW t \in Threads, Ahead(t)
  PROVE  ~stopped'[t] \/ call[t].blind
<1>1. call[t].pc # "idle"
  BY DEF Ahead
<1> QED
  BY <1>1, History DEF IInv, SeenClear

\* A switch that is not engaged, and not touched, is not standing.
LEMMA ClearStays ==
  ASSUME IInv, Remember, UNCHANGED switchVars, ~Engaged, NEW t \in Threads
  PROVE  ~stopped'[t]
<1>1. ~active' /\ ~file'
  BY DEF switchVars, Engaged
<1> QED
  BY <1>1, History

\* A look of an activation that raised goes on, blind when the switch is engaged.
LEMMA FailsOpenKeeps ==
  ASSUME IInv, Remember, NEW t \in Threads, NEW pc \in {"forced", "arming", "proving"},
         FailsOpen(t, pc), call[t].op \in {"live", "commit"}, UNCHANGED machineVars
  PROVE  IInv'
<1>1. pc \in PCs
  BY DEF PCs
<1>2. /\ call' \in [Threads -> Call]
      /\ call'[t] = [op |-> call[t].op, pc |-> pc, target |-> call[t].target,
                     blind |-> call[t].blind \/ Engaged]
      /\ OthersWait(t)
      /\ commitLock' = commitLock
  BY <1>1, FailsOpenCall DEF IInv, OthersWait
<1>3. UNCHANGED switchVars
  BY DEF FailsOpen
<1>4. (call[t].blind \/ Engaged) \in BOOLEAN
  BY DEF IInv, CallsOK, Call, SwitchTypeOK, Engaged
<1>5. ~stopped'[t] \/ (call[t].blind \/ Engaged)
  BY <1>3, ClearStays
<1> QED
  BY <1>1, <1>2, <1>3, <1>4, <1>5, GoOnAs, SameSwitch, SameMachine

-----------------------------------------------------------------------------
(* The steps.                                                                 *)

\* The calls begin.
LEMMA BeginsKeep ==
  ASSUME IInv, Remember, NEW t \in Threads, BeginCall(t)
  PROVE  IInv'
<1> DEFINE Begun(op, pc, target, blind) ==
       /\ call[t] = Idle
       /\ call' \in [Threads -> Call]
       /\ call'[t] = [op |-> op, pc |-> pc, target |-> target, blind |-> blind]
       /\ OthersWait(t)
<1>1. ASSUME NEW op \in Ops, NEW pc \in PCs, NEW target \in States,
             Begin(t, op, pc, target)
      PROVE  Begun(op, pc, target, FALSE)
  BY <1>1, BeginCallFact DEF IInv, OthersWait
<1>2. ASSUME NEW op \in {"read", "request", "live"}, NEW pc \in PCs,
             NEW target \in States, NEW blind \in BOOLEAN, Begun(op, pc, target, blind),
             SwitchTypeOK', UNCHANGED <<ksLock, commitLock, machineVars>>,
             pc \notin ActivationPCs \/ op = "live",
             pc = "entering" => op = "request",
             pc \in {"probing", "entering", "syncing"},
             pc = "syncing" => ~stopped'[t] \/ blind
      PROVE  IInv'
  <2>1. Begun(op, pc, target, blind)
    BY <1>2
  <2>2. CallsOK'
    BY <2>1, <1>2, History DEF IInv, CallsOK
  <2>3. LocksOK'
    BY <2>1, <1>2 DEF IInv, LocksOK, OthersWait, Idle
  <2>4. PlacesOK'
    BY <2>1, <1>2, PlacesKept
  <2>5. SeenClear'
    BY <2>1, <1>2, SeenClearKept DEF Ahead
  <2> QED
    BY <1>2, <2>2, <2>3, <2>4, <2>5, SameMachine DEF IInv
<1>3. CASE BeginRead(t)
  <2>1. SwitchTypeOK' /\ UNCHANGED <<ksLock, commitLock, machineVars>>
    BY <1>3, SameSwitch DEF BeginRead, switchVars
  <2>2. "probing" \in PCs /\ "probing" \notin ActivationPCs /\ "OFF" \in States
    BY DEF PCs, ActivationPCs, States
  <2>3. Begun("read", "probing", "OFF", FALSE)
    BY <1>1, <1>3, <2>2 DEF BeginRead, Ops
  <2> QED
    BY <2>1, <2>2, <2>3, <1>2
<1>4. ASSUME NEW target \in Requests, BeginRequest(t, target)
      PROVE  IInv'
  <2>1. SwitchTypeOK' /\ UNCHANGED <<ksLock, commitLock, machineVars>>
    BY <1>4, SameSwitch DEF BeginRequest, switchVars
  <2>2. "entering" \in PCs /\ "entering" \notin ActivationPCs /\ target \in States
    BY DEF PCs, ActivationPCs
  <2>3. Begun("request", "entering", target, FALSE)
    BY <1>1, <1>4, <2>2 DEF BeginRequest, Ops
  <2> QED
    BY <2>1, <2>2, <2>3, <1>2
<1>5. CASE BeginLive(t)
  <2>1. UNCHANGED <<commitLock, machineVars>>
    BY <1>5 DEF BeginLive
  <2>2. "syncing" \in PCs /\ "syncing" \in ActivationPCs /\ "OFF" \in States
    BY DEF PCs, ActivationPCs, States
  <2>3. CASE Begin(t, "live", "syncing", "OFF") /\ Probe /\ ~Engaged
    <3>1. SwitchTypeOK' /\ ksLock' = ksLock /\ ~stopped'[t]
      BY <2>3, ProbeFacts
    <3>2. Begun("live", "syncing", "OFF", FALSE)
      BY <1>1, <2>2, <2>3 DEF Ops
    <3> QED
      BY <2>1, <2>2, <3>1, <3>2, <1>2
  <2>4. CASE /\ call[t] = Idle
             /\ UNCHANGED switchVars
             /\ call' = [call EXCEPT ![t] =
                  [op |-> "live", pc |-> "syncing", target |-> "OFF", blind |-> Engaged]]
    <3>1. SwitchTypeOK' /\ ksLock' = ksLock /\ (~stopped'[t] \/ Engaged)
      BY <2>4, SameSwitch, ClearStays
    <3>2. Engaged \in BOOLEAN
      BY DEF IInv, SwitchTypeOK, Engaged
    <3>3. Begun("live", "syncing", "OFF", Engaged)
      BY <2>4, <2>2, <3>2 DEF IInv, CallsOK, Call, Ops, OthersWait
    <3> QED
      BY <2>1, <2>2, <3>1, <3>2, <3>3, <1>2
  <2> QED
    BY <1>5, <2>3, <2>4 DEF BeginLive
<1>6. ASSUME NEW op \in {"activate", "deactivate"}, NEW pc \in {"entering", "reading"},
             NEW target \in States, Begin(t, op, pc, target),
             op = "activate" => pc = "entering",
             SwitchTypeOK', ksLock = NoThread, ksLock' = t,
             UNCHANGED <<commitLock, machineVars>>
      PROVE  IInv'
  <2>1. Begun(op, pc, target, FALSE)
    <3>1. op \in Ops /\ pc \in PCs
      BY DEF Ops, PCs
    <3> QED
      BY <1>1, <1>6, <3>1
  <2>2. CallsOK'
    BY <2>1, <1>6, History DEF IInv, CallsOK
  <2>3. LocksOK'
    BY <2>1, <1>6 DEF IInv, LocksOK, OthersWait, Idle
  <2>4. PlacesOK'
    BY <2>1, <1>6, PlacesKept DEF ActivationPCs
  <2>5. SeenClear'
    BY <2>1, <1>6, SeenClearKept DEF Ahead
  <2> QED
    BY <1>6, <2>2, <2>3, <2>4, <2>5, SameMachine DEF IInv
<1>7. CASE BeginActivate(t)
  <2>1. SwitchTypeOK' /\ ksLock = NoThread /\ ksLock' = t
    BY <1>7 DEF IInv, BeginActivate, Engage, SwitchTypeOK
  <2> QED
    BY <1>7, <2>1, <1>6 DEF BeginActivate, States
<1>8. CASE BeginDeactivate(t)
  <2>1. SwitchTypeOK' /\ ksLock = NoThread /\ ksLock' = t
    BY <1>8 DEF IInv, BeginDeactivate, Disengage, SwitchTypeOK
  <2> QED
    BY <1>8, <2>1, <1>6 DEF BeginDeactivate, States
<1>9. CASE BeginCommit(t)
  <2>1. PICK pc \in {"arming", "forcing"} : Begin(t, "commit", pc, "OFF")
    BY <1>9 DEF BeginCommit
  <2>2. Begun("commit", pc, "OFF", FALSE)
    BY <1>1, <2>1 DEF Ops, PCs, States
  <2>3. commitLock = NoThread /\ commitLock' = t /\ UNCHANGED switchVars /\ UNCHANGED machineVars
    BY <1>9 DEF BeginCommit
  <2>4. CallsOK'
    BY <2>2, <2>3, History DEF IInv, CallsOK
  <2>5. LocksOK'
    BY <2>2, <2>3 DEF IInv, LocksOK, OthersWait, Idle, switchVars
  <2>6. PlacesOK'
    BY <2>2, PlacesKept
  <2>7. SeenClear'
    BY <2>2, SeenClearKept DEF Ahead
  <2> QED
    BY <2>3, <2>4, <2>5, <2>6, <2>7, SameMachine, SameSwitch DEF IInv
<1> QED
  BY <1>3, <1>4, <1>5, <1>7, <1>8, <1>9 DEF BeginCall

\* At an activation's place, the call is an activation and holds no switch lock.
LEMMA ActivationCall ==
  ASSUME IInv, NEW t \in Threads, call[t].pc \in ActivationPCs
  PROVE  call[t].op \in {"live", "commit"} /\ ksLock # t
  BY NotHolding DEF IInv, PlacesOK

\* The end of a call that holds no switch lock.
LEMMA GoHomeUnlocked ==
  ASSUME IInv, Remember, NEW t \in Threads, Return(t), SwitchTypeOK',
         ksLock' = ksLock, ksLock # t, MachineOK', LiveHasAuthority'
  PROVE  IInv'
  BY GoHome

\* Reads, and the end of deactivate.
LEMMA ReadsKeep ==
  ASSUME IInv, Remember, NEW t \in Threads,
         Look(t) \/ AskSwitch(t) \/ AutoClear(t) \/ EndRead(t) \/ EndDeactivate(t)
  PROVE  IInv'
<1>1. CASE Look(t)
  <2>1. PICK pc \in {"probing", "read"} : Goto(t, pc)
    BY <1>1 DEF Look
  <2>2. UNCHANGED switchVars /\ UNCHANGED machineVars /\ call[t].pc # "entering"
    BY <1>1 DEF Look, At
  <2> QED
    BY <2>1, <2>2, GoOn, SameSwitch, SameMachine DEF PCs, ActivationPCs
<1>2. CASE AskSwitch(t)
  <2>1. UNCHANGED machineVars /\ call[t].pc # "entering"
    BY <1>2 DEF AskSwitch, At
  <2>2. CASE Probe /\ Engaged /\ Goto(t, "read")
    BY <2>1, <2>2, GoOn, ProbeFacts, SameMachine DEF PCs, ActivationPCs
  <2>3. CASE Probe /\ ~Engaged /\ Goto(t, "clearing")
    BY <2>1, <2>3, GoOn, ProbeFacts, SameMachine DEF PCs, ActivationPCs
  <2>4. CASE UNCHANGED switchVars /\ Goto(t, "read")
    BY <2>1, <2>4, GoOn, SameSwitch, SameMachine DEF PCs, ActivationPCs
  <2> QED
    BY <1>2, <2>2, <2>3, <2>4 DEF AskSwitch
<1>3. CASE AutoClear(t)
  BY <1>3, GoOn, SameSwitch, MovedMachine DEF AutoClear, At, PCs, ActivationPCs, States
<1>4. CASE EndRead(t)
  BY <1>4, GoHomeUnlocked, NotHolding, SameSwitch, SameMachine DEF EndRead
<1>5. CASE EndDeactivate(t)
  <2>1. CASE Enter(t, "OFF") /\ UNCHANGED switchVars
    BY <1>5, <2>1, GoEnter DEF EndDeactivate, States
  <2>2. CASE Return(t) /\ Unlock(t)
    <3>1. SwitchTypeOK'
      BY <2>2 DEF IInv, SwitchTypeOK, Unlock
    <3> QED
      BY <1>5, <2>2, <3>1, GoHome, SameMachine DEF EndDeactivate, Unlock
  <2> QED
    BY <1>5, <2>1, <2>2 DEF EndDeactivate
<1> QED
  BY <1>1, <1>2, <1>3, <1>4, <1>5

\* Requests, stops and activations reach transition_to.
LEMMA EnterKeeps ==
  ASSUME IInv, Remember, NEW t \in Threads, EnterState(t)
  PROVE  IInv'
<1>1. MachineOK' /\ LiveHasAuthority'
  <2>1. call[t].target \in States
    BY DEF IInv, CallsOK, Call
  <2> QED
    BY <2>1, MovedMachine DEF EnterState
<1>2. SwitchTypeOK' /\ ksLock' = IF ksLock = t THEN NoThread ELSE ksLock
  BY DEF IInv, SwitchTypeOK, EnterState, Unlock
<1>3. CASE Return(t)
  BY <1>1, <1>2, <1>3, GoHome
<1>4. CASE call[t].op \in {"live", "commit"} /\ \E pc \in {"granting", "reading"} : Goto(t, pc)
  <2>1. PICK pc \in {"granting", "reading"} : Goto(t, pc)
    BY <1>4
  <2>2. ksLock' = ksLock
    BY <1>2, <1>4, NotHolding
  <2> QED
    BY <1>1, <1>2, <1>4, <2>1, <2>2, GoOn DEF PCs
<1> QED
  BY <1>3, <1>4 DEF EnterState

\* activate_live_trading, and the forced route of commit_activation.
LEMMA LiveAndForceKeep ==
  ASSUME IInv, Remember, NEW t \in Threads,
         SyncLive(t) \/ GrantFlags(t) \/ ForceProbe(t) \/ ForceLook(t) \/ ForceLive(t)
  PROVE  IInv'
<1>1. CASE SyncLive(t)
  <2>1. /\ call[t].op \in {"live", "commit"} /\ ksLock # t
        /\ ~stopped'[t] \/ call[t].blind
    BY <1>1, ActivationCall, StillClear DEF SyncLive, At, ActivationPCs, Ahead
  <2>2. UNCHANGED switchVars
    BY <1>1 DEF SyncLive
  <2>3. CASE Enter(t, "LIVE_ACTIVE") /\ UNCHANGED machineVars
    BY <2>1, <2>2, <2>3, GoEnter DEF States
  <2>4. CASE Return(t) /\ UNCHANGED machineVars
    BY <2>1, <2>2, <2>4, GoHomeUnlocked, SameSwitch, SameMachine
  <2>5. CASE Return(t) /\ Granted /\ UNCHANGED state
    BY <2>1, <2>2, <2>5, GoHomeUnlocked, SameSwitch, GrantedMachine DEF IInv, MachineOK
  <2> QED
    BY <1>1, <2>3, <2>4, <2>5 DEF SyncLive
<1>2. CASE GrantFlags(t)
  <2>1. ksLock # t /\ UNCHANGED switchVars
    BY <1>2, ActivationCall DEF GrantFlags, At, ActivationPCs
  <2>2. MachineOK' /\ LiveHasAuthority'
    BY <1>2, GrantedMachine DEF GrantFlags, IInv, MachineOK
  <2> QED
    BY <1>2, <2>1, <2>2, GoHomeUnlocked, SameSwitch DEF GrantFlags
<1>3. CASE ForceProbe(t)
  <2>1. call[t].op \in {"live", "commit"} /\ UNCHANGED machineVars
    BY <1>3, ActivationCall DEF ForceProbe, At, ActivationPCs
  <2>2. CASE Probe /\ ~Engaged /\ Goto(t, "forced")
    BY <2>1, <2>2, GoOn, ProbeFacts, SameMachine DEF PCs
  <2>3. CASE Probe /\ Goto(t, "arming")
    BY <2>1, <2>3, GoOn, ProbeFacts, SameMachine DEF PCs
  <2>4. CASE \E pc \in {"forced", "arming"} : FailsOpen(t, pc)
    BY <2>1, <2>4, FailsOpenKeeps
  <2> QED
    BY <1>3, <2>2, <2>3, <2>4 DEF ForceProbe
<1>4. CASE ForceLook(t)
  <2>1. call[t].op \in {"live", "commit"} /\ (~stopped'[t] \/ call[t].blind)
    BY <1>4, ActivationCall, StillClear DEF ForceLook, At, ActivationPCs, Ahead
  <2>2. PICK pc \in {"granting", "overriding"} : Goto(t, pc)
    BY <1>4 DEF ForceLook
  <2> QED
    BY <1>4, <2>1, <2>2, GoOn, SameSwitch, SameMachine DEF ForceLook, PCs
<1>5. CASE ForceLive(t)
  <2>1. call[t].op \in {"live", "commit"} /\ ksLock # t /\ UNCHANGED switchVars
    BY <1>5, ActivationCall DEF ForceLive, At, ActivationPCs
  <2>2. CASE state' = "LIVE_ACTIVE" /\ Granted /\ Return(t)
    BY <2>1, <2>2, GoHomeUnlocked, SameSwitch, GrantedMachine DEF States
  <2>3. CASE UNCHANGED machineVars /\ Goto(t, "arming")
    BY <2>1, <2>3, GoOn, SameSwitch, SameMachine DEF PCs
  <2> QED
    BY <1>5, <2>2, <2>3 DEF ForceLive
<1> QED
  BY <1>1, <1>2, <1>3, <1>4, <1>5

\* The plain route of commit_activation.
LEMMA CommitKeeps ==
  ASSUME IInv, Remember, NEW t \in Threads,
         \/ SeeOff(t, "arming", "armed", "gated") \/ Arm(t, "armed", "gated")
         \/ Gate(t)
         \/ SeeOff(t, "rearming", "rearmed", "sampling") \/ Arm(t, "rearmed", "rearming")
         \/ SampleSwitch(t) \/ Prove(t) \/ Undo(t)
  PROVE  IInv'
<1>1. ASSUME NEW here \in ActivationPCs, NEW armed \in {"armed", "rearmed"},
             NEW skip \in {"gated", "sampling"}, SeeOff(t, here, armed, skip)
      PROVE  IInv'
  <2>1. call[t].op \in {"live", "commit"}
    BY <1>1, ActivationCall DEF SeeOff, At
  <2>2. PICK pc \in {"armed", "rearmed", "gated", "sampling"} : Goto(t, pc)
    BY <1>1 DEF SeeOff
  <2>3. UNCHANGED switchVars /\ UNCHANGED machineVars
    BY <1>1 DEF SeeOff
  <2> QED
    BY <2>1, <2>2, <2>3, GoOn, SameSwitch, SameMachine DEF PCs
<1>2. ASSUME NEW here \in ActivationPCs, NEW next \in {"gated", "rearming"},
             Arm(t, here, next)
      PROVE  IInv'
  <2>1. call[t].op \in {"live", "commit"}
    BY <1>2, ActivationCall DEF Arm, At
  <2>2. Goto(t, next) /\ UNCHANGED switchVars
    BY <1>2 DEF Arm
  <2>3. MachineOK' /\ LiveHasAuthority'
    BY <1>2, MovedMachine DEF Arm, States
  <2> QED
    BY <2>1, <2>2, <2>3, GoOn, SameSwitch DEF PCs
<1>3. CASE Gate(t)
  <2>1. call[t].op \in {"live", "commit"} /\ ksLock # t /\ UNCHANGED switchVars
    BY <1>3, ActivationCall DEF Gate, At, ActivationPCs
  <2>2. MachineOK' /\ LiveHasAuthority'
    <3>1. UNCHANGED <<state, committed>> /\ (granted' = granted \/ granted' = (granted \/ state = "LIVE_ACTIVE"))
      BY <1>3 DEF Gate
    <3> QED
      BY <3>1 DEF IInv, MachineOK, LiveHasAuthority
  <2>3. CASE Return(t)
    BY <2>1, <2>2, <2>3, GoHomeUnlocked, SameSwitch
  <2>4. CASE Goto(t, "rearming")
    BY <2>1, <2>2, <2>4, GoOn, SameSwitch DEF PCs
  <2> QED
    BY <1>3, <2>3, <2>4 DEF Gate
<1>4. CASE SampleSwitch(t)
  <2>1. call[t].op \in {"live", "commit"} /\ ksLock # t /\ UNCHANGED machineVars
    BY <1>4, ActivationCall DEF SampleSwitch, At, ActivationPCs
  <2>2. CASE Probe /\ ~Engaged /\ Goto(t, "proving")
    BY <2>1, <2>2, GoOn, ProbeFacts, SameMachine DEF PCs
  <2>3. CASE Probe /\ Return(t)
    BY <2>1, <2>3, GoHomeUnlocked, ProbeFacts, SameMachine
  <2>4. CASE FailsOpen(t, "proving")
    BY <2>1, <2>4, FailsOpenKeeps
  <2> QED
    BY <1>4, <2>2, <2>3, <2>4 DEF SampleSwitch
<1>5. CASE Prove(t)
  <2>1. /\ call[t].op \in {"live", "commit"} /\ ksLock # t
        /\ ~stopped'[t] \/ call[t].blind
    BY <1>5, ActivationCall, StillClear DEF Prove, At, ActivationPCs, Ahead
  <2>2. UNCHANGED switchVars /\ UNCHANGED machineVars
    BY <1>5 DEF Prove
  <2>3. CASE Return(t)
    BY <2>1, <2>2, <2>3, GoHomeUnlocked, SameSwitch, SameMachine
  <2>4. CASE Goto(t, "undoing")
    BY <2>1, <2>2, <2>4, GoOn, SameSwitch, SameMachine DEF PCs
  <2>5. CASE Enter(t, "LIVE_ACTIVE")
    BY <2>1, <2>2, <2>5, GoEnter DEF States
  <2> QED
    BY <1>5, <2>3, <2>4, <2>5 DEF Prove
<1>6. CASE Undo(t)
  <2>1. ksLock # t /\ UNCHANGED switchVars
    BY <1>6, ActivationCall DEF Undo, At, ActivationPCs
  <2>2. MachineOK' /\ LiveHasAuthority'
    <3>1. CASE state' = "LIVE_PENDING_CONFIRMATION" /\ Revoked
      BY <3>1 DEF MachineOK, LiveHasAuthority, Revoked, States
    <3> QED
      BY <1>6, <3>1, SameMachine DEF Undo
  <2> QED
    BY <1>6, <2>1, <2>2, GoHomeUnlocked, SameSwitch DEF Undo
<1> QED
  BY <1>1, <1>2, <1>3, <1>4, <1>5, <1>6 DEF ActivationPCs

\* Steps outside any call: is_active, the handoff, the operator, a restart.
LEMMA OutsideKeeps ==
  ASSUME IInv, Remember,
         \/ IsActive
         \/ ReleaseCoreLoop
         \/ OperatorFile /\ UNCHANGED <<machineVars, commitLock, call>>
         \/ Restart
  PROVE  IInv'
<1>1. ASSUME UNCHANGED <<ksLock, commitLock, call>>, SwitchTypeOK', MachineOK',
             LiveHasAuthority'
      PROVE  IInv'
  <2>1. CallsOK'
    BY <1>1, History DEF IInv, CallsOK
  <2>2. LocksOK' /\ PlacesOK'
    BY <1>1 DEF IInv, LocksOK, PlacesOK
  <2>3. SeenClear'
    <3> SUFFICES ASSUME NEW t \in Threads
                 PROVE  /\ call'[t].pc = "clearing" => ~stopped'[t]
                        /\ Ahead(t)' => ~stopped'[t] \/ call'[t].blind
      BY DEF SeenClear
    <3>1. Ahead(t)' => Ahead(t)
      BY <1>1 DEF Ahead
    <3>2. call'[t].pc = "clearing" => ~stopped'[t]
      BY <1>1, History DEF IInv, SeenClear
    <3> QED
      BY <1>1, <3>1, <3>2, StillClear
  <2> QED
    BY <1>1, <2>1, <2>2, <2>3 DEF IInv
<1>2. CASE IsActive
  BY <1>2, <1>1, ProbeFacts, SameMachine DEF IsActive
<1>3. CASE ReleaseCoreLoop
  <2>1. MachineOK' /\ LiveHasAuthority'
    BY <1>3 DEF ReleaseCoreLoop, IInv, MachineOK, LiveHasAuthority
  <2> QED
    BY <1>3, <2>1, <1>1, SameSwitch DEF ReleaseCoreLoop, switchVars
<1>4. CASE OperatorFile /\ UNCHANGED <<machineVars, commitLock, call>>
  <2>1. SwitchTypeOK' /\ ksLock' = ksLock
    BY <1>4 DEF OperatorFile, IInv, SwitchTypeOK
  <2>2. UNCHANGED machineVars /\ UNCHANGED commitLock /\ UNCHANGED call
    BY <1>4
  <2> QED
    BY <2>1, <2>2, <1>1, SameMachine
<1>5. CASE Restart
  <2>1. SwitchTypeOK' /\ ksLock' = NoThread /\ commitLock' = NoThread
    BY <1>5 DEF Restart, SwitchRestart, IInv, SwitchTypeOK
  <2>2. MachineOK' /\ LiveHasAuthority'
    BY <1>5 DEF Restart, StartStates, States, Revoked, MachineOK, LiveHasAuthority
  <2>3. call' = [t \in Threads |-> Idle]
    BY <1>5 DEF Restart
  <2>4. CallsOK'
    BY <2>1, <2>3, History DEF CallsOK, Call, Idle, Ops, PCs, States
  <2>5. LocksOK' /\ PlacesOK' /\ SeenClear'
    BY <2>1, <2>3 DEF LocksOK, PlacesOK, SeenClear, Ahead, Idle, ActivationPCs
  <2> QED
    BY <2>1, <2>2, <2>4, <2>5 DEF IInv
<1> QED
  BY <1>2, <1>3, <1>4, <1>5

LEMMA CallStepKeeps ==
  ASSUME IInv, Remember, NEW t \in Threads, CallStep(t)
  PROVE  IInv'
  BY ReadsKeep, EnterKeeps, LiveAndForceKeep, CommitKeeps DEF CallStep

-----------------------------------------------------------------------------
(* The theorems.                                                              *)

\* Whatever threads and requests there are, the invariant holds throughout.
THEOREM MachineInvariance == Spec => []IInv
<1>1. Init => IInv
  <2> SUFFICES ASSUME Init
               PROVE  IInv
    OBVIOUS
  <2>1. SwitchTypeOK /\ MachineOK /\ LiveHasAuthority
    BY DEF Init, SwitchInit, SwitchTypeOK, MachineOK, LiveHasAuthority, StartStates, States
  <2>2. CallsOK
    BY <2>1 DEF Init, CallsOK, Call, Idle, Ops, PCs, States, Engaged, SwitchTypeOK
  <2>3. LocksOK /\ PlacesOK /\ SeenClear
    BY DEF Init, SwitchInit, LocksOK, PlacesOK, SeenClear, Ahead, Idle, ActivationPCs
  <2> QED
    BY <2>1, <2>2, <2>3 DEF IInv
<1>2. IInv /\ [Next]_vars => IInv'
  <2> SUFFICES ASSUME IInv, [Next]_vars
               PROVE  IInv'
    OBVIOUS
  <2>1. CASE Next
    <3>1. Remember
      BY <2>1 DEF Next
    <3>2. ASSUME NEW t \in Threads, BeginCall(t) \/ CallStep(t)
          PROVE  IInv'
      BY <3>1, <3>2, BeginsKeep, CallStepKeeps
    <3> QED
      BY <2>1, <3>1, <3>2, OutsideKeeps DEF Next, Step
  <2>2. CASE UNCHANGED vars
    BY <2>2 DEF vars, switchVars, machineVars, IInv, SwitchTypeOK, MachineOK, CallsOK,
         LocksOK, PlacesOK, LiveHasAuthority, SeenClear, Ahead
  <2> QED
    BY <2>1, <2>2
<1> QED
  BY <1>1, <1>2, PTL DEF Spec

\* The types, and the locks that the calls hold (TradingStateMachine, KillSwitch).
THEOREM MachineTypes == Spec => []TypeOK
<1>1. IInv => TypeOK
  BY DEF IInv, TypeOK, MachineOK, CallsOK, LocksOK
<1> QED
  BY <1>1, MachineInvariance, PTL

\* A live machine has its flags, whichever windows of activation, rollback and
\* stop follow each other.
THEOREM LiveIsAuthorised == Spec => []LiveHasAuthority
<1>1. IInv => LiveHasAuthority
  BY DEF IInv
<1> QED
  BY <1>1, MachineInvariance, PTL

\* Only deactivate, reading the machine in EMERGENCY_STOP, waits for a lock that
\* it holds itself; every other holder of the switch's lock goes on.
THEOREM HangsAreDeactivates == Spec => []OnlyDeactivateHangs
<1>1. ASSUME IInv
      PROVE  OnlyDeactivateHangs
  <2> SUFFICES ASSUME NEW t \in Threads, Waits(t)
               PROVE  \E u \in Threads :
                        /\ ksLock = u
                        /\ Waits(u) => call[u].op = "deactivate" /\ At(u, "probing")
    BY DEF OnlyDeactivateHangs
  <2>1. PICK u \in Threads : ksLock = u
    BY <1>1 DEF Waits, IInv, SwitchTypeOK
  <2>2. call[u].op \in {"activate", "deactivate"}
    BY <1>1, <2>1 DEF IInv, LocksOK
  <2>3. Waits(u) => call[u].op = "deactivate" /\ At(u, "probing")
    BY <1>1, <2>2 DEF Waits, At, IInv, PlacesOK, ActivationPCs
  <2> QED
    BY <2>1, <2>3
<1> QED
  BY <1>1, MachineInvariance, PTL

\* No call that began under a standing stop activates, or clears EMERGENCY_STOP,
\* unless a look of its own at the engaged switch raised: the looks fail open.
THEOREM StopIsHonoured == Spec => SwitchSeenClear
<1> DEFINE Honoured(t) ==
      /\ CallStep(t)
      /\ stopped[t] /\ ~call[t].blind
      /\ call[t].op \in {"read", "live", "commit"}
      => /\ state' = "LIVE_ACTIVE" => state = "LIVE_ACTIVE"
         /\ state = "EMERGENCY_STOP" => state' = "EMERGENCY_STOP"
<1>1. ASSUME IInv, NEW t \in Threads
      PROVE  Honoured(t)
  <2> SUFFICES ASSUME CallStep(t), stopped[t], ~call[t].blind,
                      call[t].op \in {"read", "live", "commit"}
               PROVE  /\ state' = "LIVE_ACTIVE" => state = "LIVE_ACTIVE"
                      /\ state = "EMERGENCY_STOP" => state' = "EMERGENCY_STOP"
    OBVIOUS
  <2>1. ~Ahead(t)
    BY <1>1 DEF IInv, SeenClear
  <2>2. CASE state' = state
    BY <2>2
  <2>3. CASE AutoClear(t) \/ ForceLive(t) \/ EnterState(t)
    <3>1. call[t].pc \notin {"clearing", "overriding"}
      BY <2>1 DEF Ahead
    <3>2. EnterState(t) => call[t].op = "read" /\ call[t].pc = "entering"
      BY <2>1 DEF Ahead, EnterState, At
    <3>3. call[t].op # "read" \/ call[t].pc # "entering"
      BY <1>1 DEF IInv, PlacesOK
    <3> QED
      BY <2>3, <3>1, <3>2, <3>3 DEF AutoClear, ForceLive, At
  <2>4. CASE \E here, next \in PCs : Arm(t, here, next)
    BY <2>4 DEF Arm, Transition, Allowed, Moved, VALID_TRANSITIONS, States, machineVars
  <2>5. CASE Undo(t)
    BY <2>5 DEF Undo, machineVars
  <2> QED
    BY <2>2, <2>3, <2>4, <2>5
       DEF CallStep, Look, AskSwitch, EndRead, EndDeactivate, SyncLive, GrantFlags,
           ForceProbe, ForceLook, SeeOff, Gate, SampleSwitch, Prove, machineVars, PCs
<1>2. IInv => \A t \in Threads : Honoured(t)
  BY <1>1
<1>3. UNCHANGED vars => \A t \in Threads : Honoured(t)
  BY DEF vars, machineVars
<1>4. IInv /\ [Next]_vars => [\A t \in Threads : Honoured(t)]_vars
  BY <1>2
<1> QED
  BY <1>4, MachineInvariance, PTL DEF Spec, SwitchSeenClear

-----------------------------------------------------------------------------
(* A delivered stop stands.                                                   *)

\* What activate and deactivate mean while they keep the lock of the switch.
StopCallsOK ==
  \A t \in Threads :
    /\ call[t].op = "activate" => call[t].target = "EMERGENCY_STOP"
    /\ call[t].op = "deactivate" => ~active
    /\ call[t].op = "none" => call[t].pc = "idle"

StopInv ==
  /\ StopCallsOK
  /\ StopStands
  /\ halted => active

\* A step of a call leaves the others alone, keeps its operation to the end, and
\* changes the flag of the switch only by asking it.
LEMMA CallStepForm ==
  ASSUME IInv, NEW t \in Threads, CallStep(t)
  PROVE  /\ OthersWait(t)
         /\ call[t].pc # "idle"
         /\ \/ call'[t] = Idle
            \/ call'[t].op = call[t].op /\ call[t].op # "activate"
         /\ UNCHANGED active \/ Probe
<1>1. ASSUME Return(t)
      PROVE  OthersWait(t) /\ call'[t] = Idle
  BY <1>1, ReturnCall DEF IInv, OthersWait
<1>2. ASSUME call[t].pc # "entering" \/ call[t].op # "activate",
             \/ \E pc \in PCs : Goto(t, pc) \/ FailsOpen(t, pc)
             \/ \E target \in States : Enter(t, target)
      PROVE  OthersWait(t) /\ call'[t].op = call[t].op /\ call[t].op # "activate"
  <2>1. call[t].op # "activate"
    BY <1>2 DEF IInv, PlacesOK
  <2>2. ASSUME NEW pc \in PCs, Goto(t, pc)
        PROVE  OthersWait(t) /\ call'[t].op = call[t].op
    <3>1. CallsOK
      BY DEF IInv
    <3>2. /\ call'[t] = [op |-> call[t].op, pc |-> pc, target |-> call[t].target,
                         blind |-> call[t].blind]
          /\ \A u \in Threads \ {t} : call'[u] = call[u]
      BY <2>2, <3>1, GotoCall
    <3> QED
      BY <3>2 DEF OthersWait
  <2>3. ASSUME NEW target \in States, Enter(t, target)
        PROVE  OthersWait(t) /\ call'[t].op = call[t].op
    <3>1. CallsOK
      BY DEF IInv
    <3>2. /\ call'[t] = [op |-> call[t].op, pc |-> "entering", target |-> target,
                         blind |-> call[t].blind]
          /\ \A u \in Threads \ {t} : call'[u] = call[u]
      BY <2>3, <3>1, EnterCall
    <3> QED
      BY <3>2 DEF OthersWait
  <2>4. ASSUME NEW pc \in PCs, FailsOpen(t, pc)
        PROVE  OthersWait(t) /\ call'[t].op = call[t].op
    <3>1. CallsOK /\ SwitchTypeOK
      BY DEF IInv
    <3>2. /\ call'[t] = [op |-> call[t].op, pc |-> pc, target |-> call[t].target,
                         blind |-> call[t].blind \/ Engaged]
          /\ \A u \in Threads \ {t} : call'[u] = call[u]
      BY <2>4, <3>1, FailsOpenCall
    <3> QED
      BY <3>2 DEF OthersWait
  <2> QED
    BY <1>2, <2>1, <2>2, <2>3, <2>4
<1>3. CASE EnterState(t)
  <2>1. At(t, "entering") /\ UNCHANGED active
    BY <1>3 DEF EnterState, Unlock
  <2>2. \/ Return(t)
        \/ call[t].op \in {"live", "commit"} /\ \E pc \in PCs : Goto(t, pc)
    BY <1>3 DEF EnterState, PCs
  <2>3. \/ OthersWait(t) /\ call'[t] = Idle
        \/ OthersWait(t) /\ call'[t].op = call[t].op /\ call[t].op # "activate"
    BY <2>2, <1>1, <1>2
  <2> QED
    BY <2>1, <2>3 DEF At
<1>4. CASE ~EnterState(t)
  <2>1. call[t].pc \notin {"idle", "entering"}
    BY <1>4 DEF CallStep, Look, AskSwitch, AutoClear, EndRead, EndDeactivate, SyncLive,
         GrantFlags, ForceProbe, ForceLook, ForceLive, SeeOff, Arm, Gate, SampleSwitch,
         Prove, Undo, At
  <2>2. UNCHANGED active \/ Probe
    BY <1>4 DEF CallStep, Look, AskSwitch, AutoClear, EndRead, EndDeactivate, SyncLive,
         GrantFlags, ForceProbe, ForceLook, ForceLive, SeeOff, Arm, Gate, SampleSwitch,
         Prove, Undo, Unlock, FailsOpen, switchVars
  <2>3. \/ Return(t)
        \/ \E pc \in PCs : Goto(t, pc) \/ FailsOpen(t, pc)
        \/ \E target \in States : Enter(t, target)
    BY <1>4 DEF CallStep, Look, AskSwitch, AutoClear, EndRead, EndDeactivate, SyncLive,
         GrantFlags, ForceProbe, ForceLook, ForceLive, SeeOff, Arm, Gate, SampleSwitch,
         Prove, Undo, PCs, States
  <2> QED
    BY <2>1, <2>2, <2>3, <1>1, <1>2
<1> QED
  BY <1>3, <1>4

\* Nobody keeps the lock of the switch when it is free.
LEMMA NobodyStops ==
  ASSUME IInv, ksLock = NoThread, NEW u \in Threads
  PROVE  call[u].op \notin {"activate", "deactivate"}
  BY DEF IInv, LocksOK

\* The flag is only set again once deactivate has given the lock up.
LEMMA StopCallsKept ==
  ASSUME IInv, StopCallsOK, Step
  PROVE  StopCallsOK'
<1>1. ASSUME NEW t \in Threads, CallStep(t)
      PROVE  StopCallsOK'
  <2>1. /\ OthersWait(t)
        /\ call[t].pc # "idle"
        /\ \/ call'[t] = Idle
           \/ call'[t].op = call[t].op /\ call[t].op # "activate"
        /\ UNCHANGED active \/ Probe
    BY <1>1, CallStepForm
  <2>2. CASE UNCHANGED active
    BY <2>1, <2>2 DEF StopCallsOK, OthersWait, Idle
  <2>3. CASE Probe
    BY <2>1, <2>3, NobodyStops DEF StopCallsOK, OthersWait, Idle, Probe
  <2> QED
    BY <2>1, <2>2, <2>3
<1>2. ASSUME NEW t \in Threads, BeginCall(t)
      PROVE  StopCallsOK'
  <2>1. CASE BeginActivate(t)
    <3>1. /\ OthersWait(t)
          /\ call'[t] = [op |-> "activate", pc |-> "entering",
                         target |-> "EMERGENCY_STOP", blind |-> FALSE]
      BY <2>1, BeginCallFact
         DEF BeginActivate, IInv, OthersWait, Ops, PCs, States
    <3> QED
      BY <2>1, <3>1, NobodyStops DEF BeginActivate, Engage, StopCallsOK, OthersWait
  <2>2. CASE BeginDeactivate(t)
    <3>1. /\ OthersWait(t)
          /\ call'[t] = [op |-> "deactivate", pc |-> "reading",
                         target |-> "OFF", blind |-> FALSE]
      BY <2>2, BeginCallFact
         DEF BeginDeactivate, IInv, OthersWait, Ops, PCs, States
    <3> QED
      BY <2>2, <3>1, NobodyStops DEF BeginDeactivate, Disengage, StopCallsOK, OthersWait
  <2>0. ASSUME NEW op \in {"read", "request", "live", "commit"},
               OthersWait(t), call'[t].op = op, UNCHANGED active \/ Probe
        PROVE  StopCallsOK'
    <3>1. CASE UNCHANGED active
      BY <2>0, <3>1 DEF StopCallsOK, OthersWait
    <3>2. CASE Probe
      BY <2>0, <3>2, NobodyStops DEF StopCallsOK, OthersWait, Probe
    <3> QED
      BY <2>0, <3>1, <3>2
  <2>3. ASSUME NEW op \in {"read", "request", "live", "commit"}, NEW pc \in PCs,
               NEW target \in States, Begin(t, op, pc, target),
               UNCHANGED active \/ Probe
        PROVE  StopCallsOK'
    <3>1. op \in Ops /\ CallsOK
      BY DEF IInv, Ops
    <3>2. /\ call'[t] = [op |-> op, pc |-> pc, target |-> target, blind |-> FALSE]
          /\ \A u \in Threads \ {t} : call'[u] = call[u]
      BY <2>3, <3>1, BeginCallFact
    <3>3. OthersWait(t) /\ call'[t].op = op
      BY <3>2 DEF OthersWait
    <3> QED
      BY <2>3, <3>3, <2>0
  <2>4. CASE BeginRead(t)
    BY <2>4, <2>3 DEF BeginRead, switchVars, PCs, States
  <2>5. CASE BeginLive(t)
    <3>1. CASE Begin(t, "live", "syncing", "OFF") /\ Probe
      BY <3>1, <2>3 DEF PCs, States
    <3>2. CASE /\ UNCHANGED switchVars
               /\ call' = [call EXCEPT ![t] =
                    [op |-> "live", pc |-> "syncing", target |-> "OFF", blind |-> Engaged]]
      <4>1. OthersWait(t) /\ call'[t].op = "live" /\ UNCHANGED active
        BY <3>2 DEF IInv, CallsOK, OthersWait, switchVars
      <4> QED
        BY <4>1, <2>0
    <3> QED
      BY <2>5, <3>1, <3>2 DEF BeginLive
  <2>6. CASE BeginCommit(t)
    <3>1. PICK pc \in {"arming", "forcing"} : Begin(t, "commit", pc, "OFF")
      BY <2>6 DEF BeginCommit
    <3>2. UNCHANGED active
      BY <2>6 DEF BeginCommit, switchVars
    <3> QED
      BY <3>1, <3>2, <2>3 DEF PCs, States
  <2>7. ASSUME NEW target \in Requests, BeginRequest(t, target)
        PROVE  StopCallsOK'
    BY <2>7, <2>3 DEF BeginRequest, switchVars, PCs
  <2> QED
    BY <1>2, <2>1, <2>2, <2>4, <2>5, <2>6, <2>7 DEF BeginCall
<1>3. CASE IsActive
  BY <1>3, NobodyStops DEF IsActive, Probe, StopCallsOK
<1>4. CASE ReleaseCoreLoop \/ (OperatorFile /\ UNCHANGED <<machineVars, commitLock, call>>)
  BY <1>4 DEF ReleaseCoreLoop, OperatorFile, switchVars, StopCallsOK
<1>5. CASE Restart
  BY <1>5 DEF Restart, StopCallsOK, Idle
<1> QED
  BY <1>1, <1>2, <1>3, <1>4, <1>5 DEF Step

\* A stop that activate hands over is taken in every state.
LEMMA StopIsTaken ==
  ASSUME IInv, StopCallsOK, NEW t \in Threads, call[t].op = "activate", EnterState(t)
  PROVE  state' = "EMERGENCY_STOP"
<1>1. Transition("EMERGENCY_STOP") /\ state \in States
  BY DEF EnterState, StopCallsOK, IInv, MachineOK
<1>2. CASE state = "EMERGENCY_STOP"
  BY <1>1, <1>2 DEF Transition, Moved, machineVars
<1>3. CASE state # "EMERGENCY_STOP"
  BY <1>1, <1>3 DEF Transition, Allowed, Moved, VALID_TRANSITIONS, States
<1> QED
  BY <1>2, <1>3

\* Out of EMERGENCY_STOP there is one transition.
LEMMA OnlyToOff ==
  ASSUME state = "EMERGENCY_STOP", NEW target \in States \ {"OFF"}, Transition(target)
  PROVE  state' = "EMERGENCY_STOP"
  BY DEF Transition, Allowed, VALID_TRANSITIONS, States, machineVars

\* While the switch is set, only those who may lift a delivered stop move the machine.
LEMMA OnlyLiftsMove ==
  ASSUME IInv, StopInv, Step, halted, ~Lifts
  PROVE  state' = "EMERGENCY_STOP"
<1> USE DEF machineVars
<1>1. state = "EMERGENCY_STOP" /\ active
  BY DEF StopInv, StopStands
<1>2. ASSUME NEW t \in Threads, EnterState(t)
      PROVE  state' = "EMERGENCY_STOP"
  <2>1. call[t].pc = "entering" /\ Transition(call[t].target) /\ call[t].target \in States
    BY <1>2 DEF EnterState, At, IInv, CallsOK, Call
  <2>2. call[t].op \in {"activate", "request", "live", "commit"}
    BY <1>1, <2>1 DEF StopInv, StopCallsOK, IInv, PlacesOK, CallsOK, Call, Ops
  <2>3. call[t].target # "OFF"
    BY <1>2, <2>1, <2>2 DEF Lifts, StopInv, StopCallsOK, IInv, PlacesOK
  <2> QED
    BY <1>1, <2>1, <2>3, OnlyToOff
<1>3. ASSUME NEW t \in Threads, AutoClear(t)
      PROVE  FALSE
  BY <1>3 DEF AutoClear, At, Lifts, IInv, SeenClear, Ahead
<1>4. ASSUME NEW t \in Threads, NEW here \in PCs, NEW next \in PCs, Arm(t, here, next)
      PROVE  state' = "EMERGENCY_STOP"
  BY <1>1, <1>4, OnlyToOff DEF Arm, States
<1>5. ASSUME NEW t \in Threads, CallStep(t)
      PROVE  state' = "EMERGENCY_STOP"
  <2>1. CASE EnterState(t) \/ AutoClear(t)
    BY <1>2, <1>3, <2>1
  <2>2. CASE ForceLive(t) \/ Undo(t)
    BY <1>1, <2>2 DEF ForceLive, Undo
  <2>3. CASE Arm(t, "armed", "gated") \/ Arm(t, "rearmed", "rearming")
    BY <1>4, <2>3 DEF PCs
  <2> QED
    BY <1>1, <1>5, <2>1, <2>2, <2>3
       DEF CallStep, Look, AskSwitch, EndRead, EndDeactivate, SyncLive, GrantFlags,
           ForceProbe, ForceLook, SeeOff, Gate, SampleSwitch, Prove
<1>6. ASSUME NEW t \in Threads, BeginCall(t)
      PROVE  state' = "EMERGENCY_STOP"
  BY <1>1, <1>6 DEF BeginCall, BeginRead, BeginActivate, BeginDeactivate, BeginLive,
       BeginCommit, BeginRequest
<1>7. ~Restart
  BY DEF Lifts
<1> QED
  BY <1>1, <1>5, <1>6, <1>7 DEF Step, IsActive, ReleaseCoreLoop

\* A stop handed to the machine stands while the switch is set, whatever
\* activations were under way and whichever deactivate came before it.
THEOREM DeliveredStopStands == Spec => []StopStands
<1>1. Init => StopInv
  BY DEF Init, StopInv, StopCallsOK, StopStands, Idle
<1>2. IInv /\ StopInv /\ [Next]_vars => StopInv'
  <2> SUFFICES ASSUME IInv, StopInv, [Next]_vars
               PROVE  StopInv'
    OBVIOUS
  <2>1. CASE Next
    <3>1. StopCallsOK'
      BY <2>1, StopCallsKept DEF Next, StopInv
    <3>2. halted' => active' /\ (Delivers \/ (halted /\ ~Lifts))
      BY <2>1 DEF Next, Remember
    <3>3. StopStands'
      <4> SUFFICES ASSUME halted'
                   PROVE  state' = "EMERGENCY_STOP"
        BY DEF StopStands
      <4>1. CASE Delivers
        BY <4>1, StopIsTaken DEF Delivers, StopInv
      <4>2. CASE halted /\ ~Lifts
        BY <2>1, <4>2, OnlyLiftsMove DEF Next
      <4> QED
        BY <3>2, <4>1, <4>2
    <3> QED
      BY <3>1, <3>2, <3>3 DEF StopInv
  <2>2. CASE UNCHANGED vars
    BY <2>2 DEF vars, switchVars, machineVars, StopInv, StopCallsOK, StopStands
  <2> QED
    BY <2>1, <2>2
<1>3. StopInv => StopStands
  BY DEF StopInv
<1> QED
  BY <1>1, <1>2, <1>3, MachineInvariance, PTL DEF Spec
=============================================================================
