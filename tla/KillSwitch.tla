----------------------------- MODULE KillSwitch -----------------------------
(* The global kill switch (bot/kill_switch.py): a flag in memory, a file on   *)
(* disk that also counts as an activation, and one non-reentrant lock that    *)
(* activate and deactivate keep while they call the trading state machine.    *)
(*                                                                            *)
(* The operators here are the switch's part of a step; TradingStateMachine    *)
(* composes them with the calls they make into that machine.                  *)
CONSTANTS
  Threads,    \* the threads that call the switch and the machine
  NoThread    \* nobody

ASSUME NoThreadAssumption == NoThread \notin Threads

VARIABLES
  active,   \* _is_active
  file,     \* the EMERGENCY_STOP file exists
  ksLock    \* the holder of KillSwitch._lock

switchVars == <<active, file, ksLock>>

SwitchTypeOK ==
  /\ active \in BOOLEAN
  /\ file \in BOOLEAN
  /\ ksLock \in Threads \cup {NoThread}

\* Whatever is_active will answer next.
Engaged == active \/ file

\* _load_state forgets the flag, _check_file_activation restores it.
SwitchInit ==
  /\ file \in BOOLEAN
  /\ active = file
  /\ ksLock = NoThread

\* activate up to its call of transition_to.  Writing the file may fail; the
\* error is logged and the switch is active all the same.
Engage(t) ==
  /\ ksLock = NoThread
  /\ ~active
  /\ active' = TRUE
  /\ file' \in {file, TRUE}
  /\ ksLock' = t

\* deactivate up to its call of get_current_state; removing the file may fail.
Disengage(t) ==
  /\ ksLock = NoThread
  /\ active
  /\ active' = FALSE
  /\ file' \in {file, FALSE}
  /\ ksLock' = t

\* Mutant of Unlock: whoever returns opens the lock.
UnlockAnyway(t) ==
  /\ ksLock' = IF t \in Threads THEN NoThread ELSE ksLock
  /\ UNCHANGED <<active, file>>

\* The end of activate and deactivate.
Unlock(t) ==
  /\ ksLock' = IF ksLock = t THEN NoThread ELSE ksLock
  /\ UNCHANGED <<active, file>>

\* is_active: a file that appeared activates the switch, which does not tell the
\* trading state machine.
Probe ==
  /\ ksLock = NoThread
  /\ active' = Engaged
  /\ UNCHANGED <<file, ksLock>>

\* External: an operator creates or deletes the file.
OperatorFile ==
  /\ file' = ~file
  /\ UNCHANGED <<active, ksLock>>

\* A new process: __init__.
SwitchRestart ==
  /\ active' = file
  /\ ksLock' = NoThread
  /\ UNCHANGED file
=============================================================================
