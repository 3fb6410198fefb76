--------------------------- MODULE MCNonceLease ----------------------------
(* Instances of NonceLease for TLC. *)
EXTENDS NonceLease, FiniteSets

CONSTANTS
  p1, p2, k1,
  MaxLosses   \* bound: keys that Redis has lost at once

TwoContainers == {<<p1, k1, "api">>, <<p2, k1, "api">>}
OneBeat == {<<p1, k1, "api">>, <<p1, k1, "beat">>}

\* p1 has elected itself, p2 is down: the start of a rolling deployment.
ElectedInit ==
  /\ NonceInit
  /\ boot = [p \in Procs |-> IF p = p1 THEN 1 ELSE 0]
  /\ role = [p \in Procs |-> IF p = p1 THEN "writer" ELSE "down"]
  /\ token = [p \in Procs |-> IF p = p1 THEN 1 ELSE 0]
  /\ held = [p \in Procs |-> None]
  /\ lock = MyLock(p1)
  /\ meta = TRUE
  /\ fence = 1

ElectedFairSpec == ElectedInit /\ [][Next]_vars /\ Fairness

\* p2 has elected itself after the lock of p1 expired, and p1 has not noticed: the
\* end of that deployment.
SupersededInit ==
  /\ NonceInit
  /\ boot = [p \in Procs |-> 1]
  /\ role = [p \in Procs |-> "writer"]
  /\ token = [p \in Procs |-> IF p = p1 THEN 1 ELSE 2]
  /\ held = [p \in Procs |-> None]
  /\ lock = MyLock(p2)
  /\ meta = TRUE
  /\ fence = 2

SupersededSpec == SupersededInit /\ [][Next]_vars

\* What Redis has lost under a live writer.
Losses ==
  LET live == \E p \in Procs : role[p] = "writer" IN
    (IF live /\ lock = None THEN {"lock"} ELSE {})
    \cup (IF live /\ ~meta THEN {"meta"} ELSE {})
    \cup {k \in Keys : lease[k] # None /\ lease[k].version = 0}

FewLosses == Cardinality(Losses) <= MaxLosses
=============================================================================
