--------------------------- MODULE MCPositionExit ---------------------------
(* An instance of PositionExit for TLC. *)
EXTENDS PositionExit

CONSTANTS t1, t2

\* Bound: once exits have crossed, no purchase is in doubt.
CalmWhenCrossed == crossed => sunk + resting = 0

OneRetry == [category \in RETRY \cup BACKOFF |-> 1]
=============================================================================
