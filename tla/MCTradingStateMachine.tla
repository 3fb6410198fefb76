----------------------- MODULE MCTradingStateMachine ------------------------
(* Instances of TradingStateMachine for TLC. *)
EXTENDS TradingStateMachine, TLC

CONSTANTS t1, t2, t3

Interchangeable == Permutations(Threads)
=============================================================================
