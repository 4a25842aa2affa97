----------------------------- MODULE MCCostGuard -----------------------------
(* A small instance of CostGuard for TLC; the calls are interchangeable.      *)
EXTENDS CostGuard, TLC

Interchangeable == Permutations(Calls)
===============================================================================
