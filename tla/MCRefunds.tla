------------------------------ MODULE MCRefunds ------------------------------
(* Small instances of Refunds for TLC; the processes are interchangeable.     *)
EXTENDS Refunds, TLC

Symmetry == Permutations(Workers)
=============================================================================
