---------------------------- MODULE MCContracts ----------------------------
(* Two processes and a year that is followed by two months. *)
EXTENDS Contracts
=============================================================================
