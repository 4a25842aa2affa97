------------------------------- MODULE MCLedger -------------------------------
(* Small instances of Declarations, which extends Ledger, for TLC.             *)
EXTENDS Declarations, TLC

Operations == {"form", "own", "click", "resolve", "refuse", "die"}
Only(load) == load @@ [op \in Operations |-> 0]
AccountLoad == {Only([form |-> 0])}
MailLoad == {Only([form |-> 1, refuse |-> 1, die |-> 1])}
FormLoad == {Only([form |-> 1, click |-> 2, resolve |-> 1])}
OwnLoad == {Only([own |-> 1, resolve |-> 1, die |-> 1])}
AllLoads == AccountLoad \cup MailLoad \cup FormLoad \cup OwnLoad
===============================================================================
