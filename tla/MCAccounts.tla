----------------------------- MODULE MCAccounts -----------------------------
(* Small instances of Accounts for TLC.                                      *)
EXTENDS Accounts

CONSTANTS boss, guest

Symmetry == Permutations(Requests)

Operations == {"patch", "edit", "role", "signin", "factor", "voucher", "ask", "confirm",
               "invite", "link", "password", "help", "approve", "reject", "login",
               "choice", "world"}
Only(load) == load @@ [op \in Operations |-> 0]

Employees == boss :> 3
Closed == [modes |-> {"qr", "access_code", "open"}, domain |-> {guest}, invite |-> TRUE,
           single |-> TRUE, factors |-> 1]
Toggles == {[single |-> FALSE], [factors |-> 2]}

SignupLoad ==
  {Only([signin |-> 1, voucher |-> 2, ask |-> 1, confirm |-> 2])}
RecoveryLoad ==
  {Only([signin |-> 1, help |-> 1, approve |-> 2, reject |-> 1, login |-> 2])}
PolicyLoad ==
  {Only([signin |-> 1, patch |-> 2])}
PeopleLoad ==
  {Only([signin |-> 2, factor |-> 1, edit |-> 1, role |-> 1]),
   Only([signin |-> 1, invite |-> 1, link |-> 1, password |-> 2])}
PrivacyLoad ==
  {Only([choice |-> 3, world |-> 1])}

Loads == SignupLoad \cup RecoveryLoad \cup PolicyLoad \cup PeopleLoad \cup PrivacyLoad
=============================================================================
