----------------------------- MODULE TokenAccount -----------------------------
(***************************************************************************)
(* What the token account promises its owner (billing): a debit takes its  *)
(* whole amount at once, the grant that lapses before the rest; a reversal *)
(* gives back what the debit took, once, as tokens that never lapse; and   *)
(* the package is taken back only for what its unused tokens are worth.    *)
(***************************************************************************)
EXTENDS Naturals, FiniteSetsExt

CONSTANTS Debits, Amounts, Granted, Tokens, Price

VARIABLES
  lapsed,    \* the grant has expired
  grant, package, returned,  \* tokens left of the grant, of the package, of reversals
  debited,   \* tokens by reference of a debit; 0: no debit yet
  undone,    \* references of the reversed debits
  status,    \* of the purchase of the package
  refunded   \* cents paid back for it

vars == <<lapsed, grant, package, returned, debited, undone, status, refunded>>

Balance == grant + package + returned
Standing == {ref \in Debits : debited[ref] > 0} \ undone
Used == MapThenSumSet(LAMBDA ref : debited[ref], Standing)
Given == Granted + IF status = "none" THEN 0 ELSE Tokens

\* Nobody spends what was not granted or paid for: what is left, and what the
\* debits took that stand, came with the grant and the package.
NeverOverspent == Balance + Used <= Given

\* An account with any past that adds up.
Init ==
  /\ lapsed \in BOOLEAN /\ status \in {"none", "active"} /\ refunded = 0
  /\ grant \in IF lapsed THEN {0} ELSE 0 .. Granted
  /\ package \in IF status = "none" THEN {0} ELSE 0 .. Tokens
  /\ returned \in Nat /\ debited \in [Debits -> Nat]
  /\ undone \subseteq {ref \in Debits : debited[ref] > 0}
  /\ NeverOverspent

Buy ==
  /\ status = "none"
  /\ status' = "active"
  /\ package' = package + Tokens
  /\ UNCHANGED <<lapsed, grant, returned, debited, undone, refunded>>

Debit(ref, amount) ==
  /\ debited[ref] = 0 /\ amount <= Balance
  /\ grant' = IF amount < grant THEN grant - amount ELSE 0
  /\ package' \in 0 .. package /\ returned' \in 0 .. returned
  /\ Balance' + amount = Balance
  /\ debited' = [debited EXCEPT ![ref] = amount]
  /\ UNCHANGED <<lapsed, undone, status, refunded>>

Reverse(ref) ==
  /\ debited[ref] > 0 /\ ref \notin undone
  /\ undone' = undone \cup {ref}
  /\ returned' = returned + debited[ref]
  /\ UNCHANGED <<lapsed, grant, package, debited, status, refunded>>

Lapse ==
  /\ ~lapsed
  /\ lapsed' = TRUE
  /\ grant' = 0
  /\ UNCHANGED <<package, returned, debited, undone, status, refunded>>

\* What some of the package's tokens are worth, in whole cents.
Worth(tokens) == (tokens * Price) \div Tokens

\* A refund made at Stripe before a crash was of a fuller package.
Withdraw(cents) ==
  /\ status = "active" /\ cents \in Worth(package) .. Price
  /\ status' = "withdrawn"
  /\ package' = 0
  /\ refunded' = cents
  /\ UNCHANGED <<lapsed, grant, returned, debited, undone>>

Next ==
  \/ Buy \/ Lapse
  \/ \E ref \in Debits : Reverse(ref) \/ \E amount \in Amounts : Debit(ref, amount)
  \/ \E cents \in 0 .. Price : Withdraw(cents)

Spec == Init /\ [][Next]_vars
===============================================================================
