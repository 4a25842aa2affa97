-------------------------------- MODULE Budget --------------------------------
(***************************************************************************)
(* What the cost guard promises for one user and one day: a paid call is   *)
(* admitted only while what was spent and what is still held leave room    *)
(* for it.  over is spend nobody could hold back: a call that cost more    *)
(* than its estimate, or one charged after its reservation had lapsed.     *)
(***************************************************************************)
EXTENDS Naturals, FiniteSetsExt

CONSTANTS Calls, Limit, Cents

VARIABLES spent, over, held

vars == <<spent, over, held>>

Held == MapThenSumSet(LAMBDA c : held[c], Calls)

Init == spent = 0 /\ over = 0 /\ held = [c \in Calls |-> 0]

Admit(c, n) ==
  /\ held[c] = 0
  /\ spent + Held + n <= Limit + over
  /\ held' = [held EXCEPT ![c] = n]
  /\ UNCHANGED <<spent, over>>

\* The call ended with its cost known; what exceeds the estimate is overrun.
Settle(c, actual) ==
  /\ held[c] > 0
  /\ spent' = spent + actual
  /\ over' = over + IF actual > held[c] THEN actual - held[c] ELSE 0
  /\ held' = [held EXCEPT ![c] = 0]

\* Calls that were not billed, or whose reservation has lapsed.
Release(lapsed) ==
  /\ held' = [c \in Calls |-> IF c \in lapsed THEN 0 ELSE held[c]]
  /\ UNCHANGED <<spent, over>>

Charge(n) ==
  /\ spent' = spent + n
  /\ over' = over + n
  /\ UNCHANGED held

Next ==
  \/ \E c \in Calls, n \in Cents : Admit(c, n) \/ Settle(c, n)
  \/ \E lapsed \in SUBSET Calls : Release(lapsed)
  \/ \E n \in Cents : Charge(n)

Spec == Init /\ [][Next]_vars
===============================================================================
