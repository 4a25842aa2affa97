------------------------------- MODULE CostGuard -------------------------------
(***************************************************************************)
(* The daily AI budget of one user (extraction/cost_guard.py), kept in a   *)
(* shared cache without a lock, and the callers that reserve, run a paid   *)
(* provider call and settle or release it (extraction/service.py and       *)
(* assistant/drivers/base.py).                                             *)
(*                                                                         *)
(* A reservation is added to the counter of the five-minute bucket it was  *)
(* made in; a request then sums the counters of its window one by one,     *)
(* reads the settled counter, and rolls back when the total is too high.   *)
(* Time is counted in buckets; Lifetime is the reservation's life in them. *)
(***************************************************************************)
EXTENDS Naturals, FiniteSetsExt

CONSTANTS
  Calls,      \* paid calls of one user on one day
  Limit,      \* AI_DAILY_COST_LIMIT_CENTS
  Estimates,  \* what a call may be estimated at
  Actuals,    \* what it may cost; more than its estimate is possible
  Lifetime,   \* buckets of the reservation window (_reservation_buckets)
  Horizon     \* the last bucket of the instance: the bound on time

ASSUME BudgetAssumption ==
  /\ IsFiniteSet(Calls)
  /\ Limit \in Nat /\ Lifetime \in Nat \ {0}
  /\ Estimates \subseteq Nat \ {0} /\ Actuals \subseteq Nat \ {0}
  /\ Horizon \in Nat

Buckets == 0 .. Horizon

VARIABLES
  clock,     \* the bucket of the current time
  reserved,  \* the cache's reservation counter of each bucket
  settled,   \* the cache's counter of settled cents
  over,      \* cents that no reservation covered when they were settled
  call       \* the call in each process: its step and its local variables

vars == <<clock, reserved, settled, over, call>>

Steps == {"idle", "adding", "added", "summing", "held", "rollback", "kept", "done"}

CallType == [step: Steps, bucket: Buckets, cents: Estimates \cup {0},
             last: Buckets, next: Nat, sum: Nat]

TypeOK ==
  /\ clock \in Buckets
  /\ reserved \in [Buckets -> Nat]
  /\ settled \in Nat /\ over \in Nat
  /\ call \in [Calls -> CallType]

Idle == [step |-> "idle", bucket |-> 0, cents |-> 0, last |-> 0, next |-> 0, sum |-> 0]

Init ==
  /\ clock = 0
  /\ reserved = [b \in Buckets |-> 0]
  /\ settled = 0
  /\ over = 0
  /\ call = [c \in Calls |-> Idle]

Goto(c, step) == call' = [call EXCEPT ![c].step = step]
\* The call is over; its local variables are gone.
Finish(c) == call' = [call EXCEPT ![c] = [Idle EXCEPT !.step = "done"]]

BugSigned(a, b) == a - b
Monus(a, b) == IF a > b THEN a - b ELSE 0

\* reserve_user_budget: the bucket comes from the clock before the add.
Begin(c, cents) ==
  /\ call[c].step = "idle"
  /\ call' = [call EXCEPT ![c].step = "adding", ![c].bucket = clock, ![c].cents = cents]
  /\ UNCHANGED <<clock, reserved, settled, over>>

Added(c) == [reserved EXCEPT ![call[c].bucket] = @ + call[c].cents]

\* cache.add, or cache.incr on the counter that is there.
Add(c) ==
  /\ call[c].step = "adding"
  /\ reserved' = Added(c)
  /\ Goto(c, "added")
  /\ UNCHANGED <<clock, settled, over>>

\* The clock is read again after the add: the window of the sum.
BugStartClock(c) == call[c].bucket
LastBucket(c) == clock
BugShortWindow(c) == Monus(LastBucket(c) + 1, Lifetime)
FirstBucket(c) == Monus(LastBucket(c), Lifetime)
LookBack(c) ==
  /\ call[c].step = "added"
  /\ call' = [call EXCEPT ![c].step = "summing", ![c].last = LastBucket(c),
                          ![c].next = FirstBucket(c)]
  /\ UNCHANGED <<clock, reserved, settled, over>>

\* One cache read of the sum.
ReadBucket(c) ==
  /\ call[c].step = "summing" /\ call[c].next <= call[c].last
  /\ call' = [call EXCEPT ![c].next = @ + 1,
                          ![c].sum = @ + reserved[call[c].next]]
  /\ UNCHANGED <<clock, reserved, settled, over>>

\* Settled spend is read after the reservations; then the cap decides.
Decide(c) ==
  /\ call[c].step = "summing" /\ call[c].next > call[c].last
  /\ call' = [call EXCEPT ![c].step = IF settled + call[c].sum > Limit
                                      THEN "rollback" ELSE "held",
                          ![c].last = 0, ![c].next = 0, ![c].sum = 0]
  /\ UNCHANGED <<clock, reserved, settled, over>>

\* _decrement_reservation: a counter that expired is left alone, a failed
\* call to the cache leaves the cents until the bucket expires.
Decrement(c) ==
  \/ reserved' = [reserved EXCEPT ![call[c].bucket] = Monus(@, call[c].cents)]
  \/ UNCHANGED reserved

RollBack(c) ==
  /\ call[c].step = "rollback"
  /\ Decrement(c)
  /\ Finish(c)
  /\ UNCHANGED <<clock, settled, over>>

\* The cache fails during the admission: AICostAccountingUnavailable, and an
\* add that got through is rolled back only when the code knows of it.
CacheFails(c) ==
  /\ \/ /\ call[c].step = "adding"
        /\ reserved' \in {reserved, Added(c)}
        /\ Finish(c)
     \/ /\ call[c].step \in {"added", "summing"}
        /\ Goto(c, "rollback")
        /\ UNCHANGED reserved
  /\ UNCHANGED <<clock, settled, over>>

\* The reservation still counts for whoever sums now.
InWindow(c, now) == now <= call[c].bucket + Lifetime

\* settle_reservation: the settled counter first, then the release.
Settle(c, actual) ==
  /\ settled' = settled + actual
  /\ over' = over + IF InWindow(c, clock) THEN Monus(actual, call[c].cents) ELSE actual
  /\ Goto(c, "rollback")
  /\ UNCHANGED <<clock, reserved>>

\* The provider's final response carries the usage.
Answered(c, actual) == call[c].step = "held" /\ Settle(c, actual)

\* charge_aborted: a stream cut short is settled at its estimate.
Aborted(c) == call[c].step = "held" /\ Settle(c, call[c].cents)

\* A call that was never billed, or one of call_with_budget that failed.
Unbilled(c) ==
  /\ call[c].step = "held"
  /\ Decrement(c)
  /\ Finish(c)
  /\ UNCHANGED <<clock, settled, over>>

\* An ambiguous failure, or a settled counter that could not be written: the
\* reservation stays until its bucket leaves the window.
Keep(c) ==
  /\ call[c].step = "held"
  /\ Goto(c, "kept")
  /\ UNCHANGED <<clock, reserved, settled, over>>

\* charge_user: spend that nobody reserved goes straight to the counter.
Charge(c, cents) ==
  /\ call[c].step = "idle"
  /\ settled' = settled + cents
  /\ over' = over + cents
  /\ Finish(c)
  /\ UNCHANGED <<clock, reserved>>

Tick ==
  /\ clock + 1 \in Buckets
  /\ clock' = clock + 1
  /\ UNCHANGED <<reserved, settled, over, call>>

\* The cache drops a bucket's counter one bucket after its lifetime.
Expire(b) ==
  /\ b + Lifetime < clock /\ reserved[b] > 0
  /\ reserved' = [reserved EXCEPT ![b] = 0]
  /\ UNCHANGED <<clock, settled, over, call>>

Next ==
  \/ \E c \in Calls :
       \/ \E cents \in Estimates : Begin(c, cents)
       \/ Add(c) \/ LookBack(c) \/ ReadBucket(c) \/ Decide(c) \/ RollBack(c)
       \/ CacheFails(c) \/ Aborted(c) \/ Unbilled(c) \/ Keep(c)
       \/ \E cents \in Actuals : Answered(c, cents) \/ Charge(c, cents)
  \/ Tick
  \/ \E b \in Buckets : Expire(b)

Spec == Init /\ [][Next]_vars

-------------------------------------------------------------------------------
\* What an admitted call may still cost: held, or kept after an ambiguous
\* failure, and not yet out of the window.
Outstanding == [c \in Calls |->
  IF call[c].step \in {"held", "kept"} /\ InWindow(c, clock) THEN call[c].cents ELSE 0]

\* The docstring's claim, "the admitted set can never exceed it": settled cents
\* and admitted reservations stay within the limit, whatever the requests that
\* reserve, sum and settle at the same time, except for what no reservation
\* covered (over).
WithinLimit ==
  settled + MapThenSumSet(LAMBDA c : Outstanding[c], Calls) <= Limit + over

\* The lock-free protocol implements a budget checked and taken in one step.
AtomicBudget == INSTANCE Budget WITH
  Cents <- Estimates \cup Actuals, spent <- settled, held <- Outstanding
ActsAtomically == AtomicBudget!Spec
===============================================================================
