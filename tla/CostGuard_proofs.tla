--------------------------- MODULE CostGuard_proofs ---------------------------
(***************************************************************************)
(* The cost guard keeps the limit and implements the atomic Budget, for    *)
(* every number of calls, estimates, costs and buckets.                    *)
(*                                                                         *)
(* A call reads one counter after the other, so no single state shows what *)
(* it will compare with the limit.  The invariant looks at every set P of  *)
(* calls that wait for their decision: either all of P still fits, or some *)
(* call of P has already read the cents of everything that would then be   *)
(* held in the buckets behind it, and will refuse itself.                  *)
(***************************************************************************)
EXTENDS CostGuard, FiniteSetsExt, FiniteSetTheorems, WellFoundedInduction, TLAPS

-------------------------------------------------------------------------------
(* Sums.  The sum of MapThenSumSet is the number of its units, the pairs of  *)
(* an element and one of the numbers up to its value, so that what is known  *)
(* of finite sets carries over to it; induction over the subsets of a finite *)
(* set is used as the existence of minimal ones.                             *)

Sum(f, S) == MapThenSumSet(LAMBDA x : f[x], S)

Units(f, S) == {u \in S \X Nat : u[2] \in 1 .. f[u[1]]}

\* Among sets of subsets of a finite set there is a smallest one: what has no
\* smallest counterexample has none.
LEMMA MinimalSubset ==
  ASSUME NEW S, IsFiniteSet(S), NEW Bad \in SUBSET SUBSET S, Bad # {}
  PROVE  \E T \in Bad : \A U \in Bad : U \subseteq T => U = T
<1>1. IsWellFoundedOn(StrictSubsetOrdering(S), SUBSET S)
  BY FS_StrictSubsetOrderingWellFounded, FS_FiniteSubsetsOfFinite
<1>2. \E T \in Bad : \A U \in Bad : ~ (<<U, T>> \in StrictSubsetOrdering(S))
  BY <1>1, WFMin
<1> QED BY <1>2 DEF StrictSubsetOrdering

\* The units of one element are as many as its value.
LEMMA UnitsOfOne ==
  ASSUME NEW f, NEW x, f[x] \in Nat
  PROVE  /\ IsFiniteSet(Units(f, {x}))
         /\ Cardinality(Units(f, {x})) = f[x]
<1>1. Units(f, {x}) = {x} \X (1 .. f[x])
  <2>1. ASSUME NEW u \in {x} \X Nat
        PROVE  u \in Units(f, {x}) <=> u \in {x} \X (1 .. f[x])
    BY <2>1 DEF Units
  <2>2. {x} \X (1 .. f[x]) \subseteq {x} \X Nat
    OBVIOUS
  <2> QED BY <2>1, <2>2 DEF Units
<1>2. IsFiniteSet({x}) /\ Cardinality({x}) = 1
  BY FS_Singleton
<1>3. IsFiniteSet(1 .. f[x]) /\ Cardinality(1 .. f[x]) = f[x]
  <2>1. 1 \in Int /\ f[x] \in Int
    OBVIOUS
  <2>2. IsFiniteSet(1 .. f[x])
        /\ Cardinality(1 .. f[x]) = IF 1 > f[x] THEN 0 ELSE f[x] - 1 + 1
    BY <2>1, FS_Interval
  <2> QED BY <2>2
<1>4. /\ IsFiniteSet({x} \X (1 .. f[x]))
      /\ Cardinality({x} \X (1 .. f[x])) = 1 * f[x]
  BY <1>2, <1>3, FS_Product, ZenonT(60)
<1>5. 1 * f[x] = f[x]
  OBVIOUS
<1> QED BY <1>1, <1>4, <1>5

\* Taking out one element takes out its units.
LEMMA UnitsRemove ==
  ASSUME NEW f, NEW S, NEW x \in S, f[x] \in Nat, IsFiniteSet(Units(f, S \ {x}))
  PROVE  /\ IsFiniteSet(Units(f, S))
         /\ Cardinality(Units(f, S)) = f[x] + Cardinality(Units(f, S \ {x}))
<1> DEFINE Rest == Units(f, S \ {x})
<1>1. Units(f, S) = Units(f, {x}) \cup Rest
  BY DEF Units
<1>2. Units(f, {x}) \cap Rest = {}
  BY DEF Units
<1>3. /\ IsFiniteSet(Units(f, {x})) /\ Cardinality(Units(f, {x})) = f[x]
  BY UnitsOfOne
<1>4. /\ IsFiniteSet(Units(f, {x}) \cup Rest)
      /\ Cardinality(Units(f, {x}) \cup Rest) =
           Cardinality(Units(f, {x})) + Cardinality(Rest) - Cardinality(Units(f, {x}) \cap Rest)
  BY <1>3, FS_Union
<1>5. Cardinality(Units(f, {x}) \cap Rest) = 0
  BY <1>2, FS_EmptySet
<1>6. Cardinality(Rest) \in Nat
  BY FS_CardinalityType
<1> QED BY <1>1, <1>3, <1>4, <1>5, <1>6

\* The units of finitely many naturals are finitely many.
LEMMA UnitsFinite ==
  ASSUME NEW S, IsFiniteSet(S), NEW f, \A x \in S : f[x] \in Nat
  PROVE  \A T \in SUBSET S : IsFiniteSet(Units(f, T))
<1> DEFINE Bad == {T \in SUBSET S : ~ IsFiniteSet(Units(f, T))}
<1> SUFFICES ASSUME Bad # {} PROVE FALSE
  OBVIOUS
<1>1. PICK T \in Bad : \A U \in Bad : U \subseteq T => U = T
  <2>1. Bad \in SUBSET SUBSET S
    OBVIOUS
  <2> HIDE DEF Bad
  <2> QED BY <2>1, MinimalSubset
<1>2. CASE T = {}
  <2>1. Units(f, T) = {}
    BY <1>2 DEF Units
  <2> QED BY <2>1, FS_EmptySet
<1>3. CASE T # {}
  <2>1. PICK x \in T : TRUE
    BY <1>3
  <2>2. IsFiniteSet(Units(f, T \ {x}))
    BY <1>1, <2>1
  <2> QED BY <2>1, <2>2, UnitsRemove
<1> QED BY <1>2, <1>3

\* The function that MapThenSumSet recurses over counts the units.
LEMMA SumCountsUnits ==
  ASSUME NEW S, IsFiniteSet(S), NEW f, \A x \in S : f[x] \in Nat
  PROVE  Sum(f, S) = Cardinality(Units(f, S))
<1> DEFINE Some(s) == CHOOSE x \in s : TRUE
           Step(g, s) == IF s = {} THEN 0 ELSE f[Some(s)] + g[s \ {Some(s)}]
           iter == CHOOSE g : g = [s \in SUBSET S |-> Step(g, s)]
           count == [s \in SUBSET S |-> Cardinality(Units(f, s))]
<1>1. Sum(f, S) = iter[S]
  BY DEF Sum, MapThenSumSet, MapThenFoldSet
<1>2. ASSUME NEW s \in SUBSET S, s # {}
      PROVE  /\ Some(s) \in s
             /\ count[s] = f[Some(s)] + count[s \ {Some(s)}]
  <2>1. Some(s) \in s
    BY <1>2
  <2>2. IsFiniteSet(Units(f, s \ {Some(s)}))
    BY UnitsFinite
  <2>3. Cardinality(Units(f, s)) = f[Some(s)] + Cardinality(Units(f, s \ {Some(s)}))
    <3> HIDE DEF Some
    <3> QED BY <2>1, <2>2, UnitsRemove
  <2> QED BY <2>1, <2>3
<1>3. count[{}] = 0
  <2>1. Units(f, {}) = {}
    BY DEF Units
  <2> QED BY <2>1, FS_EmptySet
<1>4. count = [s \in SUBSET S |-> Step(count, s)]
  <2>1. \A s \in SUBSET S : count[s] = Step(count, s)
    <3> HIDE DEF count, Some
    <3> QED BY <1>2, <1>3
  <2> HIDE DEF Step
  <2> QED BY <2>1
<1>5. iter = [s \in SUBSET S |-> Step(iter, s)]
  <2> HIDE DEF count, Step
  <2> QED BY <1>4
<1>6. \A s \in SUBSET S : iter[s] = count[s]
  <2> DEFINE Bad == {s \in SUBSET S : iter[s] # count[s]}
  <2> HIDE DEF iter, count
  <2> SUFFICES ASSUME Bad # {} PROVE FALSE
    OBVIOUS
  <2>1. PICK s \in Bad : \A u \in Bad : u \subseteq s => u = s
    <3>1. Bad \in SUBSET SUBSET S
      OBVIOUS
    <3> HIDE DEF Bad
    <3> QED BY <3>1, MinimalSubset
  <2>2. iter[s] = Step(iter, s)
    <3> HIDE DEF Step
    <3> QED BY <1>5
  <2>3. CASE s = {}
    BY <2>2, <2>3, <1>3
  <2>4. CASE s # {}
    <3>1. Some(s) \in s /\ count[s] = f[Some(s)] + count[s \ {Some(s)}]
      BY <1>2, <2>4
    <3> HIDE DEF Some
    <3>2. iter[s \ {Some(s)}] = count[s \ {Some(s)}]
      BY <2>1, <3>1
    <3> QED BY <2>2, <2>4, <3>1, <3>2
  <2> QED BY <2>3, <2>4
<1> QED BY <1>1, <1>6

\* A sum of naturals is a natural.
LEMMA SumNatural ==
  ASSUME NEW S, IsFiniteSet(S), NEW f, \A x \in S : f[x] \in Nat
  PROVE  Sum(f, S) \in Nat
BY SumCountsUnits, UnitsFinite, FS_CardinalityType

\* A value changes: the sum changes by as much.
LEMMA SumChanges ==
  ASSUME NEW S, IsFiniteSet(S), NEW f, \A x \in S : f[x] \in Nat,
         NEW g, \A x \in S : g[x] \in Nat,
         NEW c \in S, \A x \in S \ {c} : g[x] = f[x]
  PROVE  Sum(g, S) + f[c] = Sum(f, S) + g[c]
<1>0. f[c] \in Nat /\ g[c] \in Nat
  OBVIOUS
<1>1. Units(g, S \ {c}) = Units(f, S \ {c})
  BY DEF Units
<1>2. IsFiniteSet(Units(f, S \ {c})) /\ IsFiniteSet(Units(g, S \ {c}))
  <2>1. \A T \in SUBSET S : IsFiniteSet(Units(f, T))
    BY UnitsFinite
  <2>2. \A T \in SUBSET S : IsFiniteSet(Units(g, T))
    BY UnitsFinite
  <2> QED BY <2>1, <2>2
<1>3. Cardinality(Units(f, S)) = f[c] + Cardinality(Units(f, S \ {c}))
  BY <1>0, <1>2, UnitsRemove
<1>4. Cardinality(Units(g, S)) = g[c] + Cardinality(Units(g, S \ {c}))
  BY <1>0, <1>2, UnitsRemove
<1>5. Cardinality(Units(f, S \ {c})) \in Nat
  BY <1>2, FS_CardinalityType
<1> QED BY <1>1, <1>3, <1>4, <1>5, SumCountsUnits

\* What is covered by two functions sums up to at most their sums.
LEMMA SumCovered ==
  ASSUME NEW S, IsFiniteSet(S), NEW f, \A x \in S : f[x] \in Nat,
         NEW g, \A x \in S : g[x] \in Nat, NEW h, \A x \in S : h[x] \in Nat,
         \A x \in S : f[x] <= g[x] \/ f[x] <= h[x]
  PROVE  Sum(f, S) <= Sum(g, S) + Sum(h, S)
<1> DEFINE F == Units(f, S)
           G == Units(g, S)
           H == Units(h, S)
<1>1. F \subseteq G \cup H
  BY DEF Units
<1>2. IsFiniteSet(F) /\ IsFiniteSet(G) /\ IsFiniteSet(H)
  BY UnitsFinite
<1> HIDE DEF F, G, H
<1>3. IsFiniteSet(G \cup H)
      /\ Cardinality(G \cup H) = Cardinality(G) + Cardinality(H) - Cardinality(G \cap H)
  BY <1>2, FS_Union
<1>4. Cardinality(F) <= Cardinality(G \cup H)
  BY <1>1, <1>3, FS_Subset
<1>5. Cardinality(G \cap H) \in Nat
  BY <1>2, FS_Intersection, FS_CardinalityType
<1>6. Cardinality(F) \in Nat /\ Cardinality(G) \in Nat /\ Cardinality(H) \in Nat
  BY <1>2, FS_CardinalityType
<1>7. Cardinality(F) <= Cardinality(G) + Cardinality(H)
  BY <1>3, <1>4, <1>5, <1>6
<1> QED BY <1>7, SumCountsUnits DEF F, G, H

\* A sum of larger summands is larger.
LEMMA SumMonotone ==
  ASSUME NEW S, IsFiniteSet(S), NEW f, \A x \in S : f[x] \in Nat,
         NEW g, \A x \in S : g[x] \in Nat,
         \A x \in S : f[x] <= g[x]
  PROVE  Sum(f, S) <= Sum(g, S)
<1>1. Units(f, S) \subseteq Units(g, S)
  BY DEF Units
<1>2. IsFiniteSet(Units(g, S))
  BY UnitsFinite
<1>3. Cardinality(Units(f, S)) <= Cardinality(Units(g, S))
  BY <1>1, <1>2, FS_Subset
<1> QED BY <1>3, SumCountsUnits

\* A sum of zeros is zero.
LEMMA SumOfNothing ==
  ASSUME NEW S, IsFiniteSet(S), NEW f, \A x \in S : f[x] = 0
  PROVE  Sum(f, S) = 0
<1>1. Units(f, S) = {}
  BY DEF Units
<1> QED BY <1>1, SumCountsUnits, FS_EmptySet

-------------------------------------------------------------------------------

Pending == {c \in Calls : call[c].step \in {"added", "summing"}}

\* The cents of this call are in the counter of its bucket.
Reserves(c) == call[c].step \in {"added", "summing", "rollback", "held", "kept"}
ReservedAt(b) == [c \in Calls |->
  IF Reserves(c) /\ call[c].bucket = b THEN call[c].cents ELSE 0]

\* What would be outstanding if all of P were admitted.
Claim(P) == [c \in Calls |->
  IF (call[c].step \in {"held", "kept"} \/ c \in P) /\ InWindow(c, clock)
  THEN call[c].cents ELSE 0]

\* The part of it in the buckets that c does not read any more.
Behind(c, P) == [d \in Calls |->
  IF call[d].bucket \in call[c].next .. call[c].last THEN 0 ELSE Claim(P)[d]]
HasSeen(c, P) == call[c].step = "summing" => Sum(Behind(c, P), Calls) <= call[c].sum

Fits(P) == settled + Sum(Claim(P), Calls) <= Limit + over
Safe(P) == Fits(P) \/ \E c \in P : HasSeen(c, P)

InThePast == \A c \in Calls : call[c].bucket <= clock /\ call[c].last <= clock
Estimated == \A c \in Calls :
  call[c].step \notin {"idle", "done"} => call[c].cents \in Estimates
\* No counter that somebody may still read holds less than its reservations.
Covered == \A b \in Buckets :
  clock <= b + Lifetime => Sum(ReservedAt(b), Calls) <= reserved[b]
Admissible == \A P \in SUBSET Pending : Safe(P)

IInv == TypeOK /\ InThePast /\ Estimated /\ Covered /\ Admissible

-------------------------------------------------------------------------------
(* Types.                                                                    *)

\* What the proofs use of the assumption on the constants.
LEMMA Money ==
  /\ \A x \in Estimates \cup {0} : x \in Nat
  /\ \A x \in Estimates \cup Actuals : x \in Nat /\ x > 0
  /\ Limit \in Nat /\ Lifetime \in Nat /\ Lifetime > 0 /\ Horizon \in Nat
BY BudgetAssumption

\* At first no call is under way and every counter is zero.
LEMMA InitTyped == Init => TypeOK /\ InThePast /\ Estimated
BY Money
   DEF Init, TypeOK, InThePast, Estimated, CallType, Steps, Idle, Buckets

\* The clock has not begun before zero, and is no later than itself.
LEMMA Zero ==
  ASSUME TypeOK
  PROVE  0 \in Buckets /\ clock \in Nat /\ 0 <= clock /\ clock <= clock
BY BudgetAssumption DEF TypeOK, Buckets

\* A call that is over.
LEMMA Over ==
  ASSUME TypeOK
  PROVE  LET to == [Idle EXCEPT !.step = "done"]
         IN  to \in CallType /\ to.bucket <= clock /\ to.last <= clock /\ to.step = "done"
BY Zero DEF CallType, Steps, Idle

\* One call moves on; time stands still.
LEMMA Moves ==
  ASSUME TypeOK, InThePast, Estimated,
         NEW c \in Calls, NEW to \in CallType, to.bucket <= clock, to.last <= clock,
         to.step \notin {"idle", "done"} => to.cents \in Estimates,
         call' = [call EXCEPT ![c] = to],
         clock' = clock, reserved' \in [Buckets -> Nat], settled' \in Nat, over' \in Nat
  PROVE  TypeOK' /\ InThePast' /\ Estimated'
<1>1. call' \in [Calls -> CallType] /\ call'[c] = to /\ \A d \in Calls \ {c} : call'[d] = call[d]
  BY DEF TypeOK
<1>2. TypeOK'
  BY <1>1 DEF TypeOK
<1>3. InThePast' /\ Estimated'
  BY <1>1 DEF InThePast, Estimated
<1> QED BY <1>2, <1>3

\* The counters hold natural numbers.
LEMMA CountersTyped ==
  ASSUME TypeOK, NEW c \in Calls
  PROVE  /\ Added(c) \in [Buckets -> Nat]
         /\ Decrement(c) => reserved' \in [Buckets -> Nat]
         /\ call[c] \in CallType /\ call[c].bucket \in Buckets /\ call[c].cents \in Nat
         /\ call[c].sum \in Nat /\ call[c].next \in Nat /\ call[c].last \in Nat
<1>1. /\ call[c] \in CallType /\ call[c].bucket \in Buckets
      /\ call[c].cents \in Estimates \cup {0}
      /\ call[c].sum \in Nat /\ call[c].next \in Nat /\ call[c].last \in Nat
  BY DEF TypeOK, CallType, Buckets
<1>2. call[c].cents \in Nat
  BY <1>1, Money
<1>3. Added(c) \in [Buckets -> Nat]
  BY <1>1, <1>2 DEF TypeOK, Added
<1>4. Monus(reserved[call[c].bucket], call[c].cents) \in Nat
  BY <1>1, <1>2 DEF TypeOK, Monus
<1> HIDE DEF Monus
<1>5. Decrement(c) => reserved' \in [Buckets -> Nat]
  BY <1>1, <1>4 DEF TypeOK, Decrement
<1> QED BY <1>1, <1>2, <1>3, <1>5

\* The buckets that a sum covers.
LEMMA Window ==
  ASSUME TypeOK, NEW c
  PROVE  FirstBucket(c) \in Nat /\ LastBucket(c) \in Buckets /\ FirstBucket(c) <= LastBucket(c)
BY Zero, Money DEF TypeOK, FirstBucket, LastBucket, Monus

\* The counter that is read next is one of the buckets'.
LEMMA NextCounter ==
  ASSUME TypeOK, NEW c \in Calls, call[c].next <= call[c].last
  PROVE  call[c].next \in Buckets /\ reserved[call[c].next] \in Nat
<1>1. call[c].next \in Nat /\ call[c].last \in Buckets
  BY DEF TypeOK, CallType
<1>2. call[c].next \in Buckets
  BY <1>1, Money DEF Buckets
<1> QED BY <1>2 DEF TypeOK

\* One step per action.
LEMMA TypesKept ==
  ASSUME TypeOK, InThePast, Estimated, [Next]_vars
  PROVE  TypeOK' /\ InThePast' /\ Estimated'
<1>1. ASSUME NEW c \in Calls, NEW cents \in Estimates, Begin(c, cents)
      PROVE  TypeOK' /\ InThePast' /\ Estimated'
  <2> DEFINE to == [call[c] EXCEPT !.step = "adding", !.bucket = clock, !.cents = cents]
  <2>1. call' = [call EXCEPT ![c] = to]
    BY <1>1 DEF Begin
  <2>2. to \in CallType
    BY <1>1 DEF CallType, Steps, TypeOK
  <2>4. to.bucket <= clock /\ to.last <= clock
    BY <1>1, CountersTyped, Zero DEF CallType, InThePast
  <2>5. to.step \in Steps \ {"idle", "done"} => to.cents \in Estimates
    BY <1>1, CountersTyped DEF Begin, CallType, Estimated
  <2>3. /\ clock' = clock /\ reserved' \in [Buckets -> Nat]
        /\ settled' \in Nat /\ over' \in Nat
    BY <1>1, CountersTyped, Money DEF Begin, TypeOK
  <2> HIDE DEF to
  <2> QED BY <2>1, <2>2, <2>3, <2>4, <2>5, Moves DEF CallType
<1>2. ASSUME NEW c \in Calls, Add(c)
      PROVE  TypeOK' /\ InThePast' /\ Estimated'
  <2> DEFINE to == [call[c] EXCEPT !.step = "added"]
  <2>1. call' = [call EXCEPT ![c] = to]
    BY <1>2 DEF Add, Goto
  <2>2. to \in CallType
    BY <1>2, CountersTyped DEF CallType, Steps
  <2>4. to.bucket <= clock /\ to.last <= clock
    BY <1>2, CountersTyped DEF CallType, InThePast
  <2>5. to.step \in Steps \ {"idle", "done"} => to.cents \in Estimates
    BY <1>2, CountersTyped DEF Add, CallType, Estimated
  <2>3. /\ clock' = clock /\ reserved' \in [Buckets -> Nat]
        /\ settled' \in Nat /\ over' \in Nat
    BY <1>2, CountersTyped, Money DEF Add, Goto, TypeOK
  <2> HIDE DEF to
  <2> QED BY <2>1, <2>2, <2>3, <2>4, <2>5, Moves DEF CallType
<1>3. ASSUME NEW c \in Calls, LookBack(c)
      PROVE  TypeOK' /\ InThePast' /\ Estimated'
  <2> DEFINE to == [call[c] EXCEPT !.step = "summing", !.last = LastBucket(c),
                                 !.next = FirstBucket(c)]
  <2>1. call' = [call EXCEPT ![c] = to]
    BY <1>3 DEF LookBack
  <2>6. FirstBucket(c) \in Nat /\ LastBucket(c) \in Buckets
    BY Window
  <2>7. call[c] \in CallType
    BY CountersTyped
  <2>2. to \in CallType
    BY <2>6, <2>7 DEF CallType, Steps
  <2>4. to.bucket <= clock /\ to.last <= clock
    BY <1>3, CountersTyped, Zero DEF CallType, InThePast, LastBucket
  <2>5. to.step \in Steps \ {"idle", "done"} => to.cents \in Estimates
    BY <1>3, CountersTyped DEF LookBack, CallType, Estimated
  <2>3. /\ clock' = clock /\ reserved' \in [Buckets -> Nat]
        /\ settled' \in Nat /\ over' \in Nat
    BY <1>3, CountersTyped, Money DEF LookBack, TypeOK
  <2> HIDE DEF to
  <2> QED BY <2>1, <2>2, <2>3, <2>4, <2>5, Moves DEF CallType
<1>4. ASSUME NEW c \in Calls, ReadBucket(c)
      PROVE  TypeOK' /\ InThePast' /\ Estimated'
  <2> DEFINE to == [call[c] EXCEPT !.next = @ + 1, !.sum = @ + reserved[call[c].next]]
  <2>1. call' = [call EXCEPT ![c] = to]
    BY <1>4 DEF ReadBucket
  <2>6. call[c].sum + reserved[call[c].next] \in Nat /\ call[c].next + 1 \in Nat
    BY <1>4, NextCounter, CountersTyped DEF ReadBucket
  <2>7. call[c] \in CallType
    BY CountersTyped
  <2>2. to \in CallType
    BY <2>6, <2>7 DEF CallType
  <2>4. to.bucket <= clock /\ to.last <= clock
    BY <1>4, CountersTyped DEF CallType, InThePast
  <2>5. to.step \in Steps \ {"idle", "done"} => to.cents \in Estimates
    BY <1>4, CountersTyped DEF ReadBucket, CallType, Estimated
  <2>3. /\ clock' = clock /\ reserved' \in [Buckets -> Nat]
        /\ settled' \in Nat /\ over' \in Nat
    BY <1>4, CountersTyped, Money DEF ReadBucket, TypeOK
  <2> HIDE DEF to
  <2> QED BY <2>1, <2>2, <2>3, <2>4, <2>5, Moves DEF CallType
<1>5. ASSUME NEW c \in Calls, Decide(c)
      PROVE  TypeOK' /\ InThePast' /\ Estimated'
  <2> DEFINE to == [call[c] EXCEPT !.step = IF settled + call[c].sum > Limit
                                          THEN "rollback" ELSE "held",
                                 !.last = 0, !.next = 0, !.sum = 0]
  <2>1. call' = [call EXCEPT ![c] = to]
    BY <1>5 DEF Decide
  <2>2. to \in CallType
    BY <1>5, CountersTyped, Zero DEF CallType, Steps
  <2>4. to.bucket <= clock /\ to.last <= clock
    BY <1>5, CountersTyped, Zero DEF CallType, InThePast
  <2>5. to.step \in Steps \ {"idle", "done"} => to.cents \in Estimates
    BY <1>5, CountersTyped DEF Decide, CallType, Estimated
  <2>3. /\ clock' = clock /\ reserved' \in [Buckets -> Nat]
        /\ settled' \in Nat /\ over' \in Nat
    BY <1>5, CountersTyped, Money DEF Decide, TypeOK
  <2> HIDE DEF to
  <2> QED BY <2>1, <2>2, <2>3, <2>4, <2>5, Moves DEF CallType
<1>6. ASSUME NEW c \in Calls, RollBack(c)
      PROVE  TypeOK' /\ InThePast' /\ Estimated'
  <2> DEFINE to == [Idle EXCEPT !.step = "done"]
  <2>1. call' = [call EXCEPT ![c] = to]
    BY <1>6 DEF RollBack, Finish
  <2>2. to \in CallType /\ to.bucket <= clock /\ to.last <= clock /\ to.step = "done"
    BY Over
  <2>3. /\ clock' = clock /\ reserved' \in [Buckets -> Nat]
        /\ settled' \in Nat /\ over' \in Nat
    BY <1>6, CountersTyped, Money DEF RollBack, Finish, TypeOK
  <2> HIDE DEF to
  <2> QED BY <2>1, <2>2, <2>3, Moves DEF CallType
<1>7. ASSUME NEW c \in Calls, CacheFails(c) PROVE TypeOK' /\ InThePast' /\ Estimated'
  <2>1. CASE call[c].step = "adding"
    <3> DEFINE to == [Idle EXCEPT !.step = "done"]
    <3>1. call' = [call EXCEPT ![c] = to]
      BY <1>7, <2>1 DEF CacheFails, Finish
    <3>2. to \in CallType /\ to.bucket <= clock /\ to.last <= clock /\ to.step = "done"
      BY Over
    <3>3. /\ clock' = clock /\ reserved' \in [Buckets -> Nat]
          /\ settled' \in Nat /\ over' \in Nat
      BY <1>7, <2>1, CountersTyped, Money DEF CacheFails, Finish, TypeOK
    <3> HIDE DEF to
    <3> QED BY <3>1, <3>2, <3>3, Moves DEF CallType
  <2>2. CASE call[c].step \in {"added", "summing"}
    <3> DEFINE to == [call[c] EXCEPT !.step = "rollback"]
    <3>1. call' = [call EXCEPT ![c] = to]
      BY <1>7, <2>2 DEF CacheFails, Goto
    <3>2. to \in CallType
      BY <1>7, <2>2, CountersTyped DEF CallType, Steps
    <3>4. to.bucket <= clock /\ to.last <= clock
      BY <1>7, <2>2, CountersTyped DEF CallType, InThePast
    <3>5. to.step \in Steps \ {"idle", "done"} => to.cents \in Estimates
      BY <1>7, <2>2, CountersTyped DEF CacheFails, CallType, Estimated
    <3>3. /\ clock' = clock /\ reserved' \in [Buckets -> Nat]
          /\ settled' \in Nat /\ over' \in Nat
      BY <1>7, <2>2, CountersTyped, Money DEF CacheFails, Goto, TypeOK
    <3> HIDE DEF to
    <3> QED BY <3>1, <3>2, <3>3, <3>4, <3>5, Moves DEF CallType
  <2> QED BY <1>7, <2>1, <2>2 DEF CacheFails
<1>8. ASSUME NEW c \in Calls, NEW actual \in Nat, call[c].step = "held", Settle(c, actual)
      PROVE  TypeOK' /\ InThePast' /\ Estimated'
  <2> DEFINE to == [call[c] EXCEPT !.step = "rollback"]
  <2>1. call' = [call EXCEPT ![c] = to]
    BY <1>8 DEF Settle, Goto
  <2>2. to \in CallType
    BY <1>8, CountersTyped DEF CallType, Steps
  <2>4. to.bucket <= clock /\ to.last <= clock
    BY <1>8, CountersTyped DEF CallType, InThePast
  <2>5. to.step \in Steps \ {"idle", "done"} => to.cents \in Estimates
    BY <1>8, CountersTyped DEF Settle, CallType, Estimated
  <2>3. /\ clock' = clock /\ reserved' \in [Buckets -> Nat]
        /\ settled' \in Nat /\ over' \in Nat
    BY <1>8, CountersTyped, Money DEF Settle, Goto, TypeOK, Monus
  <2> HIDE DEF to
  <2> QED BY <2>1, <2>2, <2>3, <2>4, <2>5, Moves DEF CallType
<1>9. ASSUME NEW c \in Calls, Unbilled(c)
      PROVE  TypeOK' /\ InThePast' /\ Estimated'
  <2> DEFINE to == [Idle EXCEPT !.step = "done"]
  <2>1. call' = [call EXCEPT ![c] = to]
    BY <1>9 DEF Unbilled, Finish
  <2>2. to \in CallType /\ to.bucket <= clock /\ to.last <= clock /\ to.step = "done"
    BY Over
  <2>3. /\ clock' = clock /\ reserved' \in [Buckets -> Nat]
        /\ settled' \in Nat /\ over' \in Nat
    BY <1>9, CountersTyped, Money DEF Unbilled, Finish, TypeOK
  <2> HIDE DEF to
  <2> QED BY <2>1, <2>2, <2>3, Moves DEF CallType
<1>10. ASSUME NEW c \in Calls, Keep(c)
       PROVE  TypeOK' /\ InThePast' /\ Estimated'
  <2> DEFINE to == [call[c] EXCEPT !.step = "kept"]
  <2>1. call' = [call EXCEPT ![c] = to]
    BY <1>10 DEF Keep, Goto
  <2>2. to \in CallType
    BY <1>10, CountersTyped DEF CallType, Steps
  <2>4. to.bucket <= clock /\ to.last <= clock
    BY <1>10, CountersTyped DEF CallType, InThePast
  <2>5. to.step \in Steps \ {"idle", "done"} => to.cents \in Estimates
    BY <1>10, CountersTyped DEF Keep, CallType, Estimated
  <2>3. /\ clock' = clock /\ reserved' \in [Buckets -> Nat]
        /\ settled' \in Nat /\ over' \in Nat
    BY <1>10, CountersTyped, Money DEF Keep, Goto, TypeOK
  <2> HIDE DEF to
  <2> QED BY <2>1, <2>2, <2>3, <2>4, <2>5, Moves DEF CallType
<1>11. ASSUME NEW c \in Calls, NEW cents \in Actuals, Charge(c, cents)
       PROVE  TypeOK' /\ InThePast' /\ Estimated'
  <2> DEFINE to == [Idle EXCEPT !.step = "done"]
  <2>1. call' = [call EXCEPT ![c] = to]
    BY <1>11 DEF Charge, Finish
  <2>2. to \in CallType /\ to.bucket <= clock /\ to.last <= clock /\ to.step = "done"
    BY Over
  <2>3. /\ clock' = clock /\ reserved' \in [Buckets -> Nat]
        /\ settled' \in Nat /\ over' \in Nat
    BY <1>11, CountersTyped, Money DEF Charge, Finish, TypeOK
  <2> HIDE DEF to
  <2> QED BY <2>1, <2>2, <2>3, Moves DEF CallType
<1>12. CASE Tick
  <2>1. TypeOK' /\ Estimated'
    BY <1>12 DEF Tick, TypeOK, Estimated
  <2>2. \A c \in Calls : call[c].bucket \in Nat /\ call[c].last \in Nat
    BY CountersTyped DEF Buckets
  <2>3. InThePast'
    BY <1>12, <2>2, Zero DEF Tick, InThePast
  <2> QED BY <2>1, <2>3
<1>13. ASSUME NEW b \in Buckets, Expire(b) PROVE TypeOK' /\ InThePast' /\ Estimated'
  BY <1>13 DEF Expire, TypeOK, InThePast, Estimated
<1>14. CASE UNCHANGED vars
  BY <1>14 DEF vars, TypeOK, InThePast, Estimated
<1>15. \A c \in Calls : Aborted(c) => call[c].step = "held" /\ call[c].cents \in Nat
                                      /\ Settle(c, call[c].cents)
  BY CountersTyped DEF Aborted
<1>16. \A c \in Calls, actual \in Actuals :
         Answered(c, actual) => call[c].step = "held" /\ actual \in Nat /\ Settle(c, actual)
  BY Money DEF Answered
<1> QED
  BY <1>1, <1>2, <1>3, <1>4, <1>5, <1>6, <1>7, <1>8, <1>9, <1>10, <1>11, <1>12, <1>13,
     <1>14, <1>15, <1>16 DEF Next

\* What a call adds to the sums of the definitions above is a number ...
LEMMA Summands ==
  ASSUME TypeOK, NEW P, NEW c, NEW b, NEW d \in Calls
  PROVE  /\ Claim(P)[d] \in Nat
         /\ Behind(c, P)[d] \in Nat
         /\ ReservedAt(b)[d] \in Nat
<1>1. call[d].cents \in Nat
  <2>1. call[d] \in CallType
    BY DEF TypeOK
  <2>2. call[d].cents \in Estimates \cup {0}
    BY <2>1 DEF CallType
  <2> QED BY <2>2, Money
<1>2. Claim(P)[d] \in {0, call[d].cents} /\ ReservedAt(b)[d] \in {0, call[d].cents}
  BY DEF Claim, ReservedAt
<1>3. Behind(c, P)[d] \in {0, Claim(P)[d]}
  BY DEF Behind
<1> QED BY <1>1, <1>2, <1>3

\* ... after a step as before it.
LEMMA SummandsAfter ==
  ASSUME TypeOK', NEW P, NEW c, NEW b, NEW d \in Calls
  PROVE  /\ Claim(P)'[d] \in Nat
         /\ Behind(c, P)'[d] \in Nat
         /\ ReservedAt(b)'[d] \in Nat
<1>1. call'[d].cents \in Nat
  <2>1. call'[d] \in CallType
    BY DEF TypeOK
  <2>2. call'[d].cents \in Estimates \cup {0}
    BY <2>1 DEF CallType
  <2> QED BY <2>2, Money
<1>2. Claim(P)'[d] \in {0, call'[d].cents} /\ ReservedAt(b)'[d] \in {0, call'[d].cents}
  BY DEF Claim, ReservedAt
<1>3. Behind(c, P)'[d] \in {0, Claim(P)'[d]}
  BY DEF Behind
<1> QED BY <1>1, <1>2, <1>3

-------------------------------------------------------------------------------
(* The counters of the buckets.                                              *)

\* A step changes what one call reserves in a bucket, or nothing.
LEMMA BucketKept ==
  ASSUME TypeOK, TypeOK', NEW b \in Buckets, NEW c \in Calls,
         \A d \in Calls \ {c} : ReservedAt(b)'[d] = ReservedAt(b)[d],
         Sum(ReservedAt(b), Calls) <= reserved[b],
         ReservedAt(b)'[c] + reserved[b] <= reserved'[b] + ReservedAt(b)[c]
  PROVE  Sum(ReservedAt(b), Calls)' <= reserved'[b]
<1> DEFINE f == ReservedAt(b)
           g == ReservedAt(b)'
<1>1. (\A d \in Calls : f[d] \in Nat) /\ (\A d \in Calls : g[d] \in Nat)
  BY Summands, SummandsAfter
<1>2. reserved[b] \in Nat /\ reserved'[b] \in Nat
  BY DEF TypeOK
<1>3. g[c] + reserved[b] <= reserved'[b] + f[c] /\ \A d \in Calls \ {c} : g[d] = f[d]
  OBVIOUS
<1>4. Sum(f, Calls) <= reserved[b]
  OBVIOUS
<1> HIDE DEF f, g
<1>5. Sum(g, Calls) + f[c] = Sum(f, Calls) + g[c]
  BY <1>1, <1>3, SumChanges, BudgetAssumption
<1>6. Sum(f, Calls) \in Nat /\ Sum(g, Calls) \in Nat
  BY <1>1, SumNatural, BudgetAssumption
<1>7. Sum(g, Calls) <= reserved'[b]
  BY <1>1, <1>2, <1>3, <1>4, <1>5, <1>6
<1> QED BY <1>7 DEF g

\* Reservations stay covered when one call moves and takes with it at most what its
\* bucket gives up.
LEMMA CoveredMoves ==
  ASSUME TypeOK, TypeOK', Covered, NEW c \in Calls, clock' = clock,
         \A d \in Calls \ {c} : call'[d] = call[d],
         \A b \in Buckets : clock <= b + Lifetime =>
           ReservedAt(b)'[c] + reserved[b] <= reserved'[b] + ReservedAt(b)[c]
  PROVE  Covered'
<1> SUFFICES ASSUME NEW b \in Buckets, clock <= b + Lifetime
             PROVE  Sum(ReservedAt(b), Calls)' <= reserved'[b]
  BY DEF Covered
<1>1. \A d \in Calls \ {c} : ReservedAt(b)'[d] = ReservedAt(b)[d]
  BY DEF ReservedAt, Reserves
<1> QED BY <1>1, BucketKept DEF Covered

\* One step per action; the goal is the same for all of them.
LEMMA CoveredKept ==
  ASSUME TypeOK, TypeOK', Covered, [Next]_vars
  PROVE  Covered'
<1> DEFINE Kept(c) ==
             /\ clock' = clock
             /\ \A d \in Calls \ {c} : call'[d] = call[d]
             /\ \A b \in Buckets : clock <= b + Lifetime =>
                  ReservedAt(b)'[c] + reserved[b] <= reserved'[b] + ReservedAt(b)[c]
<1>0. ASSUME NEW c \in Calls, Kept(c) PROVE Covered'
  BY <1>0, CoveredMoves
<1>a. \A b \in Buckets : reserved[b] \in Nat /\ reserved'[b] \in Nat
  BY DEF TypeOK
<1>b. \A b \in Buckets, c \in Calls :
        ReservedAt(b)[c] \in Nat /\ ReservedAt(b)'[c] \in Nat
  BY Summands, SummandsAfter
\* Steps that leave the counters and what c reserves as they are.
<1>c. ASSUME NEW c \in Calls, UNCHANGED <<clock, reserved>>,
             \A d \in Calls \ {c} : call'[d] = call[d],
             Reserves(c)' = Reserves(c),
             Reserves(c) => call'[c].bucket = call[c].bucket /\ call'[c].cents = call[c].cents
      PROVE  Kept(c)
  <2>1. \A b \in Buckets : ReservedAt(b)'[c] = ReservedAt(b)[c]
    BY <1>c DEF ReservedAt
  <2> QED BY <2>1, <1>a, <1>b, <1>c
\* Steps of a call that reserves nothing before and after.
<1>d. ASSUME NEW c \in Calls, clock' = clock, ~ Reserves(c), ~ Reserves(c)',
             \A d \in Calls \ {c} : call'[d] = call[d],
             \A b \in Buckets : reserved[b] <= reserved'[b]
      PROVE  Kept(c)
  <2>1. \A b \in Buckets : ReservedAt(b)'[c] = 0 /\ ReservedAt(b)[c] = 0
    BY <1>d DEF ReservedAt
  <2> QED BY <2>1, <1>a, <1>b, <1>d
\* The cents of c are taken out of its counter, or stay in it.
<1>e. ASSUME NEW c \in Calls, clock' = clock, Decrement(c), Reserves(c), Finish(c)
      PROVE  Kept(c)
  <2>1. (\A d \in Calls \ {c} : call'[d] = call[d]) /\ call'[c].step = "done"
    BY <1>e DEF Finish, Idle, TypeOK
  <2>2. \A b \in Buckets : ReservedAt(b)'[c] = 0
    BY <2>1 DEF ReservedAt, Reserves
  <2>3. \A b \in Buckets :
          ReservedAt(b)[c] = IF call[c].bucket = b THEN call[c].cents ELSE 0
    BY <1>e DEF ReservedAt
  <2>4. \A b \in Buckets : reserved[b] <= reserved'[b] + ReservedAt(b)[c]
    BY <1>a, <1>e, <2>3, CountersTyped DEF Decrement, Monus, TypeOK
  <2> QED BY <1>a, <1>e, <2>1, <2>2, <2>4
<1>1. ASSUME NEW c \in Calls, NEW cents \in Estimates, Begin(c, cents) PROVE Covered'
  <2>1. /\ ~ Reserves(c) /\ ~ Reserves(c)' /\ clock' = clock /\ reserved' = reserved
        /\ \A d \in Calls \ {c} : call'[d] = call[d]
    BY <1>1 DEF Begin, Reserves, TypeOK, CallType
  <2> QED BY <1>0, <1>a, <1>d, <2>1
<1>2. ASSUME NEW c \in Calls, Add(c) PROVE Covered'
  <2>1. /\ ~ Reserves(c) /\ Reserves(c)' /\ clock' = clock
        /\ call'[c].bucket = call[c].bucket /\ call'[c].cents = call[c].cents
        /\ \A d \in Calls \ {c} : call'[d] = call[d]
    BY <1>2 DEF Add, Goto, Reserves, TypeOK, CallType
  <2>2. \A b \in Buckets : /\ ReservedAt(b)[c] = 0
                           /\ ReservedAt(b)'[c] = IF call[c].bucket = b THEN call[c].cents ELSE 0
    BY <2>1 DEF ReservedAt
  <2>3. \A b \in Buckets :
          reserved'[b] = IF call[c].bucket = b THEN reserved[b] + call[c].cents ELSE reserved[b]
    BY <1>2 DEF Add, Added, TypeOK
  <2>4. Kept(c)
    BY <1>a, <1>b, <2>1, <2>2, <2>3, CountersTyped
  <2> QED BY <1>0, <2>4
<1>3. ASSUME NEW c \in Calls, LookBack(c) \/ ReadBucket(c) \/ Decide(c) \/ Keep(c) PROVE Covered'
  <2>1. /\ UNCHANGED <<clock, reserved>> /\ Reserves(c) /\ Reserves(c)'
        /\ call'[c].bucket = call[c].bucket /\ call'[c].cents = call[c].cents
        /\ \A d \in Calls \ {c} : call'[d] = call[d]
    BY <1>3 DEF LookBack, ReadBucket, Decide, Keep, Goto, Reserves, TypeOK, CallType
  <2> QED BY <1>0, <1>c, <2>1
<1>4. ASSUME NEW c \in Calls, RollBack(c) \/ Unbilled(c) PROVE Covered'
  <2>1. Decrement(c) /\ Finish(c) /\ Reserves(c) /\ clock' = clock
    BY <1>4 DEF RollBack, Unbilled, Reserves
  <2> QED BY <1>0, <1>e, <2>1
<1>5. ASSUME NEW c \in Calls, CacheFails(c) PROVE Covered'
  <2>1. CASE call[c].step = "adding"
    <3>1. /\ ~ Reserves(c) /\ ~ Reserves(c)' /\ clock' = clock
          /\ reserved' \in {reserved, Added(c)}
          /\ \A d \in Calls \ {c} : call'[d] = call[d]
      BY <1>5, <2>1 DEF CacheFails, Finish, Idle, Reserves, TypeOK, CallType
    <3>2. \A b \in Buckets : reserved[b] <= reserved'[b]
      BY <1>a, <3>1, CountersTyped DEF Added, TypeOK
    <3> QED BY <1>0, <1>d, <3>1, <3>2
  <2>2. CASE call[c].step \in {"added", "summing"}
    <3>1. /\ UNCHANGED <<clock, reserved>> /\ Reserves(c) /\ Reserves(c)'
          /\ call'[c].bucket = call[c].bucket /\ call'[c].cents = call[c].cents
          /\ \A d \in Calls \ {c} : call'[d] = call[d]
      BY <1>5, <2>2 DEF CacheFails, Goto, Reserves, TypeOK, CallType
    <3> QED BY <1>0, <1>c, <3>1
  <2> QED BY <1>5, <2>1, <2>2 DEF CacheFails
<1>6. ASSUME NEW c \in Calls, NEW actual, call[c].step = "held", Settle(c, actual) PROVE Covered'
  <2>1. /\ UNCHANGED <<clock, reserved>> /\ Reserves(c) /\ Reserves(c)'
        /\ call'[c].bucket = call[c].bucket /\ call'[c].cents = call[c].cents
        /\ \A d \in Calls \ {c} : call'[d] = call[d]
    BY <1>6 DEF Settle, Goto, Reserves, TypeOK, CallType
  <2> QED BY <1>0, <1>c, <2>1
<1>7. ASSUME NEW c \in Calls, NEW cents, Charge(c, cents) PROVE Covered'
  <2>1. /\ ~ Reserves(c) /\ ~ Reserves(c)' /\ clock' = clock /\ reserved' = reserved
        /\ \A d \in Calls \ {c} : call'[d] = call[d]
    BY <1>7 DEF Charge, Finish, Idle, Reserves, TypeOK, CallType
  <2> QED BY <1>0, <1>a, <1>d, <2>1
\* Nothing but the clock or a counter that nobody reads any more.
<1>f. ASSUME call' = call,
             \A b \in Buckets : clock' <= b + Lifetime =>
               clock <= b + Lifetime /\ reserved'[b] = reserved[b]
      PROVE  Covered'
  <2>1. \A b \in Buckets : ReservedAt(b)' = ReservedAt(b)
    BY <1>f DEF ReservedAt, Reserves
  <2> QED BY <1>f, <2>1 DEF Covered
<1>8. CASE Tick
  BY <1>8, <1>f, Zero, Money DEF Tick, Buckets
<1>9. ASSUME NEW b \in Buckets, Expire(b) PROVE Covered'
  BY <1>9, <1>f, Zero, Money DEF Expire, Buckets, TypeOK
<1>10. CASE UNCHANGED vars
  BY <1>10, <1>f DEF vars
<1> QED
  BY <1>1, <1>2, <1>3, <1>4, <1>5, <1>6, <1>7, <1>8, <1>9, <1>10
     DEF Next, Answered, Aborted

-------------------------------------------------------------------------------
(* The sets of calls that wait for their decision.                           *)

\* The sums of the definitions above are natural numbers.
LEMMA SumsTyped ==
  ASSUME NEW P, NEW c, TypeOK
  PROVE  Sum(Claim(P), Calls) \in Nat /\ Sum(Behind(c, P), Calls) \in Nat
<1>1. \A d \in Calls : Claim(P)[d] \in Nat /\ Behind(c, P)[d] \in Nat
  BY Summands
<1> QED BY <1>1, SumNatural, BudgetAssumption

\* Arithmetic: what is added has been claimed, what is given up has been outstanding.
LEMMA Carries ==
  ASSUME NEW s \in Nat, NEW t \in Nat, NEW o \in Nat, NEW p \in Nat,
         NEW x \in Nat, NEW y \in Nat, NEW limit \in Nat,
         t + o <= s + p, y <= x, s + x <= limit + o
  PROVE  t + y <= limit + p
OBVIOUS

\* What fits still fits when no claim grows and what was settled is covered.
LEMMA StillFits ==
  ASSUME TypeOK, TypeOK', NEW P, Fits(P),
         settled' + over <= settled + over',
         \A d \in Calls : Claim(P)'[d] <= Claim(P)[d]
  PROVE  Fits(P)'
<1> DEFINE f == Claim(P)
           g == Claim(P)'
<1>1. (\A d \in Calls : f[d] \in Nat) /\ (\A d \in Calls : g[d] \in Nat)
  BY Summands, SummandsAfter
<1>2. \A d \in Calls : g[d] <= f[d]
  OBVIOUS
<1>3. /\ settled \in Nat /\ settled' \in Nat /\ over \in Nat /\ over' \in Nat /\ Limit \in Nat
      /\ settled' + over <= settled + over'
  BY Money DEF TypeOK
<1>4. settled + Sum(f, Calls) <= Limit + over
  BY DEF Fits
<1> HIDE DEF f, g
<1>5. Sum(g, Calls) <= Sum(f, Calls)
  BY <1>1, <1>2, SumMonotone, BudgetAssumption
<1>6. Sum(f, Calls) \in Nat /\ Sum(g, Calls) \in Nat
  BY <1>1, SumNatural, BudgetAssumption
<1>7. settled' + Sum(g, Calls) <= Limit + over'
  <2>1. \A x \in Nat, y \in Nat :
          y <= x /\ settled + x <= Limit + over => settled' + y <= Limit + over'
    BY <1>3, Carries, ZenonT(60)
  <2> QED BY <1>4, <1>5, <1>6, <2>1
<1> QED BY <1>7 DEF g, Fits

\* What a call has seen it still has seen when no claim grows or moves.
LEMMA StillSeen ==
  ASSUME TypeOK, TypeOK', NEW P, NEW c \in Calls, HasSeen(c, P), call'[c] = call[c],
         \A d \in Calls : /\ Claim(P)'[d] <= Claim(P)[d]
                          /\ Claim(P)'[d] # 0 => call'[d].bucket = call[d].bucket
  PROVE  HasSeen(c, P)'
<1> SUFFICES ASSUME call[c].step = "summing"
             PROVE  Sum(Behind(c, P), Calls)' <= call[c].sum
  BY DEF HasSeen
<1> DEFINE f == Behind(c, P)
           g == Behind(c, P)'
<1>1. (\A d \in Calls : f[d] \in Nat) /\ (\A d \in Calls : g[d] \in Nat)
  BY Summands, SummandsAfter
<1>2. \A d \in Calls : g[d] <= f[d]
  <2> TAKE d \in Calls
  <2>1. f[d] \in Nat
    BY <1>1
  <2>2. CASE Claim(P)'[d] = 0
    <3>1. g[d] = 0
      BY <2>2 DEF Behind
    <3> HIDE DEF f, g
    <3> QED BY <2>1, <3>1
  <2>3. CASE Claim(P)'[d] # 0
    <3>0. call'[d].bucket = call[d].bucket
      BY <2>3
    <3>1. g[d] = IF call[d].bucket \in call[c].next .. call[c].last THEN 0 ELSE Claim(P)'[d]
      BY <3>0 DEF Behind
    <3>2. f[d] = IF call[d].bucket \in call[c].next .. call[c].last THEN 0 ELSE Claim(P)[d]
      BY DEF Behind
    <3> HIDE DEF f, g
    <3>3. g[d] = 0 \/ (g[d] = Claim(P)'[d] /\ f[d] = Claim(P)[d])
      BY <3>1, <3>2
    <3>4. Claim(P)'[d] <= Claim(P)[d]
      OBVIOUS
    <3> QED BY <2>1, <3>3, <3>4
  <2> QED BY <2>2, <2>3
<1>3. Sum(f, Calls) <= call[c].sum
  BY DEF HasSeen
<1>4. call[c].sum \in Nat
  BY CountersTyped
<1> HIDE DEF f, g
<1>5. Sum(g, Calls) <= Sum(f, Calls)
  BY <1>1, <1>2, SumMonotone, BudgetAssumption
<1>6. Sum(f, Calls) \in Nat /\ Sum(g, Calls) \in Nat
  BY <1>1, SumNatural, BudgetAssumption
<1>7. Sum(g, Calls) <= call[c].sum
  BY <1>3, <1>4, <1>5, <1>6
<1> QED BY <1>7 DEF g

\* A step of c takes nothing to itself and leaves the waiting calls alone.
LEMMA Quiet ==
  ASSUME TypeOK, TypeOK', Admissible, NEW c, clock' = clock,
         \A d \in Calls \ {c} : call'[d] = call[d],
         NEW P \in SUBSET Pending', c \notin P,
         \/ c \in Calls => call'[c].step \notin {"held", "kept"}
         \/ /\ call[c].step = "held" /\ call'[c].step = "kept"
            /\ call'[c].bucket = call[c].bucket /\ call'[c].cents = call[c].cents,
         settled' + over <= settled + over' \/ (Fits(P) => Fits(P)')
  PROVE  Safe(P)'
<1>1. P \in SUBSET Pending /\ \A d \in P : d \in Calls /\ call'[d] = call[d]
  BY DEF Pending
<1>2. \A d \in Calls : Claim(P)[d] \in Nat /\ Claim(P)'[d] \in Nat
  BY Summands, SummandsAfter
<1>3. \A d \in Calls \ {c} : Claim(P)'[d] = Claim(P)[d]
  BY DEF Claim, InWindow
<1>4. c \in Calls => \/ Claim(P)'[c] = 0
                     \/ /\ Claim(P)'[c] = Claim(P)[c]
                        /\ call'[c].bucket = call[c].bucket
  BY DEF Claim, InWindow
<1>5. \A d \in Calls : /\ Claim(P)'[d] <= Claim(P)[d]
                       /\ Claim(P)'[d] # 0 => call'[d].bucket = call[d].bucket
  BY <1>2, <1>3, <1>4
<1>6. CASE Fits(P)
  BY <1>5, <1>6, StillFits DEF Safe
<1>7. ASSUME NEW d \in P, HasSeen(d, P) PROVE Safe(P)'
  BY <1>1, <1>5, <1>7, StillSeen DEF Safe
<1> QED BY <1>1, <1>6, <1>7 DEF Admissible, Safe

\* Settling gives up a claim of the call's estimate, or none any more.
LEMMA SettleFits ==
  ASSUME TypeOK, TypeOK', NEW c \in Calls, NEW actual \in Nat, NEW P,
         call[c].step = "held", Settle(c, actual), c \notin P, Fits(P)
  PROVE  Fits(P)'
<1> DEFINE f == Claim(P)
           g == Claim(P)'
<1>1. (\A d \in Calls : f[d] \in Nat) /\ (\A d \in Calls : g[d] \in Nat)
  BY Summands, SummandsAfter
<1>2. /\ clock' = clock /\ call'[c].step = "rollback"
      /\ \A d \in Calls \ {c} : call'[d] = call[d]
  BY DEF Settle, Goto, TypeOK, CallType
<1>3. g[c] = 0 /\ \A d \in Calls \ {c} : g[d] = f[d]
  BY <1>2 DEF Claim, InWindow
<1>4. f[c] = IF InWindow(c, clock) THEN call[c].cents ELSE 0
  BY DEF Claim
<1>5. settled + Sum(f, Calls) <= Limit + over
  BY DEF Fits
<1> HIDE DEF f, g
<1>6. Sum(f, Calls) = Sum(g, Calls) + f[c]
  <2>1. Sum(g, Calls) + f[c] = Sum(f, Calls) + g[c]
    BY <1>1, <1>3, SumChanges, BudgetAssumption
  <2>2. Sum(f, Calls) \in Nat
    BY <1>1, SumNatural, BudgetAssumption
  <2> QED BY <1>3, <2>1, <2>2
<1>7. Sum(g, Calls) \in Nat
  BY <1>1, SumNatural, BudgetAssumption
<1>8. \A y \in Nat : settled + (y + f[c]) <= Limit + over => settled' + y <= Limit + over'
  <2>1. /\ settled \in Nat /\ over \in Nat /\ call[c].cents \in Nat /\ Limit \in Nat
        /\ f[c] \in Nat
    BY <1>1, CountersTyped, Money DEF TypeOK
  <2>2. /\ settled' = settled + actual
        /\ over' = over + IF InWindow(c, clock) THEN Monus(actual, call[c].cents) ELSE actual
    BY DEF Settle
  <2>3. CASE InWindow(c, clock)
    BY <1>4, <2>1, <2>2, <2>3 DEF Monus
  <2>4. CASE ~ InWindow(c, clock)
    BY <1>4, <2>1, <2>2, <2>4
  <2> QED BY <2>3, <2>4
<1>9. settled' + Sum(g, Calls) <= Limit + over'
  BY <1>5, <1>6, <1>7, <1>8
<1> QED BY <1>9 DEF g, Fits

\* A call that starts to sum has every claim ahead of it.
LEMMA LookBackSees ==
  ASSUME TypeOK, TypeOK', InThePast, NEW c \in Calls, LookBack(c), NEW P
  PROVE  HasSeen(c, P)'
<1> DEFINE g == Behind(c, P)'
<1>1. /\ clock' = clock /\ call'[c].sum = call[c].sum
      /\ call'[c].next = FirstBucket(c) /\ call'[c].last = clock
      /\ \A d \in Calls : call'[d].bucket = call[d].bucket
  BY DEF LookBack, LastBucket, TypeOK, CallType
<1>2. \A d \in Calls : g[d] = 0
  <2> TAKE d \in Calls
  <2>1. CASE InWindow(d, clock)
    <3>1. /\ call[d].bucket \in Nat /\ clock \in Nat /\ Lifetime \in Nat
          /\ call[d].bucket <= clock /\ clock <= call[d].bucket + Lifetime
      BY <2>1, CountersTyped, Zero, Money DEF InWindow, InThePast, Buckets
    <3>2. call[d].bucket \in FirstBucket(c) .. clock
      BY <3>1 DEF FirstBucket, LastBucket, Monus
    <3>3. call'[d].bucket \in call'[c].next .. call'[c].last
      BY <1>1, <3>2
    <3> QED BY <3>3 DEF Behind
  <2>2. CASE ~ InWindow(d, clock)
    <3>1. ~ InWindow(d, clock)'
      BY <1>1, <2>2 DEF InWindow
    <3> QED BY <3>1 DEF Behind, Claim
  <2> QED BY <2>1, <2>2
<1> HIDE DEF g
<1>3. Sum(g, Calls) = 0
  BY <1>2, SumOfNothing, BudgetAssumption
<1>4. call'[c].sum \in Nat
  BY <1>1, CountersTyped
<1>5. Sum(g, Calls) <= call'[c].sum
  BY <1>3, <1>4
<1> QED BY <1>5 DEF g, HasSeen

\* Reading a counter adds at least the claims of its bucket to the sum.
LEMMA ReadBucketSees ==
  ASSUME TypeOK, TypeOK', Covered, NEW c \in Calls, ReadBucket(c),
         NEW P \in SUBSET Pending, HasSeen(c, P)
  PROVE  HasSeen(c, P)'
<1> DEFINE f == Behind(c, P)
           g == Behind(c, P)'
           here == ReservedAt(call[c].next)
<1>1. /\ \A d \in Calls : f[d] \in Nat
      /\ \A d \in Calls : g[d] \in Nat
      /\ \A d \in Calls : here[d] \in Nat
  BY Summands, SummandsAfter
<1>2. /\ clock' = clock /\ call[c].step = "summing" /\ call'[c].last = call[c].last
      /\ call'[c].next = call[c].next + 1
      /\ call'[c].sum = call[c].sum + reserved[call[c].next]
      /\ \A d \in Calls : /\ call'[d].step = call[d].step
                          /\ call'[d].bucket = call[d].bucket
                          /\ call'[d].cents = call[d].cents
  BY DEF ReadBucket, TypeOK, CallType
<1>3. Claim(P)' = Claim(P)
  BY <1>2 DEF Claim, InWindow
<1>4. /\ call[c].next \in Buckets /\ call[c].next \in Nat /\ reserved[call[c].next] \in Nat
      /\ call[c].sum \in Nat /\ call[c].last \in Nat
  BY NextCounter, CountersTyped DEF ReadBucket
<1>5. \A d \in Calls : \/ g[d] <= f[d]
                       \/ /\ call[d].bucket = call[c].next
                          /\ g[d] = Claim(P)[d]
  <2> TAKE d \in Calls
  <2>1. g[d] = IF call[d].bucket \in (call[c].next + 1) .. call[c].last
               THEN 0 ELSE Claim(P)[d]
    BY <1>2, <1>3 DEF Behind
  <2>2. f[d] = IF call[d].bucket \in call[c].next .. call[c].last THEN 0 ELSE Claim(P)[d]
    BY DEF Behind
  <2>3. f[d] \in Nat /\ g[d] \in Nat /\ call[d].bucket \in Nat
    BY <1>1, CountersTyped DEF Buckets
  <2> HIDE DEF f, g
  <2>4. CASE call[d].bucket = call[c].next
    <3>1. call[d].bucket \notin (call[c].next + 1) .. call[c].last
      BY <1>4, <2>4
    <3> QED BY <2>1, <2>4, <3>1
  <2>5. CASE call[d].bucket # call[c].next
    <3>1. call[d].bucket \in (call[c].next + 1) .. call[c].last
            <=> call[d].bucket \in call[c].next .. call[c].last
      BY <1>4, <2>3, <2>5
    <3>2. g[d] = f[d]
      BY <2>1, <2>2, <3>1
    <3> QED BY <2>3, <3>2
  <2> QED BY <2>4, <2>5
<1>6. Sum(f, Calls) <= call[c].sum
  BY <1>2 DEF HasSeen
<1>7. CASE clock <= call[c].next + Lifetime
  <2>1. \A d \in Calls : g[d] <= f[d] \/ g[d] <= here[d]
    <3> SUFFICES ASSUME NEW d \in Calls, call[d].bucket = call[c].next, g[d] = Claim(P)[d]
                 PROVE  g[d] <= here[d]
      BY <1>5
    <3>1. Claim(P)[d] = 0 \/ (Claim(P)[d] = call[d].cents /\ Reserves(d))
      BY DEF Claim, Reserves, Pending
    <3>2. Reserves(d) => here[d] = call[d].cents
      BY DEF ReservedAt
    <3>3. here[d] \in Nat /\ g[d] \in Nat
      BY <1>1
    <3> HIDE DEF here, g
    <3> QED BY <3>1, <3>2, <3>3
  <2>2. Sum(here, Calls) <= reserved[call[c].next]
    BY <1>4, <1>7 DEF Covered
  <2> HIDE DEF f, g, here
  <2>3. Sum(g, Calls) <= Sum(f, Calls) + Sum(here, Calls)
    BY <1>1, <2>1, SumCovered, BudgetAssumption
  <2>4. Sum(f, Calls) \in Nat /\ Sum(g, Calls) \in Nat /\ Sum(here, Calls) \in Nat
    BY <1>1, SumNatural, BudgetAssumption
  <2>5. Sum(g, Calls) <= call[c].sum + reserved[call[c].next]
    BY <1>4, <1>6, <2>2, <2>3, <2>4
  <2> QED BY <1>2, <2>5 DEF g, HasSeen
<1>8. CASE ~ (clock <= call[c].next + Lifetime)
  <2>1. \A d \in Calls : g[d] <= f[d]
    <3> SUFFICES ASSUME NEW d \in Calls, call[d].bucket = call[c].next, g[d] = Claim(P)[d]
                 PROVE  g[d] <= f[d]
      BY <1>5
    <3>1. Claim(P)[d] = 0
      BY <1>8 DEF Claim, InWindow
    <3>2. f[d] \in Nat
      BY <1>1
    <3> HIDE DEF f, g
    <3> QED BY <3>1, <3>2
  <2> HIDE DEF f, g
  <2>2. Sum(g, Calls) <= Sum(f, Calls)
    BY <1>1, <2>1, SumMonotone, BudgetAssumption
  <2>3. Sum(f, Calls) \in Nat /\ Sum(g, Calls) \in Nat
    BY <1>1, SumNatural, BudgetAssumption
  <2>4. Sum(g, Calls) <= call[c].sum + reserved[call[c].next]
    BY <1>4, <1>6, <2>2, <2>3
  <2> QED BY <1>2, <2>4 DEF g, HasSeen
<1> QED BY <1>7, <1>8

\* An admitted call was one of the waiting calls a step earlier: it has read
\* every claim of that set, or one of the others has.
LEMMA AdmissionIsSafe ==
  ASSUME TypeOK, TypeOK', Admissible, NEW c \in Calls, Decide(c), call'[c].step = "held",
         NEW P \in SUBSET Pending'
  PROVE  Safe(P)'
<1> DEFINE Q == P \cup {c}
<1>1. /\ clock' = clock /\ settled' = settled /\ over' = over
      /\ call[c].step = "summing" /\ call[c].next > call[c].last
      /\ settled + call[c].sum <= Limit
      /\ call'[c].bucket = call[c].bucket /\ call'[c].cents = call[c].cents
      /\ \A d \in Calls \ {c} : call'[d] = call[d]
  <2>1. settled \in Nat /\ call[c].sum \in Nat /\ Limit \in Nat
    BY CountersTyped, Money DEF TypeOK
  <2>2. ~ (settled + call[c].sum > Limit)
    BY DEF Decide, TypeOK, CallType
  <2>3. settled + call[c].sum <= Limit
    BY <2>1, <2>2
  <2> QED BY <2>3 DEF Decide, TypeOK, CallType
<1>2. c \notin P
  BY DEF Pending
<1>3. Q \in SUBSET Pending
  BY <1>1, <1>2 DEF Pending
<1>4. Claim(P)' = Claim(Q)
  <2>1. \A d \in Calls : Claim(P)'[d] = Claim(Q)[d]
    BY <1>1, <1>2 DEF Claim, InWindow
  <2> QED BY <2>1 DEF Claim
<1>5. CASE Fits(Q)
  BY <1>1, <1>4, <1>5 DEF Fits, Safe
<1>6. CASE HasSeen(c, Q)
  <2>1. call[c].next \in Nat /\ call[c].last \in Nat
    BY CountersTyped
  <2>2. call[c].next .. call[c].last = {}
    BY <1>1, <2>1
  <2>3. Behind(c, Q) = Claim(Q)
    <3>1. \A d \in Calls : Behind(c, Q)[d] = Claim(Q)[d]
      BY <2>2 DEF Behind
    <3> QED BY <3>1 DEF Behind, Claim
  <2>4. Sum(Claim(Q), Calls) <= call[c].sum
    BY <1>1, <1>6, <2>3 DEF HasSeen
  <2>5. Sum(Claim(Q), Calls) \in Nat
    BY SumsTyped
  <2>6. /\ call[c].sum \in Nat /\ settled \in Nat /\ over \in Nat /\ Limit \in Nat
        /\ settled + call[c].sum <= Limit
    BY <1>1, CountersTyped, Money DEF TypeOK
  <2>7. \A x \in Nat : x <= call[c].sum => settled + x <= Limit + over
    BY <2>6
  <2>8. settled + Sum(Claim(Q), Calls) <= Limit + over
    BY <2>4, <2>5, <2>7
  <2>9. Fits(Q)
    BY <2>8 DEF Fits
  <2> QED BY <1>5, <2>9
<1>7. ASSUME NEW e \in P, HasSeen(e, Q) PROVE Safe(P)'
  <2>1. e \in Calls /\ call'[e] = call[e]
    BY <1>1, <1>2 DEF Pending
  <2>2. Behind(e, P)' = Behind(e, Q)
    <3>1. \A d \in Calls : Behind(e, P)'[d] = Behind(e, Q)[d]
      <4> TAKE d \in Calls
      <4>1. call'[d].bucket = call[d].bucket
        BY <1>1
      <4> QED BY <1>4, <2>1, <4>1 DEF Behind
    <3> QED BY <3>1 DEF Behind
  <2>3. Sum(Behind(e, P), Calls)' = Sum(Behind(e, Q), Calls)
    BY <2>2
  <2>4. HasSeen(e, P)'
    BY <1>7, <2>1, <2>3 DEF HasSeen
  <2> QED BY <2>4 DEF Safe
<1> QED BY <1>3, <1>5, <1>6, <1>7 DEF Admissible, Safe

\* One step per action.
LEMMA AdmissibleKept ==
  ASSUME TypeOK, TypeOK', InThePast, Covered, Admissible, [Next]_vars
  PROVE  Admissible'
<1> SUFFICES ASSUME NEW P \in SUBSET Pending' PROVE Safe(P)'
  BY DEF Admissible
<1>0. settled \in Nat /\ over \in Nat /\ settled + over <= settled + over
  BY DEF TypeOK
\* Steps that end a wait or a claim, and leave the settled cents alone.
<1>a. ASSUME NEW c \in Calls, UNCHANGED <<clock, settled, over>>,
             \A d \in Calls \ {c} : call'[d] = call[d],
             call'[c].step \in {"adding", "rollback", "done"}
      PROVE  Safe(P)'
  <2>1. c \notin P /\ call'[c].step \notin {"held", "kept"}
    BY <1>a DEF Pending
  <2> QED BY <1>0, <1>a, <2>1, Quiet
<1>1. ASSUME NEW c \in Calls, NEW cents \in Estimates, Begin(c, cents) PROVE Safe(P)'
  <2>1. /\ UNCHANGED <<clock, settled, over>> /\ call'[c].step = "adding"
        /\ \A d \in Calls \ {c} : call'[d] = call[d]
    BY <1>1 DEF Begin, TypeOK, CallType
  <2> QED BY <1>a, <2>1
<1>2. ASSUME NEW c \in Calls, Add(c) PROVE Safe(P)'
  <2>1. /\ UNCHANGED <<clock, settled, over>> /\ call'[c].step = "added"
        /\ \A d \in Calls \ {c} : call'[d] = call[d]
    BY <1>2 DEF Add, Goto, TypeOK, CallType
  <2>2. CASE c \in P
    BY <2>1, <2>2 DEF Safe, HasSeen
  <2>3. CASE c \notin P
    <3>1. call'[c].step \notin {"held", "kept"}
      BY <2>1
    <3> QED BY <1>0, <2>1, <2>3, <3>1, Quiet
  <2> QED BY <2>2, <2>3
<1>3. ASSUME NEW c \in Calls, LookBack(c) PROVE Safe(P)'
  <2>1. /\ UNCHANGED <<clock, settled, over>> /\ call'[c].step = "summing"
        /\ \A d \in Calls \ {c} : call'[d] = call[d]
    BY <1>3 DEF LookBack, TypeOK, CallType
  <2>2. CASE c \in P
    BY <1>3, <2>2, LookBackSees DEF Safe
  <2>3. CASE c \notin P
    <3>1. call'[c].step \notin {"held", "kept"}
      BY <2>1
    <3> QED BY <1>0, <2>1, <2>3, <3>1, Quiet
  <2> QED BY <2>2, <2>3
<1>4. ASSUME NEW c \in Calls, ReadBucket(c) PROVE Safe(P)'
  <2>1. /\ UNCHANGED <<clock, settled, over>> /\ call[c].step = "summing"
        /\ \A d \in Calls \ {c} : call'[d] = call[d]
        /\ \A d \in Calls : /\ call'[d].step = call[d].step
                            /\ call'[d].bucket = call[d].bucket
                            /\ call'[d].cents = call[d].cents
    BY <1>4 DEF ReadBucket, TypeOK, CallType
  <2>2. P \in SUBSET Pending
    BY <2>1 DEF Pending
  <2>3. \A d \in Calls : Claim(P)'[d] = Claim(P)[d] /\ Claim(P)[d] \in Nat
    BY <2>1, Summands DEF Claim, InWindow
  <2>4. CASE Fits(P)
    BY <1>0, <2>1, <2>3, <2>4, StillFits DEF Safe
  <2>5. ASSUME NEW d \in P, HasSeen(d, P) PROVE Safe(P)'
    <3>1. CASE d = c
      BY <1>4, <2>2, <2>5, <3>1, ReadBucketSees DEF Safe
    <3>2. CASE d # c
      <4>1. /\ d \in Calls /\ call'[d] = call[d]
            /\ \A e \in Calls : /\ Claim(P)'[e] <= Claim(P)[e]
                                /\ Claim(P)'[e] # 0 => call'[e].bucket = call[e].bucket
        BY <2>1, <2>2, <2>3, <3>2 DEF Pending
      <4> QED BY <2>5, <4>1, StillSeen DEF Safe
    <3> QED BY <3>1, <3>2
  <2> QED BY <2>2, <2>4, <2>5 DEF Admissible, Safe
<1>5. ASSUME NEW c \in Calls, Decide(c) PROVE Safe(P)'
  <2>1. /\ UNCHANGED <<clock, settled, over>> /\ call'[c].step \in {"rollback", "held"}
        /\ \A d \in Calls \ {c} : call'[d] = call[d]
    BY <1>5 DEF Decide, TypeOK, CallType
  <2>2. CASE call'[c].step = "held"
    BY <1>5, <2>2, AdmissionIsSafe
  <2> QED BY <1>a, <2>1, <2>2
<1>6. ASSUME NEW c \in Calls, RollBack(c) \/ Unbilled(c) PROVE Safe(P)'
  <2>1. /\ UNCHANGED <<clock, settled, over>> /\ call'[c].step = "done"
        /\ \A d \in Calls \ {c} : call'[d] = call[d]
    BY <1>6 DEF RollBack, Unbilled, Finish, Idle, TypeOK
  <2> QED BY <1>a, <2>1
<1>7. ASSUME NEW c \in Calls, CacheFails(c) PROVE Safe(P)'
  <2>1. /\ UNCHANGED <<clock, settled, over>> /\ call'[c].step \in {"rollback", "done"}
        /\ \A d \in Calls \ {c} : call'[d] = call[d]
    BY <1>7 DEF CacheFails, Goto, Finish, Idle, TypeOK, CallType
  <2> QED BY <1>a, <2>1
<1>8. ASSUME NEW c \in Calls, NEW actual \in Nat, call[c].step = "held", Settle(c, actual)
      PROVE  Safe(P)'
  <2>1. /\ clock' = clock /\ call'[c].step = "rollback"
        /\ \A d \in Calls \ {c} : call'[d] = call[d]
    BY <1>8 DEF Settle, Goto, TypeOK, CallType
  <2>2. c \notin P /\ call'[c].step \notin {"held", "kept"}
    BY <2>1 DEF Pending
  <2>3. Fits(P) => Fits(P)'
    BY <1>8, <2>2, SettleFits
  <2> QED BY <2>1, <2>2, <2>3, Quiet
<1>9. ASSUME NEW c \in Calls, Keep(c) PROVE Safe(P)'
  <2>1. /\ UNCHANGED <<clock, settled, over>>
        /\ call[c].step = "held" /\ call'[c].step = "kept"
        /\ call'[c].bucket = call[c].bucket /\ call'[c].cents = call[c].cents
        /\ \A d \in Calls \ {c} : call'[d] = call[d]
    BY <1>9 DEF Keep, Goto, TypeOK, CallType
  <2>2. c \notin P
    BY <2>1 DEF Pending
  <2> QED BY <1>0, <2>1, <2>2, Quiet
<1>10. ASSUME NEW c \in Calls, NEW cents \in Actuals, Charge(c, cents) PROVE Safe(P)'
  <2>1. /\ clock' = clock /\ call'[c].step = "done"
        /\ \A d \in Calls \ {c} : call'[d] = call[d]
    BY <1>10 DEF Charge, Finish, Idle, TypeOK
  <2>2. c \notin P /\ call'[c].step \notin {"held", "kept"}
    BY <2>1 DEF Pending
  <2>3. cents \in Nat /\ settled' = settled + cents /\ over' = over + cents
    BY <1>10, Money DEF Charge
  <2>4. settled' + over <= settled + over'
    BY <1>0, <2>3
  <2> QED BY <2>1, <2>2, <2>4, Quiet
\* Nobody's step: claims lapse at most.
<1>b. ASSUME UNCHANGED <<settled, over, call>>,
             \A d \in Calls : InWindow(d, clock') => InWindow(d, clock)
      PROVE  Safe(P)'
  <2>1. P \in SUBSET Pending /\ \A d \in P : d \in Calls
    BY <1>b DEF Pending
  <2>2. \A d \in Calls : Claim(P)[d] \in Nat /\ Claim(P)'[d] \in Nat
    BY Summands, SummandsAfter
  <2>3. \A d \in Calls : Claim(P)'[d] = Claim(P)[d] \/ Claim(P)'[d] = 0
    BY <1>b DEF Claim, InWindow
  <2>4. \A d \in Calls : /\ Claim(P)'[d] <= Claim(P)[d]
                         /\ Claim(P)'[d] # 0 => call'[d].bucket = call[d].bucket
    BY <1>b, <2>2, <2>3
  <2>5. CASE Fits(P)
    BY <1>0, <1>b, <2>4, <2>5, StillFits DEF Safe
  <2>6. ASSUME NEW d \in P, HasSeen(d, P) PROVE Safe(P)'
    <3>1. d \in Calls /\ call'[d] = call[d]
      BY <1>b, <2>1
    <3> QED BY <2>4, <2>6, <3>1, StillSeen DEF Safe
  <2> QED BY <2>1, <2>5, <2>6 DEF Admissible, Safe
<1>11. CASE Tick
  <2>1. \A d \in Calls : InWindow(d, clock') => InWindow(d, clock)
    <3> TAKE d \in Calls
    <3>1. clock \in Nat /\ clock' = clock + 1 /\ call[d].bucket \in Nat /\ Lifetime \in Nat
      BY <1>11, CountersTyped, Zero, Money DEF Tick, Buckets
    <3> QED BY <3>1 DEF InWindow
  <2> QED BY <1>11, <1>b, <2>1 DEF Tick
<1>12. ASSUME NEW b \in Buckets, Expire(b) PROVE Safe(P)'
  BY <1>12, <1>b DEF Expire
<1>13. CASE UNCHANGED vars
  BY <1>13, <1>b DEF vars
<1>14. \A c \in Calls : Aborted(c) => /\ call[c].step = "held" /\ call[c].cents \in Nat
                                      /\ Settle(c, call[c].cents)
  BY CountersTyped DEF Aborted
<1>15. \A c \in Calls, actual \in Actuals :
         Answered(c, actual) => call[c].step = "held" /\ actual \in Nat /\ Settle(c, actual)
  BY Money DEF Answered
<1> QED
  BY <1>1, <1>2, <1>3, <1>4, <1>5, <1>6, <1>7, <1>8, <1>9, <1>10, <1>11, <1>12, <1>13,
     <1>14, <1>15 DEF Next

-------------------------------------------------------------------------------
(* What the specification promises.                                          *)

\* The invariant holds in every reachable state.
LEMMA Invariant == Spec => []IInv
<1>1. Init => IInv
  <2> SUFFICES ASSUME Init PROVE IInv
    OBVIOUS
  <2>1. TypeOK /\ InThePast /\ Estimated
    BY InitTyped
  <2>2. \A c \in Calls : call[c] = Idle
    BY DEF Init
  <2>3. Covered
    <3> SUFFICES ASSUME NEW b \in Buckets PROVE Sum(ReservedAt(b), Calls) <= reserved[b]
      BY DEF Covered
    <3>1. \A d \in Calls : ReservedAt(b)[d] = 0
      BY <2>2 DEF ReservedAt, Reserves, Idle
    <3>2. Sum(ReservedAt(b), Calls) = 0
      BY <3>1, SumOfNothing, BudgetAssumption
    <3> QED BY <3>2 DEF Init
  <2>4. Admissible
    <3> SUFFICES ASSUME NEW P \in SUBSET Pending PROVE Fits(P)
      BY DEF Admissible, Safe
    <3>1. P = {}
      BY <2>2 DEF Pending, Idle
    <3>2. \A d \in Calls : Claim(P)[d] = 0
      BY <2>2, <3>1 DEF Claim, Idle
    <3>3. Sum(Claim(P), Calls) = 0
      BY <3>2, SumOfNothing, BudgetAssumption
    <3> QED BY <3>3, Money DEF Fits, Init
  <2> QED BY <2>1, <2>3, <2>4 DEF IInv
<1>2. IInv /\ [Next]_vars => IInv'
  BY TypesKept, CoveredKept, AdmissibleKept DEF IInv
<1> QED BY <1>1, <1>2, PTL DEF Spec

\* The counters, the clock and the calls keep their types (cost_guard.py).
THEOREM TypeCorrect == Spec => []TypeOK
<1>1. IInv => TypeOK
  BY DEF IInv
<1> QED BY <1>1, Invariant, PTL

\* The docstring of reserve_user_budget: what was settled and what admitted
\* calls may still cost stays within the limit, however the requests interleave.
THEOREM LimitHolds == Spec => []WithinLimit
<1>1. IInv => WithinLimit
  <2> SUFFICES ASSUME IInv PROVE WithinLimit
    OBVIOUS
  <2>1. Fits({})
    BY DEF IInv, Admissible, Safe
  <2>2. Outstanding = Claim({})
    BY DEF Outstanding, Claim
  <2>3. settled + Sum(Outstanding, Calls) <= Limit + over
    BY <2>1, <2>2 DEF Fits
  <2> QED BY <2>3 DEF WithinLimit, Sum
<1> QED BY <1>1, Invariant, PTL

-------------------------------------------------------------------------------
(* Every step is a step of the atomic budget, or none.                       *)

\* The sum of the abstract budget is the sum of the proofs.
LEMMA HeldIsSum == AtomicBudget!Held = Sum(Outstanding, Calls)
BY DEF AtomicBudget!Held, AtomicBudget!MapThenSumSet, AtomicBudget!MapThenFoldSet,
       Sum, MapThenSumSet, MapThenFoldSet

\* What the abstract budget counts for a call.
LEMMA OutstandingTyped ==
  ASSUME TypeOK, NEW d \in Calls
  PROVE  /\ Outstanding[d] \in Nat
         /\ DOMAIN Outstanding = Calls
         /\ Outstanding[d] = IF call[d].step \in {"held", "kept"} /\ InWindow(d, clock)
                             THEN call[d].cents ELSE 0
BY CountersTyped DEF Outstanding

\* What nobody settles, admits or lets lapse is outstanding as before.
LEMMA Stutters ==
  ASSUME UNCHANGED <<settled, over>>, \A d \in Calls : Outstanding'[d] = Outstanding[d]
  PROVE  UNCHANGED AtomicBudget!vars
<1>1. Outstanding' = Outstanding
  BY DEF Outstanding
<1> QED BY <1>1 DEF AtomicBudget!vars

\* The decision of a call that is admitted checks and takes in one step.
LEMMA Admits ==
  ASSUME TypeOK, TypeOK', Estimated, Admissible', NEW c \in Calls, Decide(c),
         call'[c].step = "held", InWindow(c, clock)
  PROVE  \E cents \in Estimates : AtomicBudget!Admit(c, cents)
<1> DEFINE f == Outstanding
           g == Outstanding'
<1>1. (\A d \in Calls : f[d] \in Nat) /\ (\A d \in Calls : g[d] \in Nat)
  <2>1. \A d \in Calls : f[d] \in Nat
    BY OutstandingTyped
  <2>2. \A d \in Calls : g[d] = Claim({})'[d]
    BY DEF Outstanding, Claim
  <2>3. \A d \in Calls : Claim({})'[d] \in Nat
    BY SummandsAfter
  <2> HIDE DEF f, g
  <2> QED BY <2>1, <2>2, <2>3
<1>2. /\ UNCHANGED <<clock, settled, over>> /\ call[c].step = "summing"
      /\ call'[c].bucket = call[c].bucket /\ call'[c].cents = call[c].cents
      /\ \A d \in Calls \ {c} : call'[d] = call[d]
  BY DEF Decide, TypeOK, CallType
<1>3. call[c].cents \in Estimates /\ call[c].cents \in Nat
  BY <1>2, Money DEF Estimated
<1>4. f[c] = 0 /\ g[c] = call[c].cents /\ \A d \in Calls \ {c} : g[d] = f[d]
  BY <1>2 DEF Outstanding, InWindow
<1>5. settled' + Sum(g, Calls) <= Limit + over'
  <2>1. Fits({})'
    BY DEF Admissible, Safe
  <2>2. g = Claim({})'
    BY DEF Outstanding, Claim
  <2> QED BY <2>1, <2>2 DEF Fits
<1>6. DOMAIN f = Calls /\ DOMAIN g = Calls /\ f = [d \in Calls |-> f[d]] /\ g = [d \in Calls |-> g[d]]
  BY DEF Outstanding
<1> HIDE DEF f, g
<1>7. g = [f EXCEPT ![c] = call[c].cents]
  BY <1>4, <1>6
<1>8. settled + Sum(f, Calls) + call[c].cents <= Limit + over
  <2>1. Sum(g, Calls) + f[c] = Sum(f, Calls) + g[c]
    BY <1>1, <1>4, SumChanges, BudgetAssumption
  <2>2. Sum(f, Calls) \in Nat /\ Sum(g, Calls) \in Nat
    BY <1>1, SumNatural, BudgetAssumption
  <2>3. Sum(g, Calls) = Sum(f, Calls) + call[c].cents
    BY <1>4, <2>1, <2>2
  <2>4. settled \in Nat
    BY DEF TypeOK
  <2> QED BY <1>2, <1>3, <1>5, <2>2, <2>3, <2>4
<1>9. AtomicBudget!Admit(c, call[c].cents)
  BY <1>2, <1>4, <1>7, <1>8, HeldIsSum DEF AtomicBudget!Admit, f, g
<1> QED BY <1>3, <1>9

\* A settled call gives up its hold, or is charged when that had lapsed.
LEMMA Settles ==
  ASSUME TypeOK, Estimated, NEW c \in Calls, NEW actual \in Nat,
         call[c].step = "held", Settle(c, actual)
  PROVE  AtomicBudget!Settle(c, actual) \/ AtomicBudget!Charge(actual)
<1> DEFINE f == Outstanding
           g == Outstanding'
<1>1. /\ clock' = clock /\ call'[c].step = "rollback"
      /\ \A d \in Calls \ {c} : call'[d] = call[d]
  BY DEF Settle, Goto, TypeOK, CallType
<1>2. call[c].cents \in Nat /\ call[c].cents > 0
  BY Money DEF Estimated
<1>3. /\ g[c] = 0 /\ \A d \in Calls \ {c} : g[d] = f[d]
      /\ f[c] = IF InWindow(c, clock) THEN call[c].cents ELSE 0
  BY <1>1 DEF Outstanding, InWindow
<1>4. DOMAIN f = Calls /\ DOMAIN g = Calls /\ f = [d \in Calls |-> f[d]] /\ g = [d \in Calls |-> g[d]]
  BY DEF Outstanding
<1>5. /\ settled' = settled + actual
      /\ over' = over + IF InWindow(c, clock) THEN Monus(actual, call[c].cents) ELSE actual
  BY DEF Settle
<1> HIDE DEF f, g
<1>6. CASE InWindow(c, clock)
  <2>1. g = [f EXCEPT ![c] = 0] /\ f[c] = call[c].cents
    BY <1>3, <1>4, <1>6
  <2>2. f[c] > 0 /\ over' = over + IF actual > f[c] THEN actual - f[c] ELSE 0
    BY <1>2, <1>5, <1>6, <2>1 DEF Monus
  <2> QED BY <1>5, <2>1, <2>2 DEF AtomicBudget!Settle, f, g
<1>7. CASE ~ InWindow(c, clock)
  <2>1. \A d \in Calls : g[d] = f[d]
    BY <1>3, <1>7
  <2>2. g = f
    BY <1>4, <2>1
  <2> QED BY <1>5, <1>7, <2>2 DEF AtomicBudget!Charge, f, g
<1> QED BY <1>6, <1>7

\* One step per action: what it is for the atomic budget.
LEMMA StepsAtomically ==
  ASSUME IInv, IInv', [Next]_vars
  PROVE  [AtomicBudget!Next]_(AtomicBudget!vars)
<1> USE DEF IInv
<1>a. \A lapsed \in SUBSET Calls : AtomicBudget!Release(lapsed) => AtomicBudget!Next
  BY DEF AtomicBudget!Next
<1>b. \A n \in Estimates \cup Actuals : AtomicBudget!Charge(n) => AtomicBudget!Next
  BY DEF AtomicBudget!Next
<1>c. \A c \in Calls, n \in Estimates \cup Actuals :
        AtomicBudget!Admit(c, n) \/ AtomicBudget!Settle(c, n) => AtomicBudget!Next
  BY DEF AtomicBudget!Next
\* Steps of a call that holds nothing before and after.
<1>d. ASSUME NEW c \in Calls, UNCHANGED <<clock, settled, over>>,
             \A d \in Calls \ {c} : call'[d] = call[d],
             call[c].step \notin {"held", "kept"}, call'[c].step \notin {"held", "kept"}
      PROVE  UNCHANGED AtomicBudget!vars
  <2>1. \A d \in Calls : Outstanding'[d] = Outstanding[d]
    BY <1>d DEF Outstanding, InWindow
  <2> QED BY <1>d, <2>1, Stutters
<1>1. ASSUME NEW c \in Calls, NEW cents \in Estimates, Begin(c, cents)
      PROVE  UNCHANGED AtomicBudget!vars
  BY <1>1, <1>d DEF Begin, TypeOK, CallType
<1>2. ASSUME NEW c \in Calls, Add(c) \/ LookBack(c) \/ ReadBucket(c)
      PROVE  UNCHANGED AtomicBudget!vars
  <2>1. /\ UNCHANGED <<clock, settled, over>>
        /\ call[c].step \in {"adding", "added", "summing"}
        /\ call'[c].step \in {"added", "summing"}
        /\ \A d \in Calls \ {c} : call'[d] = call[d]
    BY <1>2 DEF Add, LookBack, ReadBucket, Goto, TypeOK, CallType
  <2> QED BY <1>d, <2>1
<1>3. ASSUME NEW c \in Calls, RollBack(c) \/ CacheFails(c)
      PROVE  UNCHANGED AtomicBudget!vars
  <2>1. /\ UNCHANGED <<clock, settled, over>>
        /\ call[c].step \in {"adding", "added", "summing", "rollback"}
        /\ call'[c].step \in {"rollback", "done"}
        /\ \A d \in Calls \ {c} : call'[d] = call[d]
    BY <1>3 DEF RollBack, CacheFails, Goto, Finish, Idle, TypeOK, CallType
  <2> QED BY <1>d, <2>1
<1>4. ASSUME NEW c \in Calls, Decide(c)
      PROVE  [AtomicBudget!Next]_(AtomicBudget!vars)
  <2>1. /\ UNCHANGED <<clock, settled, over>>
        /\ call[c].step = "summing" /\ call'[c].step \in {"rollback", "held"}
        /\ call'[c].bucket = call[c].bucket
        /\ \A d \in Calls \ {c} : call'[d] = call[d]
    BY <1>4 DEF Decide, TypeOK, CallType
  <2>2. CASE call'[c].step = "rollback"
    BY <1>d, <2>1, <2>2
  <2>3. CASE call'[c].step = "held" /\ InWindow(c, clock)
    BY <1>4, <1>c, <2>3, Admits
  <2>4. CASE ~ InWindow(c, clock)
    <3>1. \A d \in Calls : Outstanding'[d] = Outstanding[d]
      BY <2>1, <2>4 DEF Outstanding, InWindow
    <3> QED BY <2>1, <3>1, Stutters
  <2> QED BY <2>1, <2>2, <2>3, <2>4
<1>5. ASSUME NEW c \in Calls, NEW n \in Estimates \cup Actuals,
             call[c].step = "held", Settle(c, n)
      PROVE  AtomicBudget!Next
  <2>1. n \in Nat
    BY Money
  <2> QED BY <1>5, <1>b, <1>c, <2>1, Settles
<1>6. ASSUME NEW c \in Calls, Unbilled(c) PROVE AtomicBudget!Release({c})
  <2>1. /\ UNCHANGED <<clock, settled, over>> /\ call'[c].step = "done"
        /\ \A d \in Calls \ {c} : call'[d] = call[d]
    BY <1>6 DEF Unbilled, Finish, Idle, TypeOK
  <2>2. \A d \in Calls : Outstanding'[d] = IF d \in {c} THEN 0 ELSE Outstanding[d]
    BY <2>1 DEF Outstanding, InWindow
  <2>3. Outstanding' = [d \in Calls |-> Outstanding'[d]]
    BY DEF Outstanding
  <2> QED BY <2>1, <2>2, <2>3 DEF AtomicBudget!Release
<1>7. ASSUME NEW c \in Calls, Keep(c) PROVE UNCHANGED AtomicBudget!vars
  <2>1. /\ UNCHANGED <<clock, settled, over>>
        /\ call[c].step = "held" /\ call'[c].step = "kept"
        /\ call'[c].bucket = call[c].bucket /\ call'[c].cents = call[c].cents
        /\ \A d \in Calls \ {c} : call'[d] = call[d]
    BY <1>7 DEF Keep, Goto, TypeOK, CallType
  <2>2. \A d \in Calls : Outstanding'[d] = Outstanding[d]
    BY <2>1 DEF Outstanding, InWindow
  <2> QED BY <2>1, <2>2, Stutters
<1>8. ASSUME NEW c \in Calls, NEW cents \in Actuals, Charge(c, cents)
      PROVE  AtomicBudget!Charge(cents)
  <2>1. /\ clock' = clock /\ call[c].step = "idle" /\ call'[c].step = "done"
        /\ \A d \in Calls \ {c} : call'[d] = call[d]
    BY <1>8 DEF Charge, Finish, Idle, TypeOK
  <2>2. \A d \in Calls : Outstanding'[d] = Outstanding[d]
    BY <2>1 DEF Outstanding, InWindow
  <2>3. Outstanding' = Outstanding
    BY <2>2 DEF Outstanding
  <2> QED BY <1>8, <2>3 DEF AtomicBudget!Charge, Charge
<1>9. ASSUME Tick PROVE AtomicBudget!Next
  <2> DEFINE lapsed == {d \in Calls : ~ InWindow(d, clock')}
  <2>1. \A d \in Calls : InWindow(d, clock') => InWindow(d, clock)
    <3> TAKE d \in Calls
    <3>1. clock \in Nat /\ clock' = clock + 1 /\ call[d].bucket \in Nat /\ Lifetime \in Nat
      BY <1>9, CountersTyped, Zero, Money DEF Tick, Buckets
    <3> QED BY <3>1 DEF InWindow
  <2>2. \A d \in Calls : Outstanding'[d] = IF d \in lapsed THEN 0 ELSE Outstanding[d]
    BY <1>9, <2>1 DEF Tick, Outstanding, InWindow
  <2>3. Outstanding' = [d \in Calls |-> Outstanding'[d]]
    BY DEF Outstanding
  <2>4. lapsed \in SUBSET Calls
    OBVIOUS
  <2> HIDE DEF lapsed
  <2>5. AtomicBudget!Release(lapsed)
    BY <1>9, <2>2, <2>3 DEF AtomicBudget!Release, Tick
  <2> QED BY <1>a, <2>4, <2>5
<1>10. ASSUME UNCHANGED <<clock, settled, over, call>> PROVE UNCHANGED AtomicBudget!vars
  BY <1>10 DEF AtomicBudget!vars, Outstanding, InWindow
<1>11. \A c \in Calls : Aborted(c) => /\ call[c].step = "held"
                                      /\ call[c].cents \in Estimates \cup Actuals
                                      /\ Settle(c, call[c].cents)
  BY DEF Aborted, Estimated
<1>12. \A c \in Calls, actual \in Actuals :
         Answered(c, actual) => /\ call[c].step = "held" /\ actual \in Estimates \cup Actuals
                                /\ Settle(c, actual)
  BY DEF Answered
<1> QED
  BY <1>a, <1>b, <1>1, <1>2, <1>3, <1>4, <1>5, <1>6, <1>7, <1>8, <1>9, <1>10, <1>11, <1>12
     DEF Next, Expire, vars

\* Reserving, summing, rolling back and settling without a lock implements the
\* budget that checks and takes in one step (the docstring of
\* reserve_user_budget: concurrent requests cannot exceed the limit together).
THEOREM ImplementsBudget == Spec => ActsAtomically
<1>1. Init => AtomicBudget!Init
  <2> SUFFICES ASSUME Init PROVE AtomicBudget!Init
    OBVIOUS
  <2>1. Outstanding = [c \in Calls |-> 0]
    BY DEF Init, Idle, Outstanding
  <2> QED BY <2>1 DEF Init, AtomicBudget!Init
<1>2. IInv /\ IInv' /\ [Next]_vars => [AtomicBudget!Next]_(AtomicBudget!vars)
  BY StepsAtomically
<1> QED BY <1>1, <1>2, Invariant, PTL DEF Spec, ActsAtomically, AtomicBudget!Spec
===============================================================================
