------------------------- MODULE Declarations_proofs -------------------------
(***************************************************************************)
(* What the token account, the checkout and the declarations of withdrawal *)
(* keep, for every set of debits, amounts and declarations: the safety     *)
(* properties of Ledger and Declarations, and that the entries implement   *)
(* the TokenAccount.                                                       *)
(***************************************************************************)
EXTENDS Declarations, FiniteSetsExt, FiniteSetTheorems, WellFoundedInduction, TLAPS

-------------------------------------------------------------------------------
(* Sums.  The sum of MapThenSumSet is the number of its units, the pairs of  *)
(* an element and one of the numbers up to its value, so that what is known  *)
(* of finite sets carries over to it; induction over the subsets of a finite *)
(* set is used as the existence of minimal ones.                             *)

Sum(f, S) == MapThenSumSet(LAMBDA x : f[x], S)

Units(f, S) == {u \in S \X Nat : u[2] \in 1 .. f[u[1]]}

\* Among sets of subsets of a finite set there is a smallest one: what has no
\* smallest counterexample has none.
LEMMA MinimalSubset ==
  ASSUME NEW S, IsFiniteSet(S), NEW Bad \in SUBSET SUBSET S, Bad # {}
  PROVE  \E T \in Bad : \A U \in Bad : U \subseteq T => U = T
<1>1. IsWellFoundedOn(StrictSubsetOrdering(S), SUBSET S)
  BY FS_StrictSubsetOrderingWellFounded, FS_FiniteSubsetsOfFinite
<1>2. \E T \in Bad : \A U \in Bad : ~ (<<U, T>> \in StrictSubsetOrdering(S))
  BY <1>1, WFMin
<1> QED BY <1>2 DEF StrictSubsetOrdering

\* The units of one element are as many as its value.
LEMMA UnitsOfOne ==
  ASSUME NEW f, NEW x, f[x] \in Nat
  PROVE  /\ IsFiniteSet(Units(f, {x}))
         /\ Cardinality(Units(f, {x})) = f[x]
<1>1. Units(f, {x}) = {x} \X (1 .. f[x])
  <2>1. ASSUME NEW u \in {x} \X Nat
        PROVE  u \in Units(f, {x}) <=> u \in {x} \X (1 .. f[x])
    BY <2>1 DEF Units
  <2>2. {x} \X (1 .. f[x]) \subseteq {x} \X Nat
    OBVIOUS
  <2> QED BY <2>1, <2>2 DEF Units
<1>2. IsFiniteSet({x}) /\ Cardinality({x}) = 1
  BY FS_Singleton
<1>3. IsFiniteSet(1 .. f[x]) /\ Cardinality(1 .. f[x]) = f[x]
  <2>1. 1 \in Int /\ f[x] \in Int
    OBVIOUS
  <2>2. IsFiniteSet(1 .. f[x])
        /\ Cardinality(1 .. f[x]) = IF 1 > f[x] THEN 0 ELSE f[x] - 1 + 1
    BY <2>1, FS_Interval
  <2> QED BY <2>2
<1>4. /\ IsFiniteSet({x} \X (1 .. f[x]))
      /\ Cardinality({x} \X (1 .. f[x])) = 1 * f[x]
  BY <1>2, <1>3, FS_Product, ZenonT(60)
<1>5. 1 * f[x] = f[x]
  OBVIOUS
<1> QED BY <1>1, <1>4, <1>5

\* Taking out one element takes out its units.
LEMMA UnitsRemove ==
  ASSUME NEW f, NEW S, NEW x \in S, f[x] \in Nat, IsFiniteSet(Units(f, S \ {x}))
  PROVE  /\ IsFiniteSet(Units(f, S))
         /\ Cardinality(Units(f, S)) = f[x] + Cardinality(Units(f, S \ {x}))
<1> DEFINE Others == Units(f, S \ {x})
<1>1. Units(f, S) = Units(f, {x}) \cup Others
  BY DEF Units
<1>2. Units(f, {x}) \cap Others = {}
  BY DEF Units
<1>3. /\ IsFiniteSet(Units(f, {x})) /\ Cardinality(Units(f, {x})) = f[x]
  BY UnitsOfOne
<1>4. /\ IsFiniteSet(Units(f, {x}) \cup Others)
      /\ Cardinality(Units(f, {x}) \cup Others) =
           Cardinality(Units(f, {x})) + Cardinality(Others) - Cardinality(Units(f, {x}) \cap Others)
  BY <1>3, FS_Union
<1>5. Cardinality(Units(f, {x}) \cap Others) = 0
  BY <1>2, FS_EmptySet
<1>6. Cardinality(Others) \in Nat
  BY FS_CardinalityType
<1> QED BY <1>1, <1>3, <1>4, <1>5, <1>6

\* The units of finitely many naturals are finitely many.
LEMMA UnitsFinite ==
  ASSUME NEW S, IsFiniteSet(S), NEW f, \A x \in S : f[x] \in Nat
  PROVE  \A T \in SUBSET S : IsFiniteSet(Units(f, T))
<1> DEFINE Bad == {T \in SUBSET S : ~ IsFiniteSet(Units(f, T))}
<1> SUFFICES ASSUME Bad # {} PROVE FALSE
  OBVIOUS
<1>1. PICK T \in Bad : \A U \in Bad : U \subseteq T => U = T
  <2>1. Bad \in SUBSET SUBSET S
    OBVIOUS
  <2> HIDE DEF Bad
  <2> QED BY <2>1, MinimalSubset
<1>2. CASE T = {}
  <2>1. Units(f, T) = {}
    BY <1>2 DEF Units
  <2> QED BY <2>1, FS_EmptySet
<1>3. CASE T # {}
  <2>1. PICK x \in T : TRUE
    BY <1>3
  <2>2. IsFiniteSet(Units(f, T \ {x}))
    BY <1>1, <2>1
  <2> QED BY <2>1, <2>2, UnitsRemove
<1> QED BY <1>2, <1>3

\* The function that MapThenSumSet recurses over counts the units.
LEMMA SumCountsUnits ==
  ASSUME NEW S, IsFiniteSet(S), NEW f, \A x \in S : f[x] \in Nat
  PROVE  Sum(f, S) = Cardinality(Units(f, S))
<1> DEFINE Some(s) == CHOOSE x \in s : TRUE
           Step(g, s) == IF s = {} THEN 0 ELSE f[Some(s)] + g[s \ {Some(s)}]
           iter == CHOOSE g : g = [s \in SUBSET S |-> Step(g, s)]
           count == [s \in SUBSET S |-> Cardinality(Units(f, s))]
<1>1. Sum(f, S) = iter[S]
  BY DEF Sum, MapThenSumSet, MapThenFoldSet
<1>2. ASSUME NEW s \in SUBSET S, s # {}
      PROVE  /\ Some(s) \in s
             /\ count[s] = f[Some(s)] + count[s \ {Some(s)}]
  <2>1. Some(s) \in s
    BY <1>2
  <2>2. IsFiniteSet(Units(f, s \ {Some(s)}))
    BY UnitsFinite
  <2>3. Cardinality(Units(f, s)) = f[Some(s)] + Cardinality(Units(f, s \ {Some(s)}))
    <3> HIDE DEF Some
    <3> QED BY <2>1, <2>2, UnitsRemove
  <2> QED BY <2>1, <2>3
<1>3. count[{}] = 0
  <2>1. Units(f, {}) = {}
    BY DEF Units
  <2> QED BY <2>1, FS_EmptySet
<1>4. count = [s \in SUBSET S |-> Step(count, s)]
  <2>1. \A s \in SUBSET S : count[s] = Step(count, s)
    <3> HIDE DEF count, Some
    <3> QED BY <1>2, <1>3
  <2> HIDE DEF Step
  <2> QED BY <2>1
<1>5. iter = [s \in SUBSET S |-> Step(iter, s)]
  <2> HIDE DEF count, Step
  <2> QED BY <1>4
<1>6. \A s \in SUBSET S : iter[s] = count[s]
  <2> DEFINE Bad == {s \in SUBSET S : iter[s] # count[s]}
  <2> HIDE DEF iter, count
  <2> SUFFICES ASSUME Bad # {} PROVE FALSE
    OBVIOUS
  <2>1. PICK s \in Bad : \A u \in Bad : u \subseteq s => u = s
    <3>1. Bad \in SUBSET SUBSET S
      OBVIOUS
    <3> HIDE DEF Bad
    <3> QED BY <3>1, MinimalSubset
  <2>2. iter[s] = Step(iter, s)
    <3> HIDE DEF Step
    <3> QED BY <1>5
  <2>3. CASE s = {}
    BY <2>2, <2>3, <1>3
  <2>4. CASE s # {}
    <3>1. Some(s) \in s /\ count[s] = f[Some(s)] + count[s \ {Some(s)}]
      BY <1>2, <2>4
    <3> HIDE DEF Some
    <3>2. iter[s \ {Some(s)}] = count[s \ {Some(s)}]
      BY <2>1, <3>1
    <3> QED BY <2>2, <2>4, <3>1, <3>2
  <2> QED BY <2>3, <2>4
<1> QED BY <1>1, <1>6

\* A sum of naturals is a natural.
LEMMA SumNatural ==
  ASSUME NEW S, IsFiniteSet(S), NEW f, \A x \in S : f[x] \in Nat
  PROVE  Sum(f, S) \in Nat
BY SumCountsUnits, UnitsFinite, FS_CardinalityType

\* A value changes: the sum changes by as much.
LEMMA SumChanges ==
  ASSUME NEW S, IsFiniteSet(S), NEW f, \A x \in S : f[x] \in Nat,
         NEW g, \A x \in S : g[x] \in Nat,
         NEW c \in S, \A x \in S \ {c} : g[x] = f[x]
  PROVE  Sum(g, S) + f[c] = Sum(f, S) + g[c]
<1>0. f[c] \in Nat /\ g[c] \in Nat
  OBVIOUS
<1>1. Units(g, S \ {c}) = Units(f, S \ {c})
  BY DEF Units
<1>2. IsFiniteSet(Units(f, S \ {c})) /\ IsFiniteSet(Units(g, S \ {c}))
  <2>1. \A T \in SUBSET S : IsFiniteSet(Units(f, T))
    BY UnitsFinite
  <2>2. \A T \in SUBSET S : IsFiniteSet(Units(g, T))
    BY UnitsFinite
  <2> QED BY <2>1, <2>2
<1>3. Cardinality(Units(f, S)) = f[c] + Cardinality(Units(f, S \ {c}))
  BY <1>0, <1>2, UnitsRemove
<1>4. Cardinality(Units(g, S)) = g[c] + Cardinality(Units(g, S \ {c}))
  BY <1>0, <1>2, UnitsRemove
<1>5. Cardinality(Units(f, S \ {c})) \in Nat
  BY <1>2, FS_CardinalityType
<1> QED BY <1>1, <1>3, <1>4, <1>5, SumCountsUnits

\* A sum of zeros is zero.
LEMMA SumOfNothing ==
  ASSUME NEW S, IsFiniteSet(S), NEW f, \A x \in S : f[x] = 0
  PROVE  Sum(f, S) = 0
<1>1. Units(f, S) = {}
  BY DEF Units
<1> QED BY <1>1, SumCountsUnits, FS_EmptySet

\* The sum over a set is one value and the sum over the rest.
LEMMA SumRemoves ==
  ASSUME NEW S, IsFiniteSet(S), NEW f, \A x \in S : f[x] \in Nat, NEW c \in S
  PROVE  Sum(f, S) = f[c] + Sum(f, S \ {c})
<1>1. IsFiniteSet(S \ {c}) /\ IsFiniteSet(Units(f, S \ {c}))
  <2>1. \A T \in SUBSET S : IsFiniteSet(Units(f, T))
    BY UnitsFinite
  <2>2. IsFiniteSet(S \ {c})
    BY FS_RemoveElement
  <2> QED BY <2>1, <2>2
<1>2. Cardinality(Units(f, S)) = f[c] + Cardinality(Units(f, S \ {c}))
  <2>1. f[c] \in Nat /\ IsFiniteSet(Units(f, S \ {c}))
    BY <1>1
  <2> QED BY <2>1, UnitsRemove
<1>3. Sum(f, S) = Cardinality(Units(f, S))
  BY SumCountsUnits
<1>4. Sum(f, S \ {c}) = Cardinality(Units(f, S \ {c}))
  BY <1>1, SumCountsUnits
<1> QED BY <1>2, <1>3, <1>4

\* Functions that agree on the set have the same sum.
LEMMA SumAgrees ==
  ASSUME NEW S, IsFiniteSet(S), NEW f, \A x \in S : f[x] \in Nat,
         NEW g, \A x \in S : g[x] = f[x]
  PROVE  Sum(g, S) = Sum(f, S)
<1>1. Units(g, S) = Units(f, S)
  BY DEF Units
<1> QED BY <1>1, SumCountsUnits

\* The sum over a part is the sum of what is zero elsewhere.
LEMMA SumOfPart ==
  ASSUME NEW S, IsFiniteSet(S), NEW T \in SUBSET S,
         NEW f, \A x \in T : f[x] \in Nat,
         NEW g, \A x \in T : g[x] = f[x], \A x \in S \ T : g[x] = 0
  PROVE  Sum(g, S) = Sum(f, T)
<1>1. Units(g, S) = Units(f, T)
  BY DEF Units
<1>2. IsFiniteSet(T) /\ \A x \in S : g[x] \in Nat
  BY FS_Subset
<1> QED BY <1>1, <1>2, SumCountsUnits

\* The sum of two functions is the sum of their sums.
LEMMA SumAdds ==
  ASSUME NEW S, IsFiniteSet(S), NEW f, \A x \in S : f[x] \in Nat,
         NEW g, \A x \in S : g[x] \in Nat,
         NEW h, \A x \in S : h[x] = f[x] + g[x]
  PROVE  Sum(h, S) = Sum(f, S) + Sum(g, S)
<1> DEFINE Bad == {T \in SUBSET S : Sum(h, T) # Sum(f, T) + Sum(g, T)}
<1> SUFFICES ASSUME Bad # {} PROVE FALSE
  OBVIOUS
<1>1. PICK T \in Bad : \A U \in Bad : U \subseteq T => U = T
  <2>1. Bad \in SUBSET SUBSET S
    OBVIOUS
  <2> HIDE DEF Bad
  <2> QED BY <2>1, MinimalSubset
<1>2. IsFiniteSet(T) /\ T \subseteq S
  BY <1>1, FS_Subset
<1>3. CASE T = {}
  <2>1. Sum(h, T) = 0 /\ Sum(f, T) = 0 /\ Sum(g, T) = 0
    BY <1>2, <1>3, SumOfNothing
  <2> QED BY <1>1, <2>1
<1>4. CASE T # {}
  <2>1. PICK c \in T : TRUE
    BY <1>4
  <2>2. Sum(h, T \ {c}) = Sum(f, T \ {c}) + Sum(g, T \ {c})
    BY <1>1, <1>2, <2>1
  <2>3. \A x \in T : f[x] \in Nat /\ g[x] \in Nat /\ h[x] \in Nat
    BY <1>2
  <2>4. /\ Sum(f, T) = f[c] + Sum(f, T \ {c})
        /\ Sum(g, T) = g[c] + Sum(g, T \ {c})
        /\ Sum(h, T) = h[c] + Sum(h, T \ {c})
    BY <1>2, <2>1, <2>3, SumRemoves
  <2>5. IsFiniteSet(T \ {c}) /\ \A x \in T \ {c} : f[x] \in Nat /\ g[x] \in Nat
    BY <1>2, <2>3, FS_RemoveElement
  <2>6. Sum(f, T \ {c}) \in Nat /\ Sum(g, T \ {c}) \in Nat
    BY <2>5, SumNatural
  <2>7. h[c] = f[c] + g[c] /\ f[c] \in Nat /\ g[c] \in Nat
    BY <1>2, <2>1
  <2>8. Sum(h, T) = Sum(f, T) + Sum(g, T)
    BY <2>2, <2>4, <2>6, <2>7
  <2> QED BY <1>1, <2>8
<1> QED BY <1>3, <1>4

\* What is taken of a value when those before it were taken first.
Taken(f, amount, i) ==
  LET earlier == Sum(f, 1 .. i - 1) IN
  IF earlier >= amount THEN 0
  ELSE IF f[i] < amount - earlier THEN f[i] ELSE amount - earlier
Lesser(a, b) == IF a < b THEN a ELSE b

\* What is taken from the values one after the other, as long as some of the
\* amount is missing, is the amount, or all there is.
LEMMA SumTaken ==
  ASSUME NEW N \in Nat, NEW f, \A i \in 1 .. N : f[i] \in Nat, NEW amount \in Nat,
         NEW t, \A i \in 1 .. N : t[i] = Taken(f, amount, i)
  PROVE  /\ \A i \in 1 .. N : t[i] \in 0 .. f[i]
         /\ Sum(t, 1 .. N) = Lesser(Sum(f, 1 .. N), amount)
<1> USE DEF Taken, Lesser
<1> DEFINE Told(n) == Sum(t, 1 .. n) = Lesser(Sum(f, 1 .. n), amount)
<1>1. \A n \in 0 .. N : Sum(f, 1 .. n) \in Nat
  <2> TAKE n \in 0 .. N
  <2>1. IsFiniteSet(1 .. n) /\ \A i \in 1 .. n : f[i] \in Nat
    BY FS_Interval
  <2> QED BY <2>1, SumNatural
<1>2. \A i \in 1 .. N : t[i] \in 0 .. f[i]
  <2> TAKE i \in 1 .. N
  <2>1. Sum(f, 1 .. i - 1) \in Nat /\ f[i] \in Nat
    BY <1>1
  <2> QED BY <2>1
<1>3. ASSUME NEW n \in 1 .. N, Told(n - 1)
      PROVE  Told(n)
  <2>1. /\ n \in 1 .. n /\ IsFiniteSet(1 .. n)
        /\ (1 .. n) \ {n} = 1 .. n - 1
    <3>1. \A i : i \in (1 .. n) \ {n} <=> i \in 1 .. n - 1
      OBVIOUS
    <3> QED BY <3>1, FS_Interval
  <2>2. \A i \in 1 .. n : f[i] \in Nat /\ t[i] \in Nat
    BY <1>2
  <2>3. /\ Sum(f, 1 .. n) = f[n] + Sum(f, 1 .. n - 1)
        /\ Sum(t, 1 .. n) = t[n] + Sum(t, 1 .. n - 1)
    <3>1. Sum(f, 1 .. n) = f[n] + Sum(f, (1 .. n) \ {n})
      BY <2>1, <2>2, SumRemoves
    <3>2. Sum(t, 1 .. n) = t[n] + Sum(t, (1 .. n) \ {n})
      BY <2>1, <2>2, SumRemoves
    <3> QED BY <2>1, <3>1, <3>2
  <2> DEFINE before == Sum(f, 1 .. n - 1)
             taken == Sum(t, 1 .. n - 1)
  <2>4. before \in Nat /\ f[n] \in Nat
    BY <1>1
  <2>5. taken = IF before < amount THEN before ELSE amount
    BY <1>3
  <2>6. t[n] = IF before >= amount THEN 0
               ELSE IF f[n] < amount - before THEN f[n] ELSE amount - before
    OBVIOUS
  <2>7. Sum(f, 1 .. n) = f[n] + before /\ Sum(t, 1 .. n) = t[n] + taken
    BY <2>3
  <2> HIDE DEF before, taken
  <2> QED BY <2>4, <2>5, <2>6, <2>7
<1>4. Told(0)
  <2>1. IsFiniteSet({}) /\ 1 .. 0 = {}
    BY FS_EmptySet
  <2>2. Sum(f, {}) = 0 /\ Sum(t, {}) = 0
    BY <2>1, SumOfNothing
  <2> QED BY <2>1, <2>2
<1>5. Told(N)
  <2> DEFINE All == 1 .. N
             Bad == {I \in SUBSET All : \E n \in 0 .. N : I = 1 .. n /\ ~ Told(n)}
  <2> SUFFICES ASSUME Bad # {} PROVE FALSE
    <3>1. All \in SUBSET All /\ N \in 0 .. N
      OBVIOUS
    <3> HIDE DEF Told
    <3>2. ~ Told(N) => All \in Bad
      BY <3>1
    <3> QED BY <3>2
  <2>1. PICK I \in Bad : \A J \in Bad : J \subseteq I => J = I
    <3>1. IsFiniteSet(All)
      BY FS_Interval
    <3>2. Bad \in SUBSET SUBSET All
      OBVIOUS
    <3> HIDE DEF Bad, All
    <3> QED BY <3>1, <3>2, MinimalSubset
  <2>2. PICK n \in 0 .. N : I = 1 .. n /\ ~ Told(n)
    BY <2>1
  <2>3. n # 0
    BY <2>2, <1>4
  <2>4. n - 1 \in 0 .. N /\ 1 .. n - 1 \subseteq 1 .. n /\ 1 .. n - 1 # 1 .. n
        /\ 1 .. n - 1 \in SUBSET (1 .. N)
    BY <2>3
  <2>5. Told(n - 1)
    <3> HIDE DEF Told
    <3> QED BY <2>1, <2>2, <2>4
  <2> HIDE DEF Told
  <2> QED BY <1>3, <2>2, <2>3, <2>5
<1> QED BY <1>2, <1>5

\* A value more at the end of a sequence of values.
LEMMA SumExtends ==
  ASSUME NEW N \in Nat, NEW f, \A i \in 1 .. N : f[i] \in Nat,
         NEW g, \A i \in 1 .. N : g[i] = f[i], g[N + 1] \in Nat
  PROVE  Sum(g, 1 .. N + 1) = Sum(f, 1 .. N) + g[N + 1]
<1> DEFINE S == 1 .. N + 1
<1>1. N + 1 \in S /\ IsFiniteSet(S) /\ S \ {N + 1} = 1 .. N
  <2>1. \A i : i \in (1 .. N + 1) \ {N + 1} <=> i \in 1 .. N
    OBVIOUS
  <2>2. N + 1 \in S /\ N + 1 \in Int /\ 1 \in Int
    OBVIOUS
  <2>3. IsFiniteSet(S)
    BY <2>2, FS_Interval
  <2> QED BY <2>1, <2>2, <2>3
<1>2. \A i \in S : g[i] \in Nat
  OBVIOUS
<1>3. IsFiniteSet(1 .. N)
  BY FS_Interval
<1>4. Sum(g, 1 .. N) = Sum(f, 1 .. N) /\ Sum(f, 1 .. N) \in Nat
  BY <1>3, SumAgrees, SumNatural
<1> HIDE DEF S
<1>5. Sum(g, S) = g[N + 1] + Sum(g, S \ {N + 1})
  BY <1>1, <1>2, SumRemoves
<1>6. Sum(g, S) = g[N + 1] + Sum(f, 1 .. N)
  BY <1>1, <1>4, <1>5
<1> QED BY <1>4, <1>6 DEF S

-------------------------------------------------------------------------------

\* What a step does to the ledger: one of its own actions, whoever takes it.
LEMMA LedgerMoves ==
  ASSUME [Next]_vars
  PROVE  \/ LedgerNext
         \/ LockPurchase \/ CreateRefund \/ CommitWithdraw \/ WithdrawDies
         \/ UNCHANGED ledgerVars
<1>1. CASE LedgerStep(LedgerNext)
  BY <1>1 DEF LedgerStep
<1>2. CASE CallStripe \/ CommitApplied \/ ApplyingDies
  BY <1>2 DEF CallStripe, CommitApplied, ApplyingDies
<1>3. CASE \E d \in Public : Submit(d) \/ Lapse(d) \/ Confirm(d)
  BY <1>3 DEF Submit, Lapse, Confirm, ApplyLocked
<1>4. CASE \E j \in Jobs : JobStep(j) \/ JobDies(j)
  BY <1>4 DEF JobStep, JobDies, Finish, LookUp, Deliver, Mark
<1>5. CASE BatchStep
  BY <1>5 DEF BatchStep, BeginBatch, NextLoop, EndBatch, BeginLoop, FinishStuck, Acknowledge,
              Renew, GiveUp
<1>6. CASE \E d \in Own : DeclareOwn(d) \/ OwnStep(d) \/ RequestDies(d)
  BY <1>6 DEF DeclareOwn, OwnStep, ApplyOwn, SaveContract, SaveDeclaration, RequestDies
<1>7. CASE \E d \in Forms : Accept(d) \/ Reject(d)
  BY <1>7 DEF Accept, Reject, ApplyLocked
<1>8. CASE UNCHANGED vars
  BY <1>8 DEF vars
<1> QED BY <1>1, <1>2, <1>3, <1>4, <1>5, <1>6, <1>7, <1>8 DEF Next

-------------------------------------------------------------------------------
(* The checkout: an event that is on its way tells the truth already.        *)

\* What the session has done when Stripe has sent this event.
Behind(event) ==
  CASE event \in {"completed_paid", "async_succeeded"} -> {"paid"}
    [] event = "completed_unpaid" -> {"unpaid", "paid", "failed"}
    [] event = "async_failed" -> {"failed"}
    [] OTHER -> {"expired"}

CheckoutInv ==
  /\ attempt = [status |-> attempt.status, bound |-> attempt.bound]
  /\ \A event \in events \ {"refund"} : session \in Behind(event)
  /\ AttemptTellsTruth

\* No event is on its way at first.
LEMMA CheckoutInit == Init => CheckoutInv
BY DEF Init, LedgerInit, Sold, CheckoutInv, AttemptTellsTruth

\* Events leave with what the session does, and in time the attempt follows.
LEMMA CheckoutNext ==
  ASSUME CheckoutInv, [Next]_vars
  PROVE  CheckoutInv'
<1> USE DEF CheckoutInv, AttemptTellsTruth
<1>1. CASE SessionMoves
  <2>1. PICK move \in Moves : /\ session = move[1] /\ session' = move[2]
                              /\ events' = events \cup {move[3]}
                              /\ attempt' = attempt
    BY <1>1 DEF SessionMoves
  <2>2. session' \in Behind(move[3])
    BY <2>1 DEF Moves, Behind
  <2>3. \A event : session \in Behind(event) => session' \in Behind(event)
    BY <2>1 DEF Moves, Behind
  <2>4. AttemptTellsTruth'
    BY <2>1 DEF Moves
  <2> QED BY <2>1, <2>2, <2>3, <2>4
<1>2. ASSUME NEW event \in CheckoutEvents, DeliverCheckout(event)
      PROVE  CheckoutInv'
  <2>1. /\ session' = session /\ events' \subseteq events
        /\ attempt' = [status |-> IF Allowed(attempt.status, Target(event))
                                  THEN Target(event) ELSE attempt.status,
                       bound |-> TRUE]
        /\ session \in Behind(event)
    BY <1>2 DEF DeliverCheckout, Updated, CheckoutEvents, Moves
  <2>2. \/ Target(event) = "paid" /\ session = "paid"
        \/ Target(event) = "processing" /\ session \in {"unpaid", "paid", "failed"}
        \/ Target(event) = "failed" /\ session = "failed"
        \/ Target(event) = "expired" /\ session = "expired"
    BY <2>1, <1>2 DEF Target, Behind, CheckoutEvents, Moves
  <2> QED BY <2>1, <2>2 DEF Allowed
<1>3. CASE OpenAttempt \/ StoreSession
  BY <1>3 DEF OpenAttempt, StoreSession
<1>4. CASE CreateSession
  <2>1. session' = session \/ (session = "none" /\ \A event : session \notin Behind(event))
    BY <1>4 DEF CreateSession, Behind
  <2> QED BY <1>4, <2>1 DEF CreateSession
<1>5. CASE CreateRefund
  BY <1>5 DEF CreateRefund, checkoutVars
<1>6. CASE DeliverRefund
  BY <1>6 DEF DeliverRefund, checkoutVars
<1>7. CASE UNCHANGED <<attempt, session, events>>
  BY <1>7
<1>8. CASE BeginCheckout \/ CheckoutDies
  BY <1>8 DEF BeginCheckout, CheckoutDies
<1>9. CASE EditPlan \/ BeginSync \/ CreatePrice \/ StorePrice \/ SyncDies
  BY <1>7, <1>9 DEF EditPlan, BeginSync, CreatePrice, StorePrice, SyncDies, checkoutVars
<1>10. CASE LockPurchase \/ CommitWithdraw \/ WithdrawDies \/ Tick \/ BeginWithdraw
  BY <1>7, <1>10 DEF LockPurchase, CommitWithdraw, WithdrawDies, Tick, BeginWithdraw, checkoutVars
<1>11. CASE \/ \E ref \in Debits : Reverse(ref) \/ \E amount \in Amounts : Debit(ref, amount)
            \/ \E i \in DOMAIN entries : Expire(i)
  BY <1>7, <1>11 DEF Reverse, Debit, Expire, checkoutVars
<1>12. CASE UNCHANGED ledgerVars
  BY <1>7, <1>12 DEF ledgerVars, checkoutVars
<1> QED BY <1>1, <1>2, <1>3, <1>4, <1>5, <1>6, <1>8, <1>9, <1>10, <1>11, <1>12, LedgerMoves
        DEF LedgerNext

\* _update_checkout_attempt: in whatever order the events of a session come,
\* the attempt never claims an outcome that the session did not have.
THEOREM AttemptIsTrue == Spec => []AttemptTellsTruth
<1>1. CheckoutInv /\ [Next]_vars => CheckoutInv'
  BY CheckoutNext
<1>2. CheckoutInv => AttemptTellsTruth
  BY DEF CheckoutInv
<1> QED BY CheckoutInit, <1>1, <1>2, PTL DEF Spec

-------------------------------------------------------------------------------
(* The token account.                                                        *)

\* What is assumed of the amounts, as facts to cite.
LEMMA Money ==
  /\ Granted \in Nat \ {0} /\ Tokens \in Nat \ {0} /\ Price \in Nat \ {0}
  /\ \A amount \in Amounts : amount \in Nat \ {0}
BY LedgerAssumption DEF LedgerAssumption

Refs == Debits \cup {"plan", "package"}
Rows == [kind: Kinds, ref: Refs, plus: Nat, minus: Nat, remaining: Nat]

\* The entries of an account that had one plan grant and at most one package:
\* the grant comes first, and a debit takes from it first.
Booked ==
  /\ entries \in Seq(Rows) /\ Len(entries) # 0
  /\ \A i \in DOMAIN entries :
       /\ entries[i].remaining <= entries[i].plus
       /\ entries[i].kind = "grant" <=> i = 1
       /\ entries[i].kind = "purchase" => entries[i].plus = Tokens
  /\ \A i, j \in DOMAIN entries :
       entries[i].kind = "purchase" /\ entries[j].kind = "purchase" => i = j

Numbers(column) ==
  DOMAIN column = 1 .. Len(entries) /\ \A i \in 1 .. Len(entries) : column[i] \in Nat

\* The rows and the columns of the entries.
LEMMA Columns ==
  ASSUME Booked
  PROVE  /\ Len(entries) \in Nat /\ DOMAIN entries = 1 .. Len(entries)
         /\ \A i \in DOMAIN entries : entries[i] \in Rows
         /\ Numbers(Plus) /\ Numbers(Minus) /\ Numbers(Remaining)
<1>1. Len(entries) \in Nat /\ DOMAIN entries = 1 .. Len(entries)
  BY DEF Booked
<1>2. \A i \in DOMAIN entries : entries[i] \in Rows
  BY <1>1 DEF Booked
<1>3. \A i \in 1 .. Len(entries) :
        entries[i].plus \in Nat /\ entries[i].minus \in Nat /\ entries[i].remaining \in Nat
  BY <1>1, <1>2 DEF Rows
<1> QED BY <1>1, <1>2, <1>3 DEF Plus, Minus, Remaining, Numbers

\* The tokens of a debit are there, and no row gives more than it has.
LEMMA DebitTakes ==
  ASSUME Booked, NEW amount \in Amounts, Sufficient(amount),
         NEW take, take = [i \in DOMAIN entries |-> Take(i, amount)]
  PROVE  /\ \A i \in DOMAIN entries : take[i] \in 0 .. Remaining[i]
         /\ Sum(take, DOMAIN entries) = amount
<1> DEFINE N == Len(entries)
           free == [i \in 1 .. N |-> IF i \in Usable THEN Remaining[i] ELSE 0]
<1>1. N \in Nat /\ DOMAIN entries = 1 .. N /\ amount \in Nat
  BY Columns, Money
<1>2. \A i \in 1 .. N : Remaining[i] \in Nat /\ free[i] \in Nat
  BY Columns DEF Numbers
<1>3. ASSUME NEW i \in Usable
      PROVE  Total(Remaining, {j \in Usable : Before(j, i)}) = Sum(free, 1 .. i - 1)
  <2> DEFINE S == 1 .. i - 1
             T == {j \in Usable : Before(j, i)}
  <2>1. i \in 1 .. N
    BY <1>1 DEF Usable
  <2>2. \A j \in Usable : j \in 1 .. N /\ (Before(j, i) <=> j < i)
    BY <1>1, <2>1 DEF Booked, Before, Usable
  <2>3. S \subseteq 1 .. N
    BY <1>1, <2>1
  <2>4. T \in SUBSET S
    <3>1. \A j \in T : j \in 1 .. N /\ j < i
      BY <2>2
    <3>2. \A j \in 1 .. N : j < i => j \in S
      BY <1>1, <2>1
    <3> QED BY <3>1, <3>2
  <2>5. \A j \in S \ T : j \notin Usable
    BY <2>2
  <2>6. /\ \A j \in T : Remaining[j] \in Nat /\ free[j] = Remaining[j]
        /\ \A j \in S \ T : free[j] = 0
    BY <1>2, <2>3, <2>4, <2>5
  <2> HIDE DEF S, T, free
  <2>7. IsFiniteSet(S)
    <3>1. 1 \in Int /\ i - 1 \in Int
      BY <1>1, <2>1
    <3> QED BY <3>1, FS_Interval DEF S
  <2>8. Sum(free, S) = Sum(Remaining, T)
    BY <2>4, <2>6, <2>7, SumOfPart
  <2> QED BY <2>8 DEF S, T, Total, Sum
<1>4. Total(Remaining, Usable) = Sum(free, 1 .. N)
  <2> DEFINE S == 1 .. N
  <2>1. IsFiniteSet(S) /\ Usable \in SUBSET S
    BY <1>1, FS_Interval DEF Usable
  <2>2. /\ \A j \in Usable : Remaining[j] \in Nat /\ free[j] = Remaining[j]
        /\ \A j \in S \ Usable : free[j] = 0
    BY <1>2, <2>1
  <2> HIDE DEF S, free
  <2>3. Sum(free, S) = Sum(Remaining, Usable)
    BY <2>1, <2>2, SumOfPart
  <2> QED BY <2>3 DEF S, Total, Sum
<1>5. \A i \in 1 .. N :
        take[i] = Taken(free, amount, i)
  <2> TAKE i \in 1 .. N
  <2>1. CASE i \in Usable
    <3>1. entries[i].remaining = free[i]
      BY <1>1, <2>1 DEF Remaining
    <3> HIDE DEF free
    <3> QED BY <1>1, <1>3, <2>1, <3>1 DEF Take, Smaller, Taken
  <2>2. CASE i \notin Usable
    <3>1. free[i] = 0 /\ take[i] = 0
      BY <1>1, <2>2 DEF Take
    <3>2. Sum(free, 1 .. i - 1) \in Nat
      <4>1. IsFiniteSet(1 .. i - 1)
        BY <1>1, FS_Interval
      <4>2. \A j \in 1 .. i - 1 : j \in 1 .. N
        BY <1>1
      <4>3. \A j \in 1 .. i - 1 : free[j] \in Nat
        BY <1>2, <4>2
      <4> HIDE DEF free
      <4> QED BY <4>1, <4>3, SumNatural
    <3> HIDE DEF free
    <3> QED BY <1>1, <3>1, <3>2 DEF Taken
  <2> QED BY <2>1, <2>2
<1>6. \A i \in 1 .. N : free[i] \in Nat /\ free[i] <= Remaining[i]
  BY <1>2
<1>7. Sum(free, 1 .. N) \in Nat /\ Sum(free, 1 .. N) >= amount
  <2>1. IsFiniteSet(1 .. N)
    BY <1>1, FS_Interval
  <2> HIDE DEF free
  <2> QED BY <1>4, <1>6, <2>1, SumNatural DEF Sufficient
<1>8. /\ \A i \in 1 .. N : take[i] \in 0 .. free[i]
      /\ Sum(take, 1 .. N) = Lesser(Sum(free, 1 .. N), amount)
  <2>1. \A i \in 1 .. N : free[i] \in Nat
    BY <1>6
  <2> HIDE DEF free, N
  <2> QED BY <1>1, <1>5, <2>1, SumTaken
<1> HIDE DEF free, N
<1> QED BY <1>1, <1>2, <1>6, <1>7, <1>8 DEF Lesser

\* What may stand in the ledger: rows of a kind, and what they say.
LEMMA EntryTyped ==
  ASSUME NEW kind \in Kinds, NEW ref \in Refs, NEW plus \in Nat, NEW minus \in Nat
  PROVE  /\ Entry(kind, ref, plus, minus) \in Rows
         /\ Entry(kind, ref, plus, minus).kind = kind
         /\ Entry(kind, ref, plus, minus).ref = ref
         /\ Entry(kind, ref, plus, minus).plus = plus
         /\ Entry(kind, ref, plus, minus).minus = minus
         /\ Entry(kind, ref, plus, minus).remaining = plus
BY DEF Entry, Rows

\* A step that appends one row and lowers what remains of the others, with the
\* columns it leaves behind.
Writes(row, rest) ==
  /\ Len(entries') = Len(entries) + 1 /\ DOMAIN entries' = 1 .. Len(entries) + 1
  /\ entries'[Len(entries) + 1] = row
  /\ \A i \in DOMAIN entries : entries'[i] = [entries[i] EXCEPT !.remaining = rest[i]]

\* A new row that is no grant, and no second package, keeps the entries in shape.
LEMMA BookedNext ==
  ASSUME Booked, NEW row \in Rows, NEW rest, Writes(row, rest),
         entries' \in Seq(Rows),
         \A i \in DOMAIN entries : rest[i] \in 0 .. Remaining[i],
         row.remaining <= row.plus, row.kind # "grant",
         row.kind = "purchase" =>
           row.plus = Tokens /\ \A i \in DOMAIN entries : entries[i].kind # "purchase"
  PROVE  /\ Booked'
         /\ \A i \in DOMAIN entries : /\ i \in DOMAIN entries'
                                      /\ entries'[i].kind = entries[i].kind
                                      /\ entries'[i].plus = entries[i].plus
                                      /\ entries'[i].minus = entries[i].minus
                                      /\ entries'[i].remaining = rest[i]
<1> DEFINE N == Len(entries)
<1>1. N \in Nat /\ DOMAIN entries = 1 .. N /\ \A i \in 1 .. N : entries[i] \in Rows
  BY Columns
<1>2. /\ DOMAIN entries' = 1 .. N + 1 /\ entries'[N + 1] = row
      /\ \A i \in 1 .. N : entries'[i] = [entries[i] EXCEPT !.remaining = rest[i]]
  BY <1>1 DEF Writes
<1>3. \A i \in 1 .. N : /\ i \in 1 .. N + 1
                        /\ entries'[i].kind = entries[i].kind
                        /\ entries'[i].plus = entries[i].plus
                        /\ entries'[i].minus = entries[i].minus
                        /\ entries'[i].remaining = rest[i]
                        /\ rest[i] <= entries[i].remaining
                        /\ rest[i] \in Nat
  <2> TAKE i \in 1 .. N
  <2>1. entries[i] \in Rows /\ i \in 1 .. N + 1
    BY <1>1
  <2>2. rest[i] \in 0 .. entries[i].remaining
    BY <1>1 DEF Remaining
  <2>3. entries'[i] = [entries[i] EXCEPT !.remaining = rest[i]]
    BY <1>2
  <2>4. /\ entries'[i].kind = entries[i].kind
        /\ entries'[i].plus = entries[i].plus
        /\ entries'[i].minus = entries[i].minus
        /\ entries'[i].remaining = rest[i]
    BY <2>1, <2>3 DEF Rows
  <2>5. entries[i].remaining \in Nat
    BY <2>1 DEF Rows
  <2> QED BY <2>1, <2>2, <2>4, <2>5
<1>4. N + 1 # 1
  <2>1. N # 0
    BY DEF Booked
  <2> QED BY <1>1, <2>1
<1>5. \A i \in 1 .. N + 1 : i = N + 1 \/ i \in 1 .. N
  BY <1>1
<1>6. \A i \in 1 .. N : entries[i].remaining \in Nat /\ entries[i].plus \in Nat
  BY <1>1 DEF Rows
<1> HIDE DEF N
<1>7. ASSUME NEW i \in DOMAIN entries'
      PROVE  /\ entries'[i].remaining <= entries'[i].plus
             /\ entries'[i].kind = "grant" <=> i = 1
             /\ entries'[i].kind = "purchase" => entries'[i].plus = Tokens
  <2>1. CASE i = N + 1
    BY <1>1, <1>2, <1>4, <2>1
  <2>2. CASE i \in 1 .. N
    BY <1>1, <1>3, <1>6, <2>2 DEF Booked
  <2> QED BY <1>2, <1>5, <2>1, <2>2
<1>8. ASSUME NEW i \in DOMAIN entries', NEW j \in DOMAIN entries',
             entries'[i].kind = "purchase", entries'[j].kind = "purchase"
      PROVE  i = j
  BY <1>1, <1>2, <1>3, <1>5, <1>8 DEF Booked
<1>9. Len(entries') # 0
  BY <1>1 DEF Writes, N
<1>10. Booked'
  BY <1>7, <1>8, <1>9 DEF Booked
<1> QED BY <1>1, <1>2, <1>3, <1>10

\* What the new row says is what it takes from the others or brings with it: the
\* entries add up again.
LEMMA BalanceNext ==
  ASSUME Booked, LedgerBalances, NEW row \in Rows, NEW rest, Writes(row, rest), Booked',
         NEW taken, \A i \in DOMAIN entries : /\ taken[i] \in 0 .. Remaining[i]
                                              /\ rest[i] = Remaining[i] - taken[i],
         row.plus + Sum(taken, DOMAIN entries) = row.remaining + row.minus
  PROVE  LedgerBalances'
<1> DEFINE N == Len(entries)
           D == 1 .. N
           plus == Plus'
           minus == Minus'
           left_ == Remaining'
<1>1. /\ N \in Nat /\ DOMAIN entries = D /\ IsFiniteSet(D)
      /\ DOMAIN entries' = 1 .. N + 1
  <2>1. N \in Nat /\ DOMAIN entries = D
    BY Columns
  <2>2. IsFiniteSet(D)
    BY <2>1, FS_Interval
  <2> QED BY <2>1, <2>2 DEF Writes
<1>2. \A i \in D : Plus[i] \in Nat /\ Minus[i] \in Nat /\ Remaining[i] \in Nat
  BY Columns DEF Numbers
<1>3. ASSUME NEW i \in D
      PROVE  plus[i] = Plus[i] /\ minus[i] = Minus[i] /\ left_[i] = rest[i]
  <2>1. entries[i] \in Rows /\ i \in 1 .. N + 1
    BY <1>1, Columns
  <2>2. entries'[i] = [entries[i] EXCEPT !.remaining = rest[i]]
    BY <1>1 DEF Writes
  <2>3. /\ entries'[i].plus = entries[i].plus /\ entries'[i].minus = entries[i].minus
        /\ entries'[i].remaining = rest[i]
    BY <2>1, <2>2 DEF Rows
  <2> QED BY <1>1, <2>1, <2>3 DEF Plus, Minus, Remaining
<1>4. /\ plus[N + 1] = row.plus /\ minus[N + 1] = row.minus
      /\ left_[N + 1] = row.remaining
      /\ row.plus \in Nat /\ row.minus \in Nat /\ row.remaining \in Nat
  <2>1. N + 1 \in 1 .. N + 1 /\ entries'[N + 1] = row
    BY <1>1 DEF Writes
  <2> QED BY <1>1, <2>1 DEF Plus, Minus, Remaining, Rows
<1>5. \A i \in D : taken[i] \in Nat /\ rest[i] \in Nat /\ Remaining[i] = rest[i] + taken[i]
  BY <1>1, <1>2
<1>6. /\ Total(plus, DOMAIN entries') = Sum(plus, 1 .. N + 1)
      /\ Total(minus, DOMAIN entries') = Sum(minus, 1 .. N + 1)
      /\ Total(left_, DOMAIN entries') = Sum(left_, 1 .. N + 1)
      /\ Total(Plus, DOMAIN entries) = Sum(Plus, D)
      /\ Total(Minus, DOMAIN entries) = Sum(Minus, D)
      /\ Total(Remaining, DOMAIN entries) = Sum(Remaining, D)
  BY <1>1 DEF Total, Sum
<1> HIDE DEF plus, minus, left_
<1>7. Sum(plus, 1 .. N + 1) = Sum(Plus, D) + row.plus
  BY <1>1, <1>2, <1>3, <1>4, SumExtends
<1>8. Sum(minus, 1 .. N + 1) = Sum(Minus, D) + row.minus
  BY <1>1, <1>2, <1>3, <1>4, SumExtends
<1>9. Sum(left_, 1 .. N + 1) = Sum(rest, D) + row.remaining
  BY <1>1, <1>3, <1>4, <1>5, SumExtends
<1> HIDE DEF N, D
<1>10. Sum(Remaining, D) = Sum(rest, D) + Sum(taken, D)
  BY <1>1, <1>5, SumAdds
<1>11. /\ Sum(Plus, D) \in Nat /\ Sum(Minus, D) \in Nat /\ Sum(rest, D) \in Nat
       /\ Sum(taken, D) \in Nat
  <2>1. Sum(Plus, D) \in Nat
    BY <1>1, <1>2, SumNatural
  <2>2. Sum(Minus, D) \in Nat
    BY <1>1, <1>2, SumNatural
  <2>3. Sum(rest, D) \in Nat
    BY <1>1, <1>5, SumNatural
  <2>4. Sum(taken, D) \in Nat
    BY <1>1, <1>5, SumNatural
  <2> QED BY <2>1, <2>2, <2>3, <2>4
<1>12. Sum(Plus, D) = Sum(Remaining, D) + Sum(Minus, D)
  BY <1>6 DEF LedgerBalances
<1>13. row.plus + Sum(taken, D) = row.remaining + row.minus
  BY <1>1
<1>14. Sum(Plus, D) + row.plus = Sum(rest, D) + row.remaining + (Sum(Minus, D) + row.minus)
  BY <1>4, <1>10, <1>11, <1>12, <1>13
<1>15. Total(plus, DOMAIN entries')
         = Total(left_, DOMAIN entries') + Total(minus, DOMAIN entries')
  BY <1>6, <1>7, <1>8, <1>9, <1>14
<1> QED BY <1>15 DEF LedgerBalances, plus, minus, left_

-------------------------------------------------------------------------------
(* The withdrawal of the package.                                            *)

\* The share kept of a price, rounded up, is at most the price.
LEMMA ShareKept ==
  ASSUME NEW T \in Nat \ {0}, NEW used \in 0 .. T, NEW price \in Nat
  PROVE  CeilDiv(used * price, T) \in 0 .. price
<1> DEFINE n == used * price + T - 1
           q == n \div T
<1>1. used * price \in Nat /\ used * price <= T * price
  <2>1. PICK rest \in Nat : T = used + rest
    <3>1. T - used \in Nat /\ T = used + (T - used)
      OBVIOUS
    <3> QED BY <3>1
  <2>2. T * price = used * price + rest * price
    BY <2>1
  <2>3. rest * price \in Nat /\ used * price \in Nat /\ T * price \in Nat
    BY <2>1
  <2> QED BY <2>2, <2>3
<1>2. n \in Nat /\ n < T * price + T
  <2>1. T * price \in Nat
    OBVIOUS
  <2> QED BY <1>1, <2>1
<1>3. q \in Nat /\ T * q <= n
  <2> HIDE DEF n
  <2> QED BY <1>2
<1>4. ASSUME q > price PROVE FALSE
  <2> HIDE DEF q
  <2>1. PICK more \in Nat : q = price + 1 + more
    <3>1. q - price - 1 \in Nat /\ q = price + 1 + (q - price - 1)
      BY <1>3, <1>4
    <3> QED BY <3>1
  <2>2. T * q = T * price + T + T * more
    BY <2>1
  <2>3. T * more \in Nat /\ T * price \in Nat
    BY <2>1
  <2> HIDE DEF n
  <2> QED BY <1>2, <1>3, <2>2, <2>3
<1>5. q \in 0 .. price
  <2> HIDE DEF q
  <2> QED BY <1>3, <1>4
<1> QED BY <1>5 DEF CeilDiv

\* Where there is a package, there is one, and its refund is a part of the price.
LEMMA PackageIs ==
  ASSUME Booked, NEW i \in DOMAIN entries, entries[i].kind = "purchase"
  PROVE  /\ Package = i /\ entries[i].plus = Tokens
         /\ RefundAmount \in 0 .. Price
<1>1. Package \in DOMAIN entries /\ entries[Package].kind = "purchase"
  BY DEF Package
<1>2. Package = i
  BY <1>1 DEF Booked
<1>3. entries[i] \in Rows /\ entries[i].remaining <= entries[i].plus /\ entries[i].plus = Tokens
  BY Columns DEF Booked
<1>4. Tokens \in Nat \ {0} /\ Price \in Nat /\ Consumed \in 0 .. Tokens
  BY <1>2, <1>3, Money DEF Consumed, Rows
<1>5. CeilDiv(Consumed * Price, Tokens) \in 0 .. Price
  BY <1>4, ShareKept
<1>6. RefundAmount \in 0 .. Price
  BY <1>4, <1>5 DEF RefundAmount
<1> QED BY <1>2, <1>3, <1>6

Statuses == {"none", "active", "withdrawn"}

\* A withdrawal in flight holds the locks of an active purchase, and what it
\* read of the package is what is there.
AccountInv ==
  /\ Booked /\ LedgerBalances
  /\ purchase \in [status: Statuses, refund: 0 .. Price, by: {"nobody", "request", "event"}]
  /\ withdraw \in [step: {"idle", "refund", "commit"}, cents: 0 .. Price]
  /\ refund \in 0 .. Price /\ clock \in 0 .. 2
  /\ purchase.status # "none" => \E i \in DOMAIN entries : entries[i].kind = "purchase"
  /\ withdraw.step # "idle" => purchase.status = "active"
  /\ ShareStaysFresh

\* The purchase and the withdrawal are typed, as facts to cite.
LEMMA WithdrawalTyped ==
  ASSUME AccountInv
  PROVE  /\ Booked /\ LedgerBalances /\ ShareStaysFresh
         /\ DOMAIN purchase = {"status", "refund", "by"} /\ purchase.status \in Statuses
         /\ purchase.refund \in 0 .. Price /\ purchase.by \in {"nobody", "request", "event"}
         /\ DOMAIN withdraw = {"step", "cents"} /\ withdraw.cents \in 0 .. Price
         /\ withdraw.step \in {"idle", "refund", "commit"} /\ refund \in 0 .. Price
         /\ purchase.status # "none" => \E i \in DOMAIN entries : entries[i].kind = "purchase"
         /\ withdraw.step # "idle" => purchase.status = "active"
BY DEF AccountInv

\* A row is appended, and something is taken from the rows there were.
Grows(row, taken) ==
  /\ row \in Rows /\ row.remaining <= row.plus /\ row.kind # "grant"
  /\ row.kind = "purchase" =>
       row.plus = Tokens /\ \A i \in DOMAIN entries : entries[i].kind # "purchase"
  /\ \A i \in DOMAIN entries : taken[i] \in 0 .. Remaining[i]
  /\ row.plus + Sum(taken, DOMAIN entries) = row.remaining + row.minus
  /\ Writes(row, [i \in DOMAIN entries |-> Remaining[i] - taken[i]])
  /\ entries' \in Seq(Rows)

\* The entries stay in shape and add up; a package not taken from is what it was.
LEMMA GrowsWell ==
  ASSUME Booked, LedgerBalances, NEW row, NEW taken, Grows(row, taken)
  PROVE  /\ Booked' /\ LedgerBalances'
         /\ \A i \in DOMAIN entries :
              /\ i \in DOMAIN entries' /\ entries'[i].kind = entries[i].kind
              /\ taken[i] = 0 => entries'[i] = entries[i]
<1> DEFINE rest == [i \in DOMAIN entries |-> Remaining[i] - taken[i]]
<1>1. \A i \in DOMAIN entries : Remaining[i] \in Nat /\ taken[i] \in 0 .. Remaining[i]
  BY Columns DEF Grows, Numbers
<1>2. \A i \in DOMAIN entries : rest[i] = Remaining[i] - taken[i] /\ rest[i] \in 0 .. Remaining[i]
  BY <1>1
<1>3. Writes(row, rest) /\ entries' \in Seq(Rows) /\ row \in Rows
  BY DEF Grows
<1> HIDE DEF rest
<1>4. /\ Booked'
      /\ \A i \in DOMAIN entries : i \in DOMAIN entries' /\ entries'[i].kind = entries[i].kind
  BY <1>2, <1>3, BookedNext DEF Grows
<1>5. LedgerBalances'
  BY <1>1, <1>2, <1>3, <1>4, BalanceNext DEF Grows
<1>6. ASSUME NEW i \in DOMAIN entries, taken[i] = 0
      PROVE  entries'[i] = entries[i]
  <2>1. entries'[i] = [entries[i] EXCEPT !.remaining = rest[i]]
    BY <1>3 DEF Writes
  <2>2. rest[i] = entries[i].remaining
    <3>1. Remaining[i] \in Nat /\ rest[i] = Remaining[i] - 0
      BY <1>1, <1>2, <1>6
    <3> QED BY <3>1 DEF Remaining
  <2>3. entries[i] \in Rows
    BY Columns
  <2> QED BY <2>1, <2>2, <2>3 DEF Rows
<1> QED BY <1>4, <1>5, <1>6

\* These are the rows of the ledger with these amounts left.
Leaves(old, rest) ==
  \A i \in DOMAIN entries : old[i] = [entries[i] EXCEPT !.remaining = rest[i]]

\* The steps that write into the ledger append to what they leave of its rows.
LEMMA Appended ==
  ASSUME Booked, NEW row \in Rows, NEW old \in [DOMAIN entries -> Rows], NEW rest,
         Leaves(old, rest), entries' = Append(old, row)
  PROVE  Writes(row, rest) /\ entries' \in Seq(Rows)
<1> DEFINE N == Len(entries)
<1>1. N \in Nat /\ DOMAIN entries = 1 .. N /\ \A i \in 1 .. N : entries[i] \in Rows
  BY Columns
<1>4. old \in [1 .. N -> Rows]
  BY <1>1
<1>5. old \in Seq(Rows) /\ Len(old) = N
  BY <1>1, <1>4
<1>6. /\ entries' \in Seq(Rows) /\ Len(entries') = N + 1 /\ entries'[N + 1] = row
      /\ \A i \in 1 .. N : entries'[i] = old[i]
  BY <1>1, <1>5
<1>7. DOMAIN entries' = 1 .. N + 1
  BY <1>6
<1> QED BY <1>1, <1>6, <1>7 DEF Writes, Leaves

\* An entry that takes nothing from the others: a purchase, or an adjustment.
LEMMA GrowsByCredit ==
  ASSUME Booked, NEW kind \in {"purchase", "adjustment"}, NEW ref \in Refs, NEW plus \in Nat,
         entries' = Append(entries, Entry(kind, ref, plus, 0)),
         kind = "purchase" =>
           plus = Tokens /\ \A i \in DOMAIN entries : entries[i].kind # "purchase"
  PROVE  Grows(Entry(kind, ref, plus, 0), [i \in DOMAIN entries |-> 0])
<1> DEFINE row == Entry(kind, ref, plus, 0)
           none == [i \in DOMAIN entries |-> 0]
<1>1. /\ row \in Rows /\ row.kind = kind /\ row.plus = plus
      /\ row.minus = 0 /\ row.remaining = plus
  BY EntryTyped DEF Kinds
<1>2. \A i \in DOMAIN entries : entries[i] \in Rows /\ Remaining[i] \in Nat
  BY Columns DEF Numbers
<1>3. \A i \in DOMAIN entries :
        /\ none[i] \in 0 .. Remaining[i]
        /\ entries[i] = [entries[i] EXCEPT !.remaining = Remaining[i] - none[i]]
  <2> TAKE i \in DOMAIN entries
  <2>1. Remaining[i] - none[i] = entries[i].remaining
    <3>1. Remaining[i] - 0 = Remaining[i]
      BY <1>2
    <3> QED BY <3>1 DEF Remaining
  <2>2. entries[i] = [entries[i] EXCEPT !.remaining = entries[i].remaining]
    BY <1>2 DEF Rows
  <2> QED BY <1>2, <2>1, <2>2
<1>4. entries = [i \in DOMAIN entries |-> entries[i]]
  BY DEF Booked
<1>5. IsFiniteSet(DOMAIN entries)
  <2>1. DOMAIN entries = 1 .. Len(entries) /\ Len(entries) \in Int /\ 1 \in Int
    BY Columns
  <2> QED BY <2>1, FS_Interval
<1>6. Sum(none, DOMAIN entries) = 0
  BY <1>5, SumOfNothing
<1> HIDE DEF row, none
<1>7. /\ Writes(row, [i \in DOMAIN entries |-> Remaining[i] - none[i]])
      /\ entries' \in Seq(Rows)
  <2> DEFINE rest == [i \in DOMAIN entries |-> Remaining[i] - none[i]]
  <2>1. \A i \in DOMAIN entries : rest[i] = Remaining[i] - none[i]
    OBVIOUS
  <2> HIDE DEF rest
  <2>2. \A i \in DOMAIN entries : entries[i] = [entries[i] EXCEPT !.remaining = rest[i]]
    BY <2>1, <1>3
  <2>3. entries \in [DOMAIN entries -> Rows]
    BY <1>2, <1>4
  <2>4. Writes(row, rest) /\ entries' \in Seq(Rows)
    <3>1. row \in Rows
      BY <1>1
    <3>2. entries' = Append(entries, row)
      BY DEF row
    <3>3. Leaves(entries, rest)
      BY <2>2 DEF Leaves
    <3> QED BY <3>1, <3>2, <3>3, <2>3, Appended
  <2> QED BY <2>4 DEF rest
<1>8. row.plus + 0 = row.remaining + row.minus /\ row.remaining <= row.plus
  BY <1>1
<1>9. Grows(row, none)
  BY <1>1, <1>3, <1>6, <1>7, <1>8 DEF Grows
<1> QED BY <1>9 DEF row, none

\* What is left of a row is written off, and an entry says so.
LEMMA GrowsByWriteOff ==
  ASSUME Booked, NEW n \in DOMAIN entries, NEW kind \in {"expiry", "withdrawal"},
         entries' = WrittenOff(n, kind)
  PROVE  Grows(Entry(kind, entries[n].ref, 0, entries[n].remaining),
               [i \in DOMAIN entries |-> IF i = n THEN Remaining[n] ELSE 0])
<1> DEFINE row == Entry(kind, entries[n].ref, 0, entries[n].remaining)
           all == [i \in DOMAIN entries |-> IF i = n THEN Remaining[n] ELSE 0]
           old == [entries EXCEPT ![n].remaining = 0]
<1>1. \A i \in DOMAIN entries : /\ entries[i] \in Rows /\ Remaining[i] \in Nat
                                /\ Remaining[i] = entries[i].remaining
  BY Columns DEF Numbers, Remaining
<1>2. /\ row \in Rows /\ row.kind = kind /\ row.plus = 0
      /\ row.minus = Remaining[n] /\ row.remaining = 0
  <2>1. entries[n].ref \in Refs /\ entries[n].remaining \in Nat
    BY <1>1 DEF Rows
  <2> QED BY <1>1, <2>1, EntryTyped DEF Kinds
<1>3. \A i \in DOMAIN entries :
        /\ all[i] \in 0 .. Remaining[i]
        /\ old[i] = [entries[i] EXCEPT !.remaining = Remaining[i] - all[i]]
  <2> TAKE i \in DOMAIN entries
  <2>1. CASE i = n
    <3>1. Remaining[n] - Remaining[n] = 0 /\ Remaining[n] \in 0 .. Remaining[n]
      BY <1>1
    <3> QED BY <2>1, <3>1
  <2>2. CASE i # n
    <3>1. Remaining[i] - 0 = entries[i].remaining /\ 0 \in 0 .. Remaining[i]
      BY <1>1
    <3>2. entries[i] = [entries[i] EXCEPT !.remaining = entries[i].remaining]
      BY <1>1 DEF Rows
    <3> QED BY <2>2, <3>1, <3>2
  <2> QED BY <2>1, <2>2
<1>4. DOMAIN old = DOMAIN entries /\ old = [i \in DOMAIN entries |-> old[i]]
  BY DEF Booked
<1>5. IsFiniteSet(DOMAIN entries)
  <2>1. DOMAIN entries = 1 .. Len(entries) /\ Len(entries) \in Int /\ 1 \in Int
    BY Columns
  <2> QED BY <2>1, FS_Interval
<1>6. Sum(all, DOMAIN entries) = Remaining[n]
  <2> DEFINE D == DOMAIN entries
             none == [i \in D |-> 0]
  <2>1. /\ \A i \in D : all[i] \in Nat /\ none[i] \in Nat
        /\ \A i \in D \ {n} : all[i] = none[i]
        /\ none[n] = 0 /\ all[n] = Remaining[n] /\ n \in D
    BY <1>1
  <2>2. Sum(none, D) = 0
    BY <1>5, SumOfNothing
  <2> HIDE DEF all, none, D
  <2>3. Sum(all, D) + none[n] = Sum(none, D) + all[n]
    BY <1>5, <2>1, SumChanges DEF D
  <2>4. Sum(all, D) \in Nat
    BY <1>5, <2>1, SumNatural DEF D
  <2>5. Sum(all, D) = all[n]
    BY <2>1, <2>2, <2>3, <2>4
  <2> QED BY <2>1, <2>5 DEF D
<1>7. entries' = Append(old, row)
  BY DEF WrittenOff
<1> HIDE DEF row, all, old
<1>8. /\ Writes(row, [i \in DOMAIN entries |-> Remaining[i] - all[i]])
      /\ entries' \in Seq(Rows)
  <2> DEFINE rest == [i \in DOMAIN entries |-> Remaining[i] - all[i]]
  <2>1. \A i \in DOMAIN entries : rest[i] = Remaining[i] - all[i]
    OBVIOUS
  <2>2. \A i \in DOMAIN entries : rest[i] \in Nat
    <3>1. \A i \in DOMAIN entries : Remaining[i] \in Nat /\ all[i] \in 0 .. Remaining[i]
      BY <1>1, <1>3
    <3> HIDE DEF rest
    <3> QED BY <2>1, <3>1
  <2> HIDE DEF rest
  <2>3. \A i \in DOMAIN entries : old[i] = [entries[i] EXCEPT !.remaining = rest[i]]
    BY <2>1, <1>3
  <2>4. old \in [DOMAIN entries -> Rows]
    <3>1. \A i \in DOMAIN entries : entries[i] \in Rows
      BY Columns
    <3>2. \A i \in DOMAIN entries : old[i] \in Rows
      BY <2>2, <2>3, <3>1 DEF Rows
    <3> QED BY <3>2, <1>4
  <2>5. Writes(row, rest) /\ entries' \in Seq(Rows)
    <3>1. row \in Rows
      BY <1>2
    <3>2. entries' = Append(old, row)
      BY <1>7
    <3>3. Leaves(old, rest)
      BY <2>3 DEF Leaves
    <3> QED BY <3>1, <3>2, <3>3, <2>4, Appended
  <2> QED BY <2>5 DEF rest
<1>9. row.plus + Remaining[n] = row.remaining + row.minus /\ row.remaining <= row.plus
  BY <1>1, <1>2
<1>10. Grows(row, all)
  BY <1>2, <1>3, <1>6, <1>8, <1>9 DEF Grows
<1> QED BY <1>10 DEF row, all

\* A debit takes its amount from the rows in their order.
LEMMA GrowsByDebit ==
  ASSUME Booked, NEW ref \in Debits, NEW amount \in Amounts, Debit(ref, amount)
  PROVE  Grows(Entry("debit", ref, 0, amount), [i \in DOMAIN entries |-> Take(i, amount)])
<1> DEFINE row == Entry("debit", ref, 0, amount)
           take == [i \in DOMAIN entries |-> Take(i, amount)]
           old == [i \in DOMAIN entries |->
                     [entries[i] EXCEPT !.remaining = @ - Take(i, amount)]]
<1>1. \A i \in DOMAIN entries : /\ entries[i] \in Rows /\ Remaining[i] \in Nat
                                /\ Remaining[i] = entries[i].remaining
  BY Columns DEF Numbers, Remaining
<1>2. /\ row \in Rows /\ row.kind = "debit" /\ row.plus = 0
      /\ row.minus = amount /\ row.remaining = 0 /\ amount \in Nat
  BY EntryTyped, Money DEF Kinds, Refs
<1>3. Sufficient(amount) /\ entries' = Append(old, row)
  BY DEF Debit
<1>4. /\ \A i \in DOMAIN entries : take[i] \in 0 .. Remaining[i]
      /\ Sum(take, DOMAIN entries) = amount
  <2> HIDE DEF row, old
  <2> QED BY <1>3, DebitTakes
<1>5. \A i \in DOMAIN entries :
        old[i] = [entries[i] EXCEPT !.remaining = Remaining[i] - take[i]]
  BY <1>1
<1>6. DOMAIN old = DOMAIN entries /\ old = [i \in DOMAIN entries |-> old[i]]
  OBVIOUS
<1> HIDE DEF row, take, old
<1>7. /\ Writes(row, [i \in DOMAIN entries |-> Remaining[i] - take[i]])
      /\ entries' \in Seq(Rows)
  <2> DEFINE rest == [i \in DOMAIN entries |-> Remaining[i] - take[i]]
  <2>1. \A i \in DOMAIN entries : rest[i] = Remaining[i] - take[i]
    OBVIOUS
  <2>2. \A i \in DOMAIN entries : rest[i] \in Nat
    <3>1. \A i \in DOMAIN entries : Remaining[i] \in Nat /\ take[i] \in 0 .. Remaining[i]
      BY <1>1, <1>4
    <3> HIDE DEF rest
    <3> QED BY <2>1, <3>1
  <2> HIDE DEF rest
  <2>3. \A i \in DOMAIN entries : old[i] = [entries[i] EXCEPT !.remaining = rest[i]]
    BY <2>1, <1>5
  <2>4. old \in [DOMAIN entries -> Rows]
    <3>1. \A i \in DOMAIN entries : entries[i] \in Rows
      BY Columns
    <3>2. \A i \in DOMAIN entries : old[i] \in Rows
      BY <2>2, <2>3, <3>1 DEF Rows
    <3> QED BY <3>2, <1>6
  <2>5. Writes(row, rest) /\ entries' \in Seq(Rows)
    <3>1. row \in Rows
      BY <1>2
    <3>2. entries' = Append(old, row)
      BY <1>3
    <3>3. Leaves(old, rest)
      BY <2>3 DEF Leaves
    <3> QED BY <3>1, <3>2, <3>3, <2>4, Appended
  <2> QED BY <2>5 DEF rest
<1>8. row.plus + amount = row.remaining + row.minus /\ row.remaining <= row.plus
  BY <1>2
<1>9. Grows(row, take)
  BY <1>2, <1>4, <1>7, <1>8 DEF Grows
<1> QED BY <1>9 DEF row, take

WithdrawalTypes ==
  /\ purchase \in [status: Statuses, refund: 0 .. Price, by: {"nobody", "request", "event"}]
  /\ withdraw \in [step: {"idle", "refund", "commit"}, cents: 0 .. Price]
  /\ refund \in 0 .. Price /\ clock \in 0 .. 2

\* What depends on the entries stays with them.
LEMMA EntriesKept ==
  ASSUME Booked, LedgerBalances, entries' = entries
  PROVE  Booked' /\ LedgerBalances' /\ RefundAmount' = RefundAmount
<1> DEFINE plus == Plus'
           minus == Minus'
           rest == Remaining'
<1>1. plus = Plus /\ minus = Minus /\ rest = Remaining
  BY DEF Plus, Minus, Remaining
<1> HIDE DEF plus, minus, rest
<1>2. Total(plus, DOMAIN entries') = Total(rest, DOMAIN entries') + Total(minus, DOMAIN entries')
  BY <1>1 DEF LedgerBalances
<1>3. LedgerBalances'
  BY <1>2 DEF LedgerBalances, plus, minus, rest
<1>4. Booked'
  BY DEF Booked
<1>5. RefundAmount' = RefundAmount
  BY DEF RefundAmount, Consumed, Package
<1> QED BY <1>3, <1>4, <1>5

\* Steps that leave the entries: what a withdrawal holds then is the share of now.
LEMMA AccountKept ==
  ASSUME AccountInv, entries' = entries, WithdrawalTypes',
         purchase'.status # "none" => purchase.status # "none",
         withdraw'.step # "idle" =>
           purchase'.status = "active" /\ withdraw'.cents = RefundAmount
  PROVE  AccountInv'
<1>1. Booked' /\ LedgerBalances' /\ RefundAmount' = RefundAmount
  BY EntriesKept, WithdrawalTyped
<1>2. ShareStaysFresh'
  BY <1>1 DEF ShareStaysFresh
<1>3. purchase'.status # "none" => \E i \in DOMAIN entries' : entries'[i].kind = "purchase"
  BY DEF AccountInv
<1> QED BY <1>1, <1>2, <1>3 DEF AccountInv, WithdrawalTypes

\* Steps that write a row: what a withdrawal in flight read of the package stays.
LEMMA AccountGrown ==
  ASSUME AccountInv, NEW row, NEW taken, Grows(row, taken), WithdrawalTypes',
         purchase'.status # "none" => purchase.status # "none" \/ row.kind = "purchase",
         withdraw'.step # "idle" =>
           /\ withdraw' = withdraw /\ purchase'.status = "active"
           /\ \A i \in DOMAIN entries : entries[i].kind = "purchase" => taken[i] = 0
  PROVE  AccountInv'
<1>1. /\ Booked' /\ LedgerBalances'
      /\ \A i \in DOMAIN entries :
           /\ i \in DOMAIN entries' /\ entries'[i].kind = entries[i].kind
           /\ taken[i] = 0 => entries'[i] = entries[i]
  BY GrowsWell, WithdrawalTyped
<1>2. purchase'.status # "none" => \E i \in DOMAIN entries' : entries'[i].kind = "purchase"
  <2>1. CASE purchase.status # "none"
    BY <1>1, <2>1, WithdrawalTyped
  <2>2. CASE row.kind = "purchase"
    <3>1. Len(entries) + 1 \in DOMAIN entries' /\ entries'[Len(entries) + 1] = row
      BY Columns, WithdrawalTyped DEF Grows, Writes
    <3> QED BY <2>2, <3>1
  <2> QED BY <2>1, <2>2
<1>3. ASSUME withdraw'.step # "idle"
      PROVE  withdraw'.cents = RefundAmount'
  <2>1. PICK i \in DOMAIN entries : entries[i].kind = "purchase"
    BY <1>3, WithdrawalTyped
  <2>2. i \in DOMAIN entries' /\ entries'[i] = entries[i] /\ entries'[i].kind = "purchase"
    BY <1>1, <1>3, <2>1
  <2>3. Package = i
    BY <2>1, PackageIs, WithdrawalTyped
  <2>4. Package' \in DOMAIN entries' /\ entries'[Package'].kind = "purchase"
    BY <2>2 DEF Package
  <2>5. Package' = i
    BY <1>1, <2>2, <2>4 DEF Booked
  <2>6. Consumed' = Consumed
    BY <2>2, <2>3, <2>5 DEF Consumed
  <2>7. RefundAmount' = RefundAmount
    BY <2>6 DEF RefundAmount
  <2>8. withdraw.cents = RefundAmount
    BY <1>3, WithdrawalTyped DEF ShareStaysFresh
  <2> QED BY <1>3, <2>7, <2>8
<1>4. ShareStaysFresh'
  BY <1>3 DEF ShareStaysFresh
<1>5. withdraw'.step # "idle" => purchase'.status = "active"
  OBVIOUS
<1> QED BY <1>1, <1>2, <1>4, <1>5 DEF AccountInv, WithdrawalTypes

\* A paid event: its package is credited once, and never under a withdrawal.
LEMMA AccountCredited ==
  ASSUME AccountInv, NEW event, DeliverCheckout(event)
  PROVE  AccountInv'
<1>1. UNCHANGED <<clock, withdraw, refund>>
  BY DEF DeliverCheckout
<1>2. WithdrawalTypes'
  <2>1. purchase' = purchase \/ (purchase.status = "none"
                                 /\ purchase' = [purchase EXCEPT !.status = "active"])
    BY DEF DeliverCheckout, CreatedPurchase
  <2>2. purchase' \in [status: Statuses, refund: 0 .. Price, by: {"nobody", "request", "event"}]
    BY <2>1 DEF AccountInv, Statuses
  <2> QED BY <1>1, <2>2 DEF AccountInv, WithdrawalTypes
<1>3. withdraw'.step # "idle" => purchase'.status = "active"
  BY <1>1, WithdrawalTyped DEF DeliverCheckout, CreatedPurchase
<1>4. CASE entries' = entries /\ (purchase' = purchase \/ \E i \in DOMAIN entries :
                                                            entries[i].kind = "purchase")
  <2>1. withdraw'.step # "idle" => withdraw'.cents = RefundAmount
    BY <1>1, WithdrawalTyped DEF ShareStaysFresh
  <2>2. Booked' /\ LedgerBalances' /\ RefundAmount' = RefundAmount
    BY <1>4, EntriesKept, WithdrawalTyped
  <2>4. purchase'.status # "none" => \E i \in DOMAIN entries' : entries'[i].kind = "purchase"
    BY <1>4, WithdrawalTyped
  <2> QED BY <1>2, <1>3, <2>1, <2>2, <2>4 DEF AccountInv, WithdrawalTypes, ShareStaysFresh
<1>5. CASE /\ entries' = Append(entries, Entry("purchase", "package", Tokens, 0))
           /\ \A i \in DOMAIN entries : entries[i].kind # "purchase"
  <2>1. Grows(Entry("purchase", "package", Tokens, 0), [i \in DOMAIN entries |-> 0])
    BY <1>5, GrowsByCredit, WithdrawalTyped, Money DEF Refs
  <2>2. Entry("purchase", "package", Tokens, 0).kind = "purchase"
    BY DEF Entry
  <2>3. purchase.status = "none" /\ withdraw.step = "idle"
    BY <1>5, WithdrawalTyped
  <2> QED BY <1>1, <1>2, <2>1, <2>2, <2>3, AccountGrown
<1> QED BY <1>4, <1>5 DEF DeliverCheckout, Credited

\* Debits and reversals wait for the account's lock.
LEMMA AccountDebited ==
  ASSUME AccountInv, NEW ref \in Debits,
         Reverse(ref) \/ \E amount \in Amounts : Debit(ref, amount)
  PROVE  AccountInv'
<1>1. UNCHANGED <<clock, purchase, withdraw, refund>> /\ withdraw.step = "idle"
  BY DEF Reverse, Debit, AccountLocked
<1>2. WithdrawalTypes'
  BY <1>1 DEF AccountInv, WithdrawalTypes
<1>3. ASSUME NEW amount \in Amounts, Debit(ref, amount)
      PROVE  AccountInv'
  <2>1. Grows(Entry("debit", ref, 0, amount), [i \in DOMAIN entries |-> Take(i, amount)])
    BY <1>3, GrowsByDebit, WithdrawalTyped
  <2> QED BY <1>1, <1>2, <2>1, AccountGrown
<1>4. ASSUME Reverse(ref)
      PROVE  AccountInv'
  <2>1. PICK i \in DOMAIN entries :
          entries' = Append(entries, Entry("adjustment", ref, entries[i].minus, 0))
    BY <1>4 DEF Reverse
  <2>2. entries[i].minus \in Nat
    BY Columns, WithdrawalTyped DEF Rows
  <2>3. Grows(Entry("adjustment", ref, entries[i].minus, 0), [k \in DOMAIN entries |-> 0])
    BY <2>1, <2>2, GrowsByCredit, WithdrawalTyped DEF Refs
  <2> QED BY <1>1, <1>2, <2>3, AccountGrown
<1> QED BY <1>3, <1>4

\* Expiry does not wait for the lock, and takes from grants only.
LEMMA AccountExpired ==
  ASSUME AccountInv, NEW n \in DOMAIN entries, Expire(n)
  PROVE  AccountInv'
<1>1. UNCHANGED <<clock, purchase, withdraw, refund>>
  BY DEF Expire
<1>2. WithdrawalTypes'
  BY <1>1 DEF AccountInv, WithdrawalTypes
<1> DEFINE all == [i \in DOMAIN entries |-> IF i = n THEN Remaining[n] ELSE 0]
<1>3. entries[n].kind = "grant" /\ entries' = WrittenOff(n, "expiry")
  BY DEF Expire, Expired
<1>4. Grows(Entry("expiry", entries[n].ref, 0, entries[n].remaining), all)
  BY <1>3, GrowsByWriteOff, WithdrawalTyped
<1>5. \A i \in DOMAIN entries : entries[i].kind = "purchase" => all[i] = 0
  BY <1>3
<1> HIDE DEF all
<1> QED BY <1>1, <1>2, <1>4, <1>5, AccountGrown, WithdrawalTyped

\* The end of a withdrawal frees its locks.
LEMMA AccountWithdrawn ==
  ASSUME AccountInv, NEW cents \in 0 .. Price, NEW by \in {"request", "event"},
         purchase.status = "active", CompleteWithdrawal(cents, by),
         withdraw' \in [step: {"idle"}, cents: 0 .. Price], UNCHANGED <<clock, refund>>
  PROVE  AccountInv'
<1>1. WithdrawalTypes' /\ withdraw'.step = "idle"
  BY DEF AccountInv, WithdrawalTypes, CompleteWithdrawal, Statuses
<1>2. CASE entries' = entries
  BY <1>1, <1>2, AccountKept
<1>3. CASE entries' = WrittenOff(Package, "withdrawal")
  <2>1. Package \in DOMAIN entries
    BY WithdrawalTyped, PackageIs
  <2> DEFINE all == [i \in DOMAIN entries |-> IF i = Package THEN Remaining[Package] ELSE 0]
  <2>2. Grows(Entry("withdrawal", entries[Package].ref, 0, entries[Package].remaining), all)
    BY <1>3, <2>1, GrowsByWriteOff, WithdrawalTyped
  <2> HIDE DEF all
  <2> QED BY <1>1, <2>2, AccountGrown
<1> QED BY <1>2, <1>3 DEF CompleteWithdrawal

\* Init is Ledger's own beginning, or the package sold with two debits made.
LEMMA AccountInit == Init => AccountInv
<1>1. ASSUME LedgerInit PROVE AccountInv
  <2> DEFINE first == Entry("grant", "plan", Granted, 0)
  <2>1. /\ first \in Rows /\ first.kind = "grant" /\ first.plus = Granted
        /\ first.minus = 0 /\ first.remaining = Granted /\ Granted \in Nat
    <3>1. "grant" \in Kinds /\ "plan" \in Refs /\ Granted \in Nat /\ 0 \in Nat
      BY Money DEF Kinds, Refs
    <3> QED BY <3>1, EntryTyped
  <2>2. entries = <<first>>
    BY <1>1 DEF LedgerInit
  <2> HIDE DEF first
  <2>3. /\ entries \in Seq(Rows) /\ Len(entries) = 1 /\ DOMAIN entries = 1 .. 1
        /\ \A i \in DOMAIN entries : i = 1 /\ entries[i] = first
    BY <2>1, <2>2
  <2>4. Booked
    BY <2>1, <2>3 DEF Booked
  <2>5. /\ Total(Plus, DOMAIN entries) = Granted
        /\ Total(Minus, DOMAIN entries) = 0
        /\ Total(Remaining, DOMAIN entries) = Granted
    <3>1. /\ 1 \in DOMAIN entries /\ Plus[1] = Granted /\ Minus[1] = 0 /\ Remaining[1] = Granted
          /\ DOMAIN entries = {1} /\ DOMAIN entries \ {1} = {}
      BY <2>1, <2>3 DEF Plus, Minus, Remaining
    <3>2. IsFiniteSet(DOMAIN entries) /\ IsFiniteSet({})
      <4>1. IsFiniteSet({1}) /\ IsFiniteSet({})
        BY FS_Singleton, FS_EmptySet
      <4> QED BY <3>1, <4>1
    <3>3. /\ \A i \in DOMAIN entries : Plus[i] \in Nat /\ Minus[i] \in Nat /\ Remaining[i] \in Nat
      BY <2>1, <3>1
    <3>4. Sum(Plus, DOMAIN entries) = Plus[1] + Sum(Plus, DOMAIN entries \ {1})
      BY <3>1, <3>2, <3>3, SumRemoves
    <3>5. Sum(Minus, DOMAIN entries) = Minus[1] + Sum(Minus, DOMAIN entries \ {1})
      BY <3>1, <3>2, <3>3, SumRemoves
    <3>6. Sum(Remaining, DOMAIN entries) = Remaining[1] + Sum(Remaining, DOMAIN entries \ {1})
      BY <3>1, <3>2, <3>3, SumRemoves
    <3>7. Sum(Plus, {}) = 0 /\ Sum(Minus, {}) = 0 /\ Sum(Remaining, {}) = 0
      BY <3>2, SumOfNothing
    <3> QED BY <2>1, <3>1, <3>4, <3>5, <3>6, <3>7 DEF Total, Sum
  <2>6. LedgerBalances
    BY <2>1, <2>5 DEF LedgerBalances
  <2>7. /\ WithdrawalTypes /\ withdraw.step = "idle" /\ purchase.status = "none"
    BY <1>1, Money DEF LedgerInit, WithdrawalTypes, Statuses
  <2> QED BY <2>4, <2>6, <2>7 DEF AccountInv, WithdrawalTypes, ShareStaysFresh
<1>2. ASSUME Sold PROVE AccountInv
  <2> DEFINE a == [Entry("grant", "plan", Granted, 0) EXCEPT !.remaining = 0]
             b == [Entry("purchase", "package", Tokens, 0) EXCEPT !.remaining = Tokens - 1]
             one == CHOOSE ref \in Debits : TRUE
             two == CHOOSE ref \in Debits \ {one} : TRUE
             c == Entry("debit", one, 0, Granted)
             d == Entry("adjustment", one, Granted, 0)
             e == Entry("debit", two, 0, 1)
  <2>1. /\ Granted \in Nat /\ Tokens \in Nat \ {0} /\ Tokens - 1 \in Nat /\ one \in Refs /\ two \in Refs
    <3>1. Debits # {} /\ \A r \in Debits : Debits \ {r} # {}
      BY DeclarationsAssumption DEF DeclarationsAssumption
    <3>2. one \in Debits
      BY <3>1
    <3>3. two \in Debits \ {one}
      BY <3>1, <3>2
    <3> HIDE DEF one, two
    <3>4. Tokens - 1 \in Nat
      BY Money
    <3> QED BY <3>2, <3>3, <3>4, Money DEF Refs
  <2>2. entries = <<a, b, c, d, e>>
    BY <1>2 DEF Sold
  <2> HIDE DEF one, two
  <2>3. /\ a \in Rows /\ a.kind = "grant" /\ a.plus = Granted /\ a.minus = 0 /\ a.remaining = 0
        /\ b \in Rows /\ b.kind = "purchase" /\ b.plus = Tokens /\ b.minus = 0
        /\ b.remaining = Tokens - 1
    BY <2>1 DEF Entry, Rows, Kinds, Refs
  <2>4. /\ c \in Rows /\ c.kind = "debit" /\ c.plus = 0 /\ c.minus = Granted /\ c.remaining = 0
        /\ d \in Rows /\ d.kind = "adjustment" /\ d.plus = Granted /\ d.minus = 0
        /\ d.remaining = Granted
    BY <2>1, EntryTyped DEF Kinds
  <2>5. e \in Rows /\ e.kind = "debit" /\ e.plus = 0 /\ e.minus = 1 /\ e.remaining = 0
    BY <2>1, EntryTyped DEF Kinds
  <2> HIDE DEF a, b, c, d, e
  <2>6. /\ entries \in Seq(Rows) /\ Len(entries) = 5 /\ DOMAIN entries = 1 .. 5
        /\ entries[1] = a /\ entries[2] = b /\ entries[3] = c /\ entries[4] = d /\ entries[5] = e
    BY <2>2, <2>3, <2>4, <2>5
  <2>7. \A i \in DOMAIN entries : i \in {1, 2, 3, 4, 5}
    BY <2>6
  <2>8. Booked
    <3>1. \A i \in DOMAIN entries :
            /\ entries[i].remaining <= entries[i].plus
            /\ entries[i].kind = "grant" <=> i = 1
            /\ entries[i].kind = "purchase" <=> i = 2
      BY <2>1, <2>3, <2>4, <2>5, <2>6, <2>7
    <3>2. entries[2].plus = Tokens
      BY <2>3, <2>6
    <3> QED BY <2>6, <3>1, <3>2 DEF Booked
  <2>9. LedgerBalances
    <3> DEFINE plus == Plus
               minus == Minus
               rest == Remaining
    <3>1. /\ plus[1] = Granted /\ plus[2] = Tokens /\ plus[3] = 0 /\ plus[4] = Granted /\ plus[5] = 0
          /\ minus[1] = 0 /\ minus[2] = 0 /\ minus[3] = Granted /\ minus[4] = 0 /\ minus[5] = 1
          /\ rest[1] = 0 /\ rest[2] = Tokens - 1 /\ rest[3] = 0 /\ rest[4] = Granted /\ rest[5] = 0
      BY <2>3, <2>4, <2>5, <2>6 DEF Plus, Minus, Remaining
    <3> HIDE DEF plus, minus, rest
    <3>2. ASSUME NEW f, \A i \in {1, 2, 3, 4, 5} : f[i] \in Nat
          PROVE  Sum(f, 1 .. 5) = f[1] + f[2] + f[3] + f[4] + f[5]
      <4>1. Sum(f, 1 .. 0) = 0
        <5>1. 1 .. 0 = {} /\ IsFiniteSet({})
          BY FS_EmptySet
        <5> QED BY <5>1, SumOfNothing
      <4>2. \A n \in {0, 1, 2, 3, 4} : Sum(f, 1 .. n + 1) = Sum(f, 1 .. n) + f[n + 1]
        <5> TAKE n \in {0, 1, 2, 3, 4}
        <5>1. n \in Nat /\ n + 1 \in {1, 2, 3, 4, 5} /\ \A i \in 1 .. n : i \in {1, 2, 3, 4, 5}
          OBVIOUS
        <5>2. f[n + 1] \in Nat /\ \A i \in 1 .. n : f[i] \in Nat /\ f[i] = f[i]
          BY <3>2, <5>1
        <5> QED BY <5>1, <5>2, SumExtends
      <4>3. /\ Sum(f, 1 .. 1) = Sum(f, 1 .. 0) + f[1] /\ Sum(f, 1 .. 2) = Sum(f, 1 .. 1) + f[2]
            /\ Sum(f, 1 .. 3) = Sum(f, 1 .. 2) + f[3] /\ Sum(f, 1 .. 4) = Sum(f, 1 .. 3) + f[4]
            /\ Sum(f, 1 .. 5) = Sum(f, 1 .. 4) + f[5]
        BY <4>2
      <4> QED BY <3>2, <4>1, <4>3
    <3>3. \A i \in {1, 2, 3, 4, 5} : plus[i] \in Nat /\ minus[i] \in Nat /\ rest[i] \in Nat
      BY <2>1, <3>1
    <3>4. Sum(plus, 1 .. 5) = plus[1] + plus[2] + plus[3] + plus[4] + plus[5]
      BY <3>2, <3>3
    <3>5. Sum(minus, 1 .. 5) = minus[1] + minus[2] + minus[3] + minus[4] + minus[5]
      BY <3>2, <3>3
    <3>6. Sum(rest, 1 .. 5) = rest[1] + rest[2] + rest[3] + rest[4] + rest[5]
      BY <3>2, <3>3
    <3>7. Sum(plus, 1 .. 5) = Sum(rest, 1 .. 5) + Sum(minus, 1 .. 5)
      BY <2>1, <3>1, <3>4, <3>5, <3>6
    <3> QED BY <2>6, <3>7 DEF LedgerBalances, Total, Sum, plus, minus, rest
  <2>10. WithdrawalTypes /\ withdraw.step = "idle"
    BY <1>2, Money DEF Sold, WithdrawalTypes, Statuses
  <2>11. 2 \in DOMAIN entries /\ entries[2].kind = "purchase"
    BY <2>3, <2>6
  <2> QED BY <2>8, <2>9, <2>10, <2>11 DEF AccountInv, WithdrawalTypes, ShareStaysFresh
<1> QED BY <1>1, <1>2 DEF Init

\* Every step keeps the account.
LEMMA AccountNext ==
  ASSUME AccountInv, [Next]_vars
  PROVE  AccountInv'
<1>1. ASSUME UNCHANGED <<entries, purchase, withdraw, refund>>, clock' \in 0 .. 2
      PROVE  AccountInv'
  <2>1. WithdrawalTypes'
    BY <1>1 DEF AccountInv, WithdrawalTypes
  <2> QED BY <1>1, <2>1, AccountKept, WithdrawalTyped DEF ShareStaysFresh
<1>2. CASE UNCHANGED accountVars
  BY <1>1, <1>2 DEF accountVars, AccountInv
<1>3. CASE EditPlan \/ BeginSync \/ CreatePrice \/ StorePrice \/ SyncDies
  BY <1>2, <1>3 DEF EditPlan, BeginSync, CreatePrice, StorePrice, SyncDies
<1>4. CASE OpenAttempt \/ BeginCheckout \/ CreateSession \/ StoreSession \/ CheckoutDies
           \/ SessionMoves
  BY <1>2, <1>4 DEF OpenAttempt, BeginCheckout, CreateSession, StoreSession, CheckoutDies,
                    SessionMoves
<1>5. CASE Tick
  <2>1. clock' \in 0 .. 2
    BY <1>5 DEF Tick, AccountInv
  <2> QED BY <1>1, <1>5, <2>1 DEF Tick
<1>6. CASE LockPurchase
  <2>1. \E i \in DOMAIN entries : entries[i].kind = "purchase"
    BY <1>6, WithdrawalTyped DEF LockPurchase
  <2>2. RefundAmount \in 0 .. Price
    BY <2>1, PackageIs, WithdrawalTyped
  <2>3. WithdrawalTypes'
    BY <1>6, <2>2 DEF AccountInv, WithdrawalTypes, LockPurchase
  <2> QED BY <1>6, <2>3, AccountKept DEF LockPurchase
<1>7. CASE CreateRefund
  <2>1. /\ UNCHANGED <<clock, entries, purchase>> /\ withdraw.step # "idle"
        /\ \/ /\ withdraw' = [withdraw EXCEPT !.step = "commit"]
              /\ refund' = withdraw.cents
           \/ withdraw' = [step |-> "idle", cents |-> 0] /\ refund' = refund
    BY <1>7 DEF CreateRefund
  <2>2. WithdrawalTypes'
    <3>1. 0 \in 0 .. Price
      BY Money
    <3> QED BY <2>1, <3>1 DEF AccountInv, WithdrawalTypes
  <2>3. withdraw'.step # "idle" => withdraw'.cents = withdraw.cents
    BY <2>1, WithdrawalTyped
  <2> QED BY <2>1, <2>2, <2>3, AccountKept, WithdrawalTyped DEF ShareStaysFresh
<1>8. CASE WithdrawDies
  <2>1. WithdrawalTypes' /\ withdraw'.step = "idle"
    <3>1. 0 \in 0 .. Price
      BY Money
    <3> QED BY <1>8, <3>1 DEF WithdrawDies, AccountInv, WithdrawalTypes
  <2> QED BY <1>8, <2>1, AccountKept DEF WithdrawDies
<1>9. CASE CommitWithdraw
  <2>1. /\ purchase.status = "active" /\ withdraw.cents \in 0 .. Price
        /\ CompleteWithdrawal(withdraw.cents, "request") /\ UNCHANGED <<clock, refund>>
        /\ withdraw' = [step |-> "idle", cents |-> 0] /\ 0 \in 0 .. Price
    BY <1>9, WithdrawalTyped, Money DEF CommitWithdraw
  <2> QED BY <2>1, AccountWithdrawn
<1>10. CASE DeliverRefund
  <2>1. UNCHANGED <<clock, withdraw, refund>>
    BY <1>10 DEF DeliverRefund
  <2>2. CASE OurRefund(refund)
    <3>1. /\ purchase.status = "active" /\ refund \in 0 .. Price
          /\ CompleteWithdrawal(refund, "event") /\ withdraw.step = "idle"
      BY <1>10, <2>2, WithdrawalTyped DEF DeliverRefund, OurRefund
    <3>2. withdraw' \in [step: {"idle"}, cents: 0 .. Price]
      BY <2>1, <3>1 DEF AccountInv
    <3> QED BY <2>1, <3>1, <3>2, AccountWithdrawn
  <2>3. CASE ~ OurRefund(refund)
    BY <1>2, <1>10, <2>1, <2>3 DEF DeliverRefund, accountVars
  <2> QED BY <2>2, <2>3
<1>11. ASSUME NEW event \in CheckoutEvents, DeliverCheckout(event) PROVE AccountInv'
  BY <1>11, AccountCredited
<1>12. ASSUME NEW ref \in Debits, Reverse(ref) \/ \E amount \in Amounts : Debit(ref, amount)
       PROVE  AccountInv'
  BY <1>12, AccountDebited
<1>13. ASSUME NEW i \in DOMAIN entries, Expire(i) PROVE AccountInv'
  BY <1>13, AccountExpired
<1>14. CASE UNCHANGED ledgerVars
  BY <1>2, <1>14 DEF ledgerVars
<1> QED BY <1>3, <1>4, <1>5, <1>6, <1>7, <1>8, <1>9, <1>10, <1>11, <1>12, <1>13, <1>14,
           LedgerMoves DEF LedgerNext, BeginWithdraw

\* The account is kept throughout.
LEMMA AccountIsKept == Spec => []AccountInv
<1>1. AccountInv /\ [Next]_vars => AccountInv'
  BY AccountNext
<1> QED BY AccountInit, <1>1, PTL DEF Spec

\* billing/services.py: debits, reversals, expiry and withdrawal take and bring
\* what their entries say, in whatever order they come.
THEOREM EntriesBalance == Spec => []LedgerBalances
<1>1. AccountInv => LedgerBalances
  BY DEF AccountInv
<1> QED BY AccountIsKept, <1>1, PTL

\* withdrawal.py: the locks of a withdrawal keep the share it refunds what the
\* tokens used by then are worth, until it commits.
THEOREM ShareIsFresh == Spec => []ShareStaysFresh
<1>1. AccountInv => ShareStaysFresh
  BY DEF AccountInv
<1> QED BY AccountIsKept, <1>1, PTL

-------------------------------------------------------------------------------
(* The account as its owner sees it.  The rows of one kind are one number of *)
(* the abstract account; a step that writes a row changes these numbers by   *)
(* what it takes and brings.                                                 *)

\* The rows whose tokens a credit of this kind still offers.
Live(kind) == {i \in DOMAIN entries : entries[i].kind = kind /\ ~Expired(entries[i])}
DebitRows(ref) == {i \in DOMAIN entries : entries[i].kind = "debit" /\ entries[i].ref = ref}

\* The columns the account adds up are sums over finite sets of rows.
LEMMA SumsOfRows ==
  ASSUME Booked
  PROVE  /\ IsFiniteSet(DOMAIN entries)
         /\ \A i \in DOMAIN entries :
              /\ Remaining[i] \in Nat /\ Remaining[i] = entries[i].remaining
              /\ Minus[i] \in Nat /\ Minus[i] = entries[i].minus
         /\ \A kind : /\ IsFiniteSet(Live(kind)) /\ Live(kind) \subseteq DOMAIN entries
                      /\ TokensOf(kind) = Sum(Remaining, Live(kind))
                      /\ TokensOf(kind) \in Nat
         /\ \A ref : /\ IsFiniteSet(DebitRows(ref)) /\ DebitRows(ref) \subseteq DOMAIN entries
                     /\ DebitedTo(ref) = Sum(Minus, DebitRows(ref))
                     /\ DebitedTo(ref) \in Nat
<1>1. IsFiniteSet(DOMAIN entries)
  <2>1. DOMAIN entries = 1 .. Len(entries) /\ Len(entries) \in Int /\ 1 \in Int
    BY Columns
  <2> QED BY <2>1, FS_Interval
<1>2. \A i \in DOMAIN entries : /\ Remaining[i] \in Nat /\ Remaining[i] = entries[i].remaining
                                /\ Minus[i] \in Nat /\ Minus[i] = entries[i].minus
  BY Columns DEF Numbers, Remaining, Minus
<1>3. ASSUME NEW kind
      PROVE  /\ IsFiniteSet(Live(kind)) /\ Live(kind) \subseteq DOMAIN entries
             /\ TokensOf(kind) = Sum(Remaining, Live(kind))
             /\ TokensOf(kind) \in Nat
  <2>1. Live(kind) \subseteq DOMAIN entries
    BY DEF Live
  <2>2. IsFiniteSet(Live(kind))
    BY <1>1, <2>1, FS_Subset
  <2>3. TokensOf(kind) = Sum(Remaining, Live(kind))
    BY DEF TokensOf, Total, Sum, Live
  <2>4. \A i \in Live(kind) : Remaining[i] \in Nat
    BY <1>2, <2>1
  <2> QED BY <2>1, <2>2, <2>3, <2>4, SumNatural
<1>4. ASSUME NEW ref
      PROVE  /\ IsFiniteSet(DebitRows(ref)) /\ DebitRows(ref) \subseteq DOMAIN entries
             /\ DebitedTo(ref) = Sum(Minus, DebitRows(ref))
             /\ DebitedTo(ref) \in Nat
  <2>1. DebitRows(ref) \subseteq DOMAIN entries
    BY DEF DebitRows
  <2>2. IsFiniteSet(DebitRows(ref))
    BY <1>1, <2>1, FS_Subset
  <2>3. DebitedTo(ref) = Sum(Minus, DebitRows(ref))
    BY DEF DebitedTo, Total, Sum, DebitRows
  <2>4. \A i \in DebitRows(ref) : Minus[i] \in Nat
    BY <1>2, <2>1
  <2> QED BY <2>1, <2>2, <2>3, <2>4, SumNatural
<1> QED BY <1>1, <1>2, <1>3, <1>4

\* What a row more, and less in the others, makes of the entries.
LEMMA RowsAfter ==
  ASSUME Booked, NEW row, NEW taken, Grows(row, taken)
  PROVE  /\ Len(entries) + 1 \notin DOMAIN entries
         /\ DOMAIN entries' = DOMAIN entries \cup {Len(entries) + 1}
         /\ entries'[Len(entries) + 1] = row /\ row \in Rows /\ row.kind # "grant"
         /\ \A i \in DOMAIN entries :
              /\ entries'[i].kind = entries[i].kind /\ entries'[i].ref = entries[i].ref
              /\ entries'[i].minus = entries[i].minus /\ taken[i] \in 0 .. Remaining[i]
              /\ entries'[i].remaining = Remaining[i] - taken[i]
<1>1. /\ Len(entries) \in Nat /\ DOMAIN entries = 1 .. Len(entries)
      /\ \A i \in DOMAIN entries : entries[i] \in Rows
  BY Columns
<1>2. /\ DOMAIN entries' = 1 .. Len(entries) + 1 /\ entries'[Len(entries) + 1] = row
      /\ \A i \in DOMAIN entries :
           entries'[i] = [entries[i] EXCEPT !.remaining = Remaining[i] - taken[i]]
  BY DEF Grows, Writes
<1>3. Len(entries) + 1 \notin DOMAIN entries /\ DOMAIN entries' = DOMAIN entries \cup {Len(entries) + 1}
  BY <1>1, <1>2
<1>4. row \in Rows /\ row.kind # "grant" /\ \A i \in DOMAIN entries : taken[i] \in 0 .. Remaining[i]
  BY DEF Grows
<1>5. \A i \in DOMAIN entries :
        /\ entries'[i].kind = entries[i].kind /\ entries'[i].ref = entries[i].ref
        /\ entries'[i].minus = entries[i].minus
        /\ entries'[i].remaining = Remaining[i] - taken[i]
  BY <1>1, <1>2 DEF Rows
<1> QED BY <1>2, <1>3, <1>4, <1>5

\* What is taken of a column is gone from its sum.
LEMMA SumLess ==
  ASSUME NEW S, IsFiniteSet(S), NEW f, \A i \in S : f[i] \in Nat,
         NEW taken, \A i \in S : taken[i] \in 0 .. f[i],
         NEW g, \A i \in S : g[i] = f[i] - taken[i]
  PROVE  /\ Sum(f, S) = Sum(g, S) + Sum(taken, S)
         /\ Sum(g, S) \in Nat /\ Sum(taken, S) \in Nat
<1>1. \A i \in S : f[i] \in Nat /\ g[i] \in Nat /\ taken[i] \in Nat /\ f[i] = g[i] + taken[i]
  OBVIOUS
<1>2. Sum(f, S) = Sum(g, S) + Sum(taken, S)
  BY <1>1, SumAdds
<1>3. Sum(g, S) \in Nat /\ Sum(taken, S) \in Nat
  BY <1>1, SumNatural
<1> QED BY <1>2, <1>3

\* An element more adds its value to the sum.
LEMMA SumGets ==
  ASSUME NEW S, IsFiniteSet(S), NEW g, \A i \in S : g[i] \in Nat,
         NEW n, n \notin S, g[n] \in Nat
  PROVE  Sum(g, S \cup {n}) = Sum(g, S) + g[n]
<1> DEFINE T == S \cup {n}
<1>1. IsFiniteSet(T) /\ n \in T /\ T \ {n} = S
  BY FS_AddElement
<1>2. \A i \in T : g[i] \in Nat
  OBVIOUS
<1>3. Sum(g, S) \in Nat
  BY SumNatural
<1> HIDE DEF T
<1>4. Sum(g, T) = g[n] + Sum(g, S)
  BY <1>1, <1>2, SumRemoves
<1> QED BY <1>3, <1>4 DEF T

\* A step that writes a row: what each kind of credit offers afterwards.
LEMMA TokensAfter ==
  ASSUME Booked, NEW row, NEW taken, Grows(row, taken), Booked',
         (clock >= 1) <=> (clock' >= 1),
         NEW kind \in {"grant", "purchase", "adjustment"}
  PROVE  /\ TokensOf(kind)' + Sum(taken, Live(kind))
              = TokensOf(kind) + IF row.kind = kind THEN row.remaining ELSE 0
         /\ Sum(taken, Live(kind)) \in Nat /\ TokensOf(kind)' \in Nat
<1> DEFINE n == Len(entries) + 1
           S == Live(kind)
           T == S \cup IF row.kind = kind THEN {n} ELSE {}
           left_ == Remaining'
<1>1. /\ n \notin DOMAIN entries /\ DOMAIN entries' = DOMAIN entries \cup {n}
      /\ entries'[n] = row /\ row \in Rows /\ row.kind # "grant"
      /\ \A i \in DOMAIN entries :
           /\ entries'[i].kind = entries[i].kind
           /\ taken[i] \in 0 .. Remaining[i]
           /\ entries'[i].remaining = Remaining[i] - taken[i]
  BY RowsAfter
<1>2. /\ IsFiniteSet(S) /\ S \subseteq DOMAIN entries /\ TokensOf(kind) = Sum(Remaining, S)
      /\ \A i \in DOMAIN entries : Remaining[i] \in Nat
  BY SumsOfRows
<1>3. Live(kind)' = T
  <2>1. \A i : i \in Live(kind)' <=> /\ i \in DOMAIN entries' /\ entries'[i].kind = kind
                                     /\ ~ (entries'[i].kind = "grant" /\ clock' >= 1)
    BY DEF Live, Expired
  <2>2. \A i : i \in S <=> /\ i \in DOMAIN entries /\ entries[i].kind = kind
                           /\ ~ (entries[i].kind = "grant" /\ clock >= 1)
    BY DEF Live, Expired
  <2> HIDE DEF n, S
  <2>3. \A i : i \in Live(kind)' <=> i \in T
    BY <1>1, <2>1, <2>2
  <2> QED BY <2>3
<1>4. TokensOf(kind)' = Sum(left_, Live(kind)')
  <2>1. TokensOf(kind)' = Total(left_, Live(kind)')
    BY DEF TokensOf, Live
  <2> HIDE DEF left_
  <2> QED BY <2>1 DEF Total, Sum
<1>5. /\ \A i \in S : left_[i] = Remaining[i] - taken[i]
      /\ left_[n] = row.remaining /\ row.remaining \in Nat
  BY <1>1, <1>2 DEF Remaining, Rows
<1>6. \A i \in S : Remaining[i] \in Nat /\ taken[i] \in 0 .. Remaining[i] /\ taken[i] \in Nat
  BY <1>1, <1>2
<1>7. n \notin S
  BY <1>1, <1>2
<1> HIDE DEF n, S, left_
<1>8. /\ Sum(left_, S) + Sum(taken, S) = Sum(Remaining, S)
      /\ Sum(left_, S) \in Nat /\ Sum(taken, S) \in Nat
      /\ Sum(left_, S \cup {n}) = Sum(left_, S) + left_[n]
  <2>1. /\ \A i \in S : Remaining[i] \in Nat
        /\ \A i \in S : taken[i] \in 0 .. Remaining[i]
        /\ \A i \in S : left_[i] = Remaining[i] - taken[i]
        /\ \A i \in S : left_[i] \in Nat
    BY <1>5, <1>6
  <2>2. IsFiniteSet(S) /\ n \notin S /\ left_[n] \in Nat
    BY <1>2, <1>5, <1>7
  <2>3. Sum(left_, S \cup {n}) = Sum(left_, S) + left_[n]
    BY <2>1, <2>2, SumGets
  <2>4. /\ Sum(Remaining, S) = Sum(left_, S) + Sum(taken, S)
        /\ Sum(left_, S) \in Nat /\ Sum(taken, S) \in Nat
    BY <2>1, <2>2, SumLess
  <2> QED BY <2>3, <2>4
<1>9. TokensOf(kind)' = Sum(left_, T)
  BY <1>3, <1>4
<1>10. CASE row.kind = kind
  <2>1. T = S \cup {n}
    BY <1>10
  <2> HIDE DEF T
  <2> QED BY <1>2, <1>5, <1>8, <1>9, <1>10, <2>1 DEF S
<1>11. CASE row.kind # kind
  <2>1. T = S
    BY <1>11
  <2> HIDE DEF T
  <2> QED BY <1>2, <1>5, <1>8, <1>9, <1>11, <2>1 DEF S
<1> QED BY <1>10, <1>11

\* What a row more makes of the debits and the reversals.
LEMMA DebitsAfter ==
  ASSUME Booked, NEW row, NEW taken, Grows(row, taken), Booked', NEW ref
  PROVE  /\ DebitedTo(ref)' = DebitedTo(ref) + IF row.kind = "debit" /\ row.ref = ref
                                               THEN row.minus ELSE 0
         /\ \A kind : Has(kind, ref)' <=> Has(kind, ref) \/ (row.kind = kind /\ row.ref = ref)
<1> DEFINE n == Len(entries) + 1
           S == DebitRows(ref)
           T == S \cup IF row.kind = "debit" /\ row.ref = ref THEN {n} ELSE {}
           minus == Minus'
<1>1. /\ n \notin DOMAIN entries /\ DOMAIN entries' = DOMAIN entries \cup {n}
      /\ entries'[n] = row /\ row \in Rows
      /\ \A i \in DOMAIN entries :
           /\ entries'[i].kind = entries[i].kind /\ entries'[i].ref = entries[i].ref
           /\ entries'[i].minus = entries[i].minus
  BY RowsAfter
<1>2. /\ IsFiniteSet(S) /\ S \subseteq DOMAIN entries /\ DebitedTo(ref) = Sum(Minus, S)
      /\ DebitedTo(ref) \in Nat
      /\ \A i \in DOMAIN entries : Minus[i] \in Nat /\ Minus[i] = entries[i].minus
  BY SumsOfRows
<1>3. DebitRows(ref)' = T
  <2>1. \A i : i \in DebitRows(ref)' <=>
                 i \in DOMAIN entries' /\ entries'[i].kind = "debit" /\ entries'[i].ref = ref
    BY DEF DebitRows
  <2>2. \A i : i \in S <=>
                 i \in DOMAIN entries /\ entries[i].kind = "debit" /\ entries[i].ref = ref
    BY DEF DebitRows
  <2> HIDE DEF n, S
  <2>3. \A i : i \in DebitRows(ref)' <=> i \in T
    BY <1>1, <2>1, <2>2
  <2> QED BY <2>3
<1>4. DebitedTo(ref)' = Sum(minus, DebitRows(ref)')
  <2>1. DebitedTo(ref)' = Total(minus, DebitRows(ref)')
    BY DEF DebitedTo, DebitRows
  <2> HIDE DEF minus
  <2> QED BY <2>1 DEF Total, Sum
<1>5. /\ \A i \in S : Minus[i] \in Nat /\ minus[i] = Minus[i]
      /\ minus[n] = row.minus /\ row.minus \in Nat
  BY <1>1, <1>2 DEF Minus, Rows
<1>6. n \notin S
  BY <1>1, <1>2
<1>7. \A kind : Has(kind, ref)' <=> Has(kind, ref) \/ (row.kind = kind /\ row.ref = ref)
  <2> TAKE kind
  <2>1. Has(kind, ref)' <=>
          \E i \in DOMAIN entries' : entries'[i].kind = kind /\ entries'[i].ref = ref
    BY DEF Has
  <2> HIDE DEF n
  <2> QED BY <1>1, <2>1 DEF Has
<1> HIDE DEF n, S, minus
<1>8. Sum(minus, S) = Sum(Minus, S)
  <2>1. (\A i \in S : Minus[i] \in Nat) /\ (\A i \in S : minus[i] = Minus[i])
    BY <1>5
  <2> QED BY <1>2, <2>1, SumAgrees
<1>9. Sum(minus, S \cup {n}) = Sum(minus, S) + minus[n]
  <2>1. (\A i \in S : minus[i] \in Nat) /\ minus[n] \in Nat
    BY <1>5
  <2> QED BY <1>2, <1>6, <2>1, SumGets
<1>10. CASE row.kind = "debit" /\ row.ref = ref
  <2>1. T = S \cup {n}
    BY <1>10
  <2> HIDE DEF T
  <2> QED BY <1>2, <1>3, <1>4, <1>5, <1>7, <1>8, <1>9, <1>10, <2>1
<1>11. CASE ~ (row.kind = "debit" /\ row.ref = ref)
  <2>1. T = S
    BY <1>11
  <2> HIDE DEF T
  <2> QED BY <1>2, <1>3, <1>4, <1>5, <1>7, <1>8, <1>11, <2>1
<1> QED BY <1>10, <1>11

\* The quotient of naturals, by what it leaves.
LEMMA Quotient ==
  ASSUME NEW T \in Nat \ {0}, NEW n \in Nat
  PROVE  n \div T \in Nat /\ T * (n \div T) <= n /\ n < T * (n \div T) + T
OBVIOUS

\* A multiple that is less than another and one more is not of more.
LEMMA QuotientBelow ==
  ASSUME NEW T \in Nat \ {0}, NEW a \in Nat, NEW b \in Nat, T * a < T * b + T
  PROVE  a <= b
<1> SUFFICES ASSUME a > b PROVE FALSE
  OBVIOUS
<1>1. PICK more \in Nat : a = b + 1 + more
  <2>1. a - b - 1 \in Nat /\ a = b + 1 + (a - b - 1)
    OBVIOUS
  <2> QED BY <2>1
<1>2. T * a = T * b + T + T * more
  BY <1>1
<1>3. T * more \in Nat /\ T * b \in Nat
  BY <1>1
<1> QED BY <1>2, <1>3

\* To keep the used tokens' share rounded up is to pay the others' rounded down.
LEMMA RestIsPaid ==
  ASSUME NEW T \in Nat \ {0}, NEW price \in Nat, NEW rest \in 0 .. T
  PROVE  price - CeilDiv((T - rest) * price, T) = (rest * price) \div T
<1> DEFINE kept == (T - rest) * price
           paid == rest * price
           c == (kept + T - 1) \div T
           q == paid \div T
<1>1. kept \in Nat /\ paid \in Nat /\ kept + paid = T * price
  <2>1. PICK used \in Nat : T = used + rest
    <3>1. T - rest \in Nat /\ T = (T - rest) + rest
      OBVIOUS
    <3> QED BY <3>1
  <2>2. T * price = used * price + rest * price
    BY <2>1
  <2>3. T - rest = used
    BY <2>1
  <2>4. used * price \in Nat /\ rest * price \in Nat
    BY <2>1
  <2> QED BY <2>2, <2>3, <2>4
<1> HIDE DEF kept, paid
<1>2. kept + T - 1 \in Nat
  BY <1>1
<1>3. c \in Nat /\ T * c <= kept + T - 1 /\ kept + T - 1 < T * c + T
  BY <1>2, Quotient
<1>4. q \in Nat /\ T * q <= paid /\ paid < T * q + T
  BY <1>1, Quotient
<1> HIDE DEF c, q
<1>5. T * (q + c) = T * q + T * c /\ T * q \in Nat /\ T * c \in Nat /\ T * price \in Nat
  BY <1>3, <1>4
<1>6. q + c \in Nat
  BY <1>3, <1>4
<1>7. T * (q + c) < T * price + T /\ T * price < T * (q + c) + T
  BY <1>1, <1>3, <1>4, <1>5
<1>8. q + c <= price /\ price <= q + c
  BY <1>6, <1>7, QuotientBelow
<1>9. price - c = q
  BY <1>3, <1>4, <1>8
<1> QED BY <1>9 DEF CeilDiv, c, q, kept, paid

\* Fewer tokens are not worth more.
LEMMA FewerAreWorthLess ==
  ASSUME NEW T \in Nat \ {0}, NEW price \in Nat, NEW more \in Nat, NEW less \in 0 .. more
  PROVE  (less * price) \div T <= (more * price) \div T
<1> DEFINE p == less * price
           r == more * price
<1>1. p \in Nat /\ r \in Nat /\ p <= r
  <2>1. PICK d \in Nat : more = less + d
    <3>1. more - less \in Nat /\ more = less + (more - less)
      OBVIOUS
    <3> QED BY <3>1
  <2>2. more * price = less * price + d * price
    BY <2>1
  <2>3. d * price \in Nat /\ less * price \in Nat
    BY <2>1
  <2> QED BY <2>2, <2>3
<1> HIDE DEF p, r
<1>2. p \div T \in Nat /\ T * (p \div T) <= p /\ p < T * (p \div T) + T
  BY <1>1, Quotient
<1>3. r \div T \in Nat /\ T * (r \div T) <= r /\ r < T * (r \div T) + T
  BY <1>1, Quotient
<1> DEFINE a == p \div T
           b == r \div T
<1> HIDE DEF a, b
<1>4. a \in Nat /\ b \in Nat /\ T * a < T * b + T
  <2>1. T * a \in Nat /\ T * b \in Nat
    BY <1>2, <1>3 DEF a, b
  <2> QED BY <1>1, <1>2, <1>3, <2>1 DEF a, b
<1> QED BY <1>4, QuotientBelow DEF a, b, p, r

\* Where the sum has one summand, or none.
LEMMA SumOfOne ==
  ASSUME NEW f, NEW x, f[x] \in Nat
  PROVE  Sum(f, {x}) = f[x]
<1>1. IsFiniteSet({x}) /\ \A y \in {x} : f[y] \in Nat
  BY FS_Singleton
<1>2. Sum(f, {x}) = f[x] + Sum(f, {x} \ {x})
  BY <1>1, SumRemoves
<1>3. {x} \ {x} = {} /\ IsFiniteSet({})
  BY FS_EmptySet
<1>4. Sum(f, {}) = 0
  BY <1>3, SumOfNothing
<1> QED BY <1>2, <1>3, <1>4

\* The grant and the package are one row each.
LEMMA TokensAre ==
  ASSUME Booked
  PROVE  /\ TokensOf("grant") = IF clock >= 1 THEN 0 ELSE entries[1].remaining
         /\ Live("grant") = IF clock >= 1 THEN {} ELSE {1}
         /\ 1 \in DOMAIN entries /\ entries[1].remaining \in Nat /\ entries[1].kind = "grant"
         /\ \A i \in DOMAIN entries :
              entries[i].kind = "purchase" => Live("purchase") = {i} /\ TokensOf("purchase") = entries[i].remaining
         /\ (\A i \in DOMAIN entries : entries[i].kind # "purchase") => TokensOf("purchase") = 0
<1>1. /\ TokensOf("grant") = Sum(Remaining, Live("grant"))
      /\ TokensOf("purchase") = Sum(Remaining, Live("purchase"))
      /\ \A i \in DOMAIN entries : Remaining[i] \in Nat /\ Remaining[i] = entries[i].remaining
  BY SumsOfRows
<1>2. Sum(Remaining, {}) = 0
  BY SumOfNothing, FS_EmptySet
<1>3. 1 \in DOMAIN entries /\ entries[1].kind = "grant"
  <2>1. Len(entries) \in Nat /\ Len(entries) # 0 /\ DOMAIN entries = 1 .. Len(entries)
    BY Columns DEF Booked
  <2>2. 1 \in DOMAIN entries
    BY <2>1
  <2> QED BY <2>2 DEF Booked
<1>4. /\ TokensOf("grant") = IF clock >= 1 THEN 0 ELSE entries[1].remaining
      /\ Live("grant") = IF clock >= 1 THEN {} ELSE {1}
  <2>1. CASE clock >= 1
    <3>1. Live("grant") = {}
      BY <2>1 DEF Live, Expired
    <3> QED BY <1>1, <1>2, <2>1, <3>1
  <2>2. CASE ~ (clock >= 1)
    <3>1. \A i : i \in Live("grant") <=> i = 1
      BY <1>3, <2>2 DEF Live, Expired, Booked
    <3>2. Live("grant") = {1}
      BY <3>1
    <3>3. Sum(Remaining, {1}) = Remaining[1]
      BY <1>1, <1>3, SumOfOne
    <3> QED BY <1>1, <1>3, <2>2, <3>2, <3>3
  <2> QED BY <2>1, <2>2
<1>5. ASSUME NEW i \in DOMAIN entries, entries[i].kind = "purchase"
      PROVE  Live("purchase") = {i} /\ TokensOf("purchase") = entries[i].remaining
  <2>1. \A j : j \in Live("purchase") <=> j = i
    BY <1>5 DEF Live, Expired, Booked
  <2>2. Live("purchase") = {i}
    BY <2>1
  <2>3. Sum(Remaining, {i}) = Remaining[i]
    BY <1>1, SumOfOne
  <2> QED BY <1>1, <2>2, <2>3
<1>6. ASSUME \A i \in DOMAIN entries : entries[i].kind # "purchase"
      PROVE  TokensOf("purchase") = 0
  <2>1. Live("purchase") = {}
    BY <1>6 DEF Live
  <2> QED BY <1>1, <1>2, <2>1
<1> QED BY <1>1, <1>3, <1>4, <1>5, <1>6

\* The refund is what the unused tokens are worth.
LEMMA RefundIsWorth ==
  ASSUME Booked, NEW i \in DOMAIN entries, entries[i].kind = "purchase"
  PROVE  /\ entries[i].remaining \in 0 .. Tokens
         /\ RefundAmount = (entries[i].remaining * Price) \div Tokens
<1>1. Package = i /\ entries[i].plus = Tokens
  BY PackageIs
<1>2. entries[i] \in Rows /\ entries[i].remaining <= entries[i].plus
  BY Columns DEF Booked
<1>3. Tokens \in Nat \ {0} /\ Price \in Nat /\ entries[i].remaining \in 0 .. Tokens
  BY <1>1, <1>2, Money DEF Rows
<1>4. Price - CeilDiv((Tokens - entries[i].remaining) * Price, Tokens)
        = (entries[i].remaining * Price) \div Tokens
  BY <1>3, RestIsPaid
<1> QED BY <1>1, <1>3, <1>4 DEF RefundAmount, Consumed

\* There is no package before its payment, no two debits have one reference, and
\* what Stripe has refunded covers the tokens the package still has.
DebitsInv ==
  /\ purchase.status = "none" =>
       refund = 0 /\ \A i \in DOMAIN entries : entries[i].kind # "purchase"
  /\ \A i, j \in DOMAIN entries :
       entries[i].kind = "debit" /\ entries[j].kind = "debit" /\ entries[i].ref = entries[j].ref
         => i = j
  /\ \A i \in DOMAIN entries : entries[i].kind = "debit" => entries[i].minus > 0
  /\ refund > 0 /\ purchase.status = "active" => refund >= RefundAmount

\* A row more: a debit under a new reference, or a package that is paid for.
LEMMA DebitsGrown ==
  ASSUME AccountInv, AccountInv', DebitsInv, NEW row, NEW taken, Grows(row, taken),
         row.kind = "debit" => row.minus > 0 /\ ~Has("debit", row.ref),
         row.kind = "purchase" => purchase'.status # "none",
         refund' = refund,
         \/ purchase'.status \in {purchase.status, "withdrawn"}
         \/ purchase.status = "none"
  PROVE  DebitsInv'
<1> DEFINE n == Len(entries) + 1
<1>1. /\ n \notin DOMAIN entries /\ DOMAIN entries' = DOMAIN entries \cup {n}
      /\ entries'[n] = row /\ row \in Rows
      /\ \A i \in DOMAIN entries :
           /\ entries'[i].kind = entries[i].kind /\ entries'[i].ref = entries[i].ref
           /\ entries'[i].minus = entries[i].minus /\ taken[i] \in 0 .. Remaining[i]
           /\ entries'[i].remaining = Remaining[i] - taken[i]
  BY RowsAfter, WithdrawalTyped
<1> HIDE DEF n
<1>2. Booked /\ Booked'
  BY DEF AccountInv
<1>3. purchase'.status = "none" =>
        refund' = 0 /\ \A i \in DOMAIN entries' : entries'[i].kind # "purchase"
  <2> SUFFICES ASSUME purchase'.status = "none"
               PROVE  refund' = 0 /\ \A i \in DOMAIN entries' : entries'[i].kind # "purchase"
    OBVIOUS
  <2>1. purchase.status = "none"
    OBVIOUS
  <2> QED BY <1>1, <2>1 DEF DebitsInv
<1>4. ASSUME NEW i \in DOMAIN entries', NEW j \in DOMAIN entries', entries'[i].kind = "debit",
             entries'[j].kind = "debit", entries'[i].ref = entries'[j].ref
      PROVE  i = j
  BY <1>1, <1>4 DEF DebitsInv, Has
<1>5. \A i \in DOMAIN entries' : entries'[i].kind = "debit" => entries'[i].minus > 0
  BY <1>1 DEF DebitsInv
<1>6. ASSUME refund' > 0, purchase'.status = "active"
      PROVE  refund' >= RefundAmount'
  <2>0. refund > 0
    BY <1>6
  <2>1. purchase.status = "active"
    BY <1>6, <2>0 DEF DebitsInv
  <2>2. PICK i \in DOMAIN entries : entries[i].kind = "purchase"
    BY <2>1, WithdrawalTyped
  <2>3. i \in DOMAIN entries' /\ entries'[i].kind = "purchase"
        /\ entries'[i].remaining = entries[i].remaining - taken[i]
        /\ taken[i] \in 0 .. entries[i].remaining
    BY <1>1, <2>2 DEF Remaining
  <2>4. RefundAmount = (entries[i].remaining * Price) \div Tokens
        /\ entries[i].remaining \in 0 .. Tokens
    BY <1>2, <2>2, RefundIsWorth
  <2>5. RefundAmount' = (entries'[i].remaining * Price) \div Tokens
    <3>1. Package' \in DOMAIN entries' /\ entries'[Package'].kind = "purchase"
      BY <2>3 DEF Package
    <3>2. Package' = i /\ entries'[i].plus = Tokens
      BY <1>2, <2>3, <3>1 DEF Booked
    <3>3. Tokens \in Nat \ {0} /\ Price \in Nat /\ entries'[i].remaining \in 0 .. Tokens
      BY <2>3, <2>4, Money
    <3>4. Price - CeilDiv((Tokens - entries'[i].remaining) * Price, Tokens)
            = (entries'[i].remaining * Price) \div Tokens
      BY <3>3, RestIsPaid
    <3>5. RefundAmount' = Price - CeilDiv((Tokens - entries'[i].remaining) * Price, Tokens)
      BY <3>2 DEF RefundAmount, Consumed
    <3> QED BY <3>4, <3>5
  <2>6. Tokens \in Nat \ {0} /\ Price \in Nat /\ entries[i].remaining \in Nat
        /\ entries'[i].remaining \in 0 .. entries[i].remaining
    BY <2>3, <2>4, Money
  <2>7. RefundAmount' <= RefundAmount
    BY <2>4, <2>5, <2>6, FewerAreWorthLess
  <2>8. refund >= RefundAmount
    BY <2>0, <2>1 DEF DebitsInv
  <2>9. RefundAmount \in Int /\ RefundAmount' \in Int /\ refund \in Int
    <3>1. RefundAmount \in 0 .. Price
      BY <1>2, <2>2, PackageIs
    <3>2. (entries'[i].remaining * Price) \div Tokens \in Nat
      <4>1. entries'[i].remaining * Price \in Nat
        BY <2>6
      <4> QED BY <2>6, <4>1, Quotient
    <3>3. refund \in 0 .. Price
      BY WithdrawalTyped
    <3> QED BY <2>5, <2>6, <3>1, <3>2, <3>3
  <2> QED BY <2>7, <2>8, <2>9
<1> QED BY <1>3, <1>4, <1>5, <1>6 DEF DebitsInv

\* The entries stay: the refund may be made, and be that of the withdrawal.
LEMMA DebitsKept ==
  ASSUME AccountInv, DebitsInv, entries' = entries,
         \/ purchase'.status \in {purchase.status, "withdrawn"} /\ refund' = refund
         \/ /\ purchase' = purchase /\ refund' = RefundAmount /\ purchase.status # "none"
  PROVE  DebitsInv'
<1>1. RefundAmount' = RefundAmount
  BY EntriesKept, WithdrawalTyped
<1>2. CASE purchase'.status \in {purchase.status, "withdrawn"} /\ refund' = refund
  BY <1>1, <1>2 DEF DebitsInv
<1>3. CASE purchase' = purchase /\ refund' = RefundAmount /\ purchase.status # "none"
  <2>1. RefundAmount \in 0 .. Price
    BY <1>3, WithdrawalTyped, PackageIs
  <2> QED BY <1>1, <1>3, <2>1, Money DEF DebitsInv
<1> QED BY <1>2, <1>3

DebitedBy == [ref \in Debits |-> DebitedTo(ref)]
Undone == {ref \in Debits : Has("adjustment", ref)}

\* The entries stay: so does what they add up to, but for a grant that lapses.
LEMMA EntriesStay ==
  ASSUME entries' = entries
  PROVE  /\ \A kind : kind # "grant" \/ ((clock >= 1) <=> (clock' >= 1))
                      => TokensOf(kind)' = TokensOf(kind)
         /\ DebitedBy' = DebitedBy /\ Undone' = Undone
<1>1. Remaining' = Remaining /\ Minus' = Minus
  BY DEF Remaining, Minus
<1>2. ASSUME NEW kind, kind # "grant" \/ ((clock >= 1) <=> (clock' >= 1))
      PROVE  TokensOf(kind)' = TokensOf(kind)
  <2>1. \A i : i \in Live(kind)' <=> i \in Live(kind)
    BY <1>2 DEF Live, Expired
  <2>2. Live(kind)' = Live(kind)
    BY <2>1
  <2>3. TokensOf(kind) = Total(Remaining, Live(kind))
    BY DEF TokensOf, Live
  <2>4. TokensOf(kind)' = Total(Remaining', Live(kind)')
    BY DEF TokensOf, Live
  <2> QED BY <1>1, <2>2, <2>3, <2>4
<1>3. DebitedBy' = DebitedBy
  <2>1. ASSUME NEW ref
        PROVE  DebitedTo(ref)' = DebitedTo(ref)
    <3>1. DebitRows(ref)' = DebitRows(ref)
      BY DEF DebitRows
    <3>2. DebitedTo(ref) = Total(Minus, DebitRows(ref))
      BY DEF DebitedTo, DebitRows
    <3>3. DebitedTo(ref)' = Total(Minus', DebitRows(ref)')
      BY DEF DebitedTo, DebitRows
    <3> QED BY <1>1, <3>1, <3>2, <3>3
  <2> QED BY <2>1 DEF DebitedBy
<1>4. Undone' = Undone
  BY DEF Undone, Has
<1> QED BY <1>2, <1>3, <1>4

\* The purchase stays too, and the grant does not lapse: nothing happened.
LEMMA AccountStutters ==
  ASSUME entries' = entries, (clock >= 1) <=> (clock' >= 1), purchase' = purchase
  PROVE  UNCHANGED AtomicAccount!vars
<1>1. (clock >= 1)' = (clock >= 1)
  OBVIOUS
<1> QED BY <1>1, EntriesStay DEF AtomicAccount!vars, DebitedBy, Undone

\* A row more: what the kinds of credit offer, what is debited and undone.
LEMMA AccountPosts ==
  ASSUME Booked, Booked', NEW row, NEW taken, Grows(row, taken), (clock >= 1) <=> (clock' >= 1)
  PROVE  /\ \A kind \in {"grant", "purchase", "adjustment"} :
              /\ TokensOf(kind)' + Sum(taken, Live(kind))
                   = TokensOf(kind) + IF row.kind = kind THEN row.remaining ELSE 0
              /\ Sum(taken, Live(kind)) \in Nat
              /\ TokensOf(kind) \in Nat /\ TokensOf(kind)' \in Nat
         /\ row.kind # "debit" => DebitedBy' = DebitedBy
         /\ row.kind # "adjustment" => Undone' = Undone
         /\ \A ref \in Debits :
              /\ row.kind = "debit" /\ row.ref = ref /\ ~Has("debit", ref) =>
                   /\ DebitedBy[ref] = 0
                   /\ DebitedBy' = [DebitedBy EXCEPT ![ref] = row.minus]
              /\ row.kind = "adjustment" /\ row.ref = ref => Undone' = Undone \cup {ref}
<1>1. \A kind \in {"grant", "purchase", "adjustment"} :
        /\ TokensOf(kind)' + Sum(taken, Live(kind))
             = TokensOf(kind) + IF row.kind = kind THEN row.remaining ELSE 0
        /\ Sum(taken, Live(kind)) \in Nat
        /\ TokensOf(kind) \in Nat /\ TokensOf(kind)' \in Nat
  BY TokensAfter, SumsOfRows
<1>2. ASSUME NEW ref
      PROVE  /\ DebitedTo(ref)' = DebitedTo(ref) + IF row.kind = "debit" /\ row.ref = ref
                                                   THEN row.minus ELSE 0
             /\ \A kind : Has(kind, ref)' <=> Has(kind, ref) \/ (row.kind = kind /\ row.ref = ref)
             /\ DebitedTo(ref) \in Nat
             /\ ~Has("debit", ref) => DebitedTo(ref) = 0
             /\ row.minus \in Nat
  <2>1. DebitedTo(ref) \in Nat /\ DebitedTo(ref) = Sum(Minus, DebitRows(ref))
    BY SumsOfRows
  <2>2. ~Has("debit", ref) => DebitRows(ref) = {}
    BY DEF Has, DebitRows
  <2>3. Sum(Minus, {}) = 0
    BY SumOfNothing, FS_EmptySet
  <2>4. row.minus \in Nat
    BY DEF Grows, Rows
  <2> QED BY <2>1, <2>2, <2>3, <2>4, DebitsAfter
<1>3. row.kind # "debit" => DebitedBy' = DebitedBy
  <2>1. ASSUME row.kind # "debit", NEW ref
        PROVE  DebitedTo(ref)' = DebitedTo(ref)
    BY <1>2, <2>1
  <2> QED BY <2>1 DEF DebitedBy
<1>4. row.kind # "adjustment" => Undone' = Undone
  BY <1>2 DEF Undone
<1>5. ASSUME NEW ref \in Debits
      PROVE  /\ row.kind = "debit" /\ row.ref = ref /\ ~Has("debit", ref) =>
                  /\ DebitedBy[ref] = 0
                  /\ DebitedBy' = [DebitedBy EXCEPT ![ref] = row.minus]
             /\ row.kind = "adjustment" /\ row.ref = ref => Undone' = Undone \cup {ref}
  <2>1. ASSUME row.kind = "debit", row.ref = ref, ~Has("debit", ref)
        PROVE  /\ DebitedBy[ref] = 0
               /\ DebitedBy' = [DebitedBy EXCEPT ![ref] = row.minus]
    <3>1. DebitedTo(ref) = 0 /\ DebitedTo(ref)' = row.minus
      BY <1>2, <2>1
    <3>2. \A r \in Debits \ {ref} : DebitedTo(r)' = DebitedTo(r)
      BY <1>2, <2>1
    <3> QED BY <3>1, <3>2 DEF DebitedBy
  <2>2. ASSUME row.kind = "adjustment", row.ref = ref
        PROVE  Undone' = Undone \cup {ref}
    BY <1>2, <2>2 DEF Undone
  <2> QED BY <2>1, <2>2
<1> QED BY <1>1, <1>3, <1>4, <1>5

\* What leaves a kind of credit alone takes nothing from its rows.
LEMMA NothingTaken ==
  ASSUME Booked, NEW kind, NEW taken, \A i \in Live(kind) : taken[i] = 0
  PROVE  Sum(taken, Live(kind)) = 0
BY SumsOfRows, SumOfNothing

\* The first paid event buys the package.
LEMMA BuysOnce ==
  ASSUME AccountInv, AccountInv', DebitsInv, NEW event, DeliverCheckout(event)
  PROVE  AtomicAccount!Buy \/ UNCHANGED AtomicAccount!vars
<1>1. UNCHANGED <<clock, withdraw, refund>>
  BY DEF DeliverCheckout
<1>2. CASE purchase.status = "none" /\ Paid(event)
  <2>1. \A i \in DOMAIN entries : entries[i].kind # "purchase"
    BY <1>2 DEF DebitsInv
  <2>2. /\ entries' = Append(entries, Entry("purchase", "package", Tokens, 0))
        /\ purchase' = [purchase EXCEPT !.status = "active"]
    BY <1>2, <2>1 DEF DeliverCheckout, Credited, CreatedPurchase
  <2> DEFINE row == Entry("purchase", "package", Tokens, 0)
             taken == [i \in DOMAIN entries |-> 0]
  <2>3. Grows(row, taken) /\ Booked /\ Booked'
    <3>1. Booked /\ Booked'
      BY DEF AccountInv
    <3>2. Grows(row, taken)
      BY <2>1, <2>2, <3>1, GrowsByCredit, Money DEF Refs
    <3> QED BY <3>1, <3>2
  <2>4. row.kind = "purchase" /\ row.remaining = Tokens
    BY DEF Entry
  <2>5. \A kind : Sum(taken, Live(kind)) = 0
    <3>1. \A kind : \A i \in Live(kind) : taken[i] = 0
      BY DEF Live
    <3> HIDE DEF taken
    <3> QED BY <2>3, <3>1, NothingTaken
  <2> HIDE DEF row, taken
  <2>6. /\ \A kind \in {"grant", "purchase", "adjustment"} :
              /\ TokensOf(kind)' + Sum(taken, Live(kind))
                   = TokensOf(kind) + IF row.kind = kind THEN row.remaining ELSE 0
              /\ Sum(taken, Live(kind)) \in Nat
              /\ TokensOf(kind) \in Nat /\ TokensOf(kind)' \in Nat
        /\ DebitedBy' = DebitedBy /\ Undone' = Undone
    BY <1>1, <2>3, <2>4, AccountPosts
  <2>7. /\ TokensOf("grant")' = TokensOf("grant")
        /\ TokensOf("adjustment")' = TokensOf("adjustment")
        /\ TokensOf("purchase")' = TokensOf("purchase") + Tokens
    BY <2>4, <2>5, <2>6
  <2>8. /\ purchase.status = "none" /\ purchase'.status = "active"
        /\ purchase'.refund = purchase.refund /\ (clock >= 1)' = (clock >= 1)
    BY <1>1, <1>2, <2>2, WithdrawalTyped
  <2> QED BY <2>6, <2>7, <2>8 DEF AtomicAccount!Buy, DebitedBy, Undone
<1>3. CASE ~ (purchase.status = "none" /\ Paid(event))
  <2>1. entries' = entries /\ purchase' = purchase
    <3>1. CASE ~ Paid(event)
      BY <3>1 DEF DeliverCheckout
    <3>2. CASE purchase.status # "none"
      BY <3>2, WithdrawalTyped DEF DeliverCheckout, Credited, CreatedPurchase
    <3> QED BY <1>3, <3>1, <3>2
  <2> QED BY <1>1, <2>1, AccountStutters
<1> QED BY <1>2, <1>3

\* A reversal gives back what the debit under its reference took.
LEMMA ReversesOnce ==
  ASSUME AccountInv, AccountInv', DebitsInv, NEW ref \in Debits, Reverse(ref)
  PROVE  AtomicAccount!Reverse(ref)
<1>1. UNCHANGED <<clock, purchase>> /\ ~Has("adjustment", ref)
  BY DEF Reverse
<1>2. PICK i \in DOMAIN entries :
        /\ entries[i].kind = "debit" /\ entries[i].ref = ref
        /\ entries' = Append(entries, Entry("adjustment", ref, entries[i].minus, 0))
  BY DEF Reverse
<1>3. Booked /\ Booked' /\ entries[i].minus \in Nat /\ entries[i].minus > 0
  <2>1. Booked /\ Booked' /\ entries[i].minus > 0
    BY <1>2 DEF AccountInv, DebitsInv
  <2> QED BY <2>1, Columns DEF Rows
<1> DEFINE row == Entry("adjustment", ref, entries[i].minus, 0)
           taken == [k \in DOMAIN entries |-> 0]
<1>4. Grows(row, taken)
  BY <1>2, <1>3, GrowsByCredit DEF Refs
<1>5. row.kind = "adjustment" /\ row.remaining = entries[i].minus /\ row.ref = ref
  BY DEF Entry
<1>6. \A kind : Sum(taken, Live(kind)) = 0
  <2>1. \A kind : \A k \in Live(kind) : taken[k] = 0
    BY DEF Live
  <2> HIDE DEF taken
  <2> QED BY <1>3, <2>1, NothingTaken
<1>7. DebitedBy[ref] = entries[i].minus
  <2>1. \A k : k \in DebitRows(ref) <=> k = i
    BY <1>2 DEF DebitRows, DebitsInv
  <2>2. DebitRows(ref) = {i}
    BY <2>1
  <2>3. DebitedTo(ref) = Sum(Minus, DebitRows(ref)) /\ Minus[i] = entries[i].minus
    BY <1>3, SumsOfRows
  <2>4. Sum(Minus, {i}) = Minus[i]
    BY <1>3, <2>3, SumOfOne
  <2> QED BY <2>2, <2>3, <2>4 DEF DebitedBy
<1> HIDE DEF row, taken
<1>8. /\ \A kind \in {"grant", "purchase", "adjustment"} :
            /\ TokensOf(kind)' + Sum(taken, Live(kind))
                 = TokensOf(kind) + IF row.kind = kind THEN row.remaining ELSE 0
            /\ Sum(taken, Live(kind)) \in Nat
            /\ TokensOf(kind) \in Nat /\ TokensOf(kind)' \in Nat
      /\ DebitedBy' = DebitedBy /\ Undone' = Undone \cup {ref}
  BY <1>1, <1>3, <1>4, <1>5, AccountPosts
<1>9. /\ TokensOf("grant")' = TokensOf("grant")
      /\ TokensOf("purchase")' = TokensOf("purchase")
      /\ TokensOf("adjustment")' = TokensOf("adjustment") + DebitedBy[ref]
  BY <1>3, <1>5, <1>6, <1>7, <1>8
<1>10. DebitedBy[ref] > 0 /\ ref \notin Undone /\ (clock >= 1)' = (clock >= 1)
  BY <1>1, <1>3, <1>7 DEF Undone
<1> QED BY <1>1, <1>8, <1>9, <1>10 DEF AtomicAccount!Reverse, DebitedBy, Undone

\* What a debit takes comes from the three kinds of credit, together its amount.
LEMMA DebitShares ==
  ASSUME Booked, NEW amount \in Amounts, Sufficient(amount),
         NEW taken, taken = [i \in DOMAIN entries |-> Take(i, amount)]
  PROVE  /\ \A kind : Sum(taken, Live(kind)) \in Nat
         /\ Sum(taken, Live("grant")) + Sum(taken, Live("purchase"))
              + Sum(taken, Live("adjustment")) = amount
         /\ Sum(taken, Live("grant")) = IF amount < TokensOf("grant") THEN amount
                                        ELSE TokensOf("grant")
<1> DEFINE S == DOMAIN entries
           part(kind) == [i \in S |-> IF i \in Live(kind) THEN taken[i] ELSE 0]
           g == part("grant")
           p == part("purchase")
           a == part("adjustment")
           gp == [i \in S |-> g[i] + p[i]]
<1>1. /\ \A i \in S : taken[i] \in 0 .. Remaining[i]
      /\ Sum(taken, S) = amount
  BY DebitTakes
<1>2. /\ IsFiniteSet(S) /\ \A i \in S : Remaining[i] \in Nat
      /\ \A kind : IsFiniteSet(Live(kind)) /\ Live(kind) \subseteq S
  BY SumsOfRows
<1>3. \A i \in S : taken[i] \in Nat
  BY <1>1, <1>2
<1>4. ASSUME NEW kind
      PROVE  Sum(part(kind), S) = Sum(taken, Live(kind)) /\ Sum(taken, Live(kind)) \in Nat
  <2> DEFINE f == part(kind)
             L == Live(kind)
  <2>1. /\ L \in SUBSET S /\ \A i \in L : taken[i] \in Nat
        /\ \A i \in L : f[i] = taken[i]
        /\ \A i \in S \ L : f[i] = 0
    BY <1>2, <1>3
  <2>2. IsFiniteSet(L)
    BY <1>2
  <2> HIDE DEF f, L, S
  <2>3. Sum(f, S) = Sum(taken, L)
    BY <1>2, <2>1, SumOfPart
  <2>4. Sum(taken, L) \in Nat
    BY <2>1, <2>2, SumNatural
  <2> QED BY <2>3, <2>4 DEF f, L
<1>5. \A i \in S : /\ g[i] \in Nat /\ p[i] \in Nat /\ a[i] \in Nat /\ gp[i] \in Nat
                   /\ gp[i] = g[i] + p[i]
  BY <1>3
<1>6. \A i \in S : taken[i] = gp[i] + a[i]
  <2> TAKE i \in S
  <2>1. CASE i \in Usable
    <3>1. /\ entries[i].kind \in {"grant", "purchase", "adjustment"} /\ ~Expired(entries[i])
      BY <2>1 DEF Usable, Credits
    <3>2. \A kind : i \in Live(kind) <=> entries[i].kind = kind
      BY <3>1 DEF Live
    <3> QED BY <1>3, <3>1, <3>2
  <2>2. CASE i \notin Usable
    <3>1. taken[i] = 0
      BY <2>2 DEF Take
    <3> QED BY <3>1
  <2> QED BY <2>1, <2>2
<1>7. /\ Sum(g, S) = Sum(taken, Live("grant")) /\ Sum(p, S) = Sum(taken, Live("purchase"))
      /\ Sum(a, S) = Sum(taken, Live("adjustment"))
  BY <1>4
<1>8. Sum(taken, S) = Sum(g, S) + Sum(p, S) + Sum(a, S)
  <2> HIDE DEF g, p, a, gp, S
  <2>1. Sum(gp, S) = Sum(g, S) + Sum(p, S)
    BY <1>2, <1>5, SumAdds
  <2>2. Sum(taken, S) = Sum(gp, S) + Sum(a, S)
    BY <1>2, <1>5, <1>6, SumAdds
  <2> QED BY <2>1, <2>2
<1>9. Sum(taken, Live("grant")) = IF amount < TokensOf("grant") THEN amount
                                  ELSE TokensOf("grant")
  <2>1. /\ TokensOf("grant") = IF clock >= 1 THEN 0 ELSE entries[1].remaining
        /\ Live("grant") = IF clock >= 1 THEN {} ELSE {1}
        /\ 1 \in S /\ entries[1].remaining \in Nat /\ entries[1].kind = "grant"
    BY TokensAre
  <2>2. amount \in Nat \ {0}
    BY Money
  <2>3. CASE clock >= 1
    <3>1. Sum(taken, {}) = 0
      BY SumOfNothing, FS_EmptySet
    <3> QED BY <2>1, <2>2, <2>3, <3>1
  <2>4. CASE ~ (clock >= 1)
    <3>1. Sum(taken, {1}) = taken[1]
      BY <1>3, <2>1, SumOfOne
    <3>2. taken[1] = IF 1 \notin Usable THEN 0 ELSE Smaller(entries[1].remaining, amount)
      <4>1. \A j \in Usable : ~Before(j, 1)
        BY <2>1 DEF Before, Usable, Booked
      <4>2. {j \in Usable : Before(j, 1)} = {}
        BY <4>1
      <4>3. Total(Remaining, {}) = 0
        <5>1. Sum(Remaining, {}) = 0
          BY SumOfNothing, FS_EmptySet
        <5> QED BY <5>1 DEF Total, Sum
      <4>4. taken[1] = Take(1, amount)
        BY <2>1
      <4>5. ~ (0 >= amount) /\ amount - 0 = amount
        BY <2>2
      <4> QED BY <4>2, <4>3, <4>4, <4>5 DEF Take
    <3>3. 1 \in Usable <=> entries[1].remaining > 0
      BY <2>1, <2>4 DEF Usable, Credits, Expired
    <3> QED BY <2>1, <2>2, <2>4, <3>1, <3>2, <3>3 DEF Smaller
  <2> QED BY <2>3, <2>4
<1> QED BY <1>1, <1>4, <1>7, <1>8, <1>9

\* A debit takes its amount at once, from the grant first.
LEMMA DebitsAtOnce ==
  ASSUME AccountInv, AccountInv', NEW ref \in Debits, NEW amount \in Amounts,
         Debit(ref, amount)
  PROVE  AtomicAccount!Debit(ref, amount)
<1> DEFINE row == Entry("debit", ref, 0, amount)
           taken == [i \in DOMAIN entries |-> Take(i, amount)]
           g == Sum(taken, Live("grant"))
           p == Sum(taken, Live("purchase"))
           a == Sum(taken, Live("adjustment"))
<1>1. UNCHANGED <<clock, purchase>> /\ ~Has("debit", ref) /\ Sufficient(amount)
  BY DEF Debit
<1>2. Booked /\ Booked'
  BY DEF AccountInv
<1>3. Grows(row, taken)
  BY <1>2, GrowsByDebit
<1>4. row.kind = "debit" /\ row.ref = ref /\ row.minus = amount /\ amount \in Nat
  BY Money DEF Entry
<1>5. /\ g \in Nat /\ p \in Nat /\ a \in Nat /\ g + p + a = amount
      /\ g = IF amount < TokensOf("grant") THEN amount ELSE TokensOf("grant")
  <2>1. taken = [i \in DOMAIN entries |-> Take(i, amount)]
    OBVIOUS
  <2> HIDE DEF taken
  <2> QED BY <1>1, <1>2, <2>1, DebitShares
<1> HIDE DEF row, taken
<1>6. /\ \A kind \in {"grant", "purchase", "adjustment"} :
            /\ TokensOf(kind)' + Sum(taken, Live(kind))
                 = TokensOf(kind) + IF row.kind = kind THEN row.remaining ELSE 0
            /\ Sum(taken, Live(kind)) \in Nat
            /\ TokensOf(kind) \in Nat /\ TokensOf(kind)' \in Nat
      /\ Undone' = Undone /\ DebitedBy[ref] = 0
      /\ DebitedBy' = [DebitedBy EXCEPT ![ref] = amount]
  BY <1>1, <1>2, <1>3, <1>4, AccountPosts
<1>7. /\ TokensOf("grant")' + g = TokensOf("grant")
      /\ TokensOf("purchase")' + p = TokensOf("purchase")
      /\ TokensOf("adjustment")' + a = TokensOf("adjustment")
      /\ TokensOf("grant") \in Nat /\ TokensOf("grant")' \in Nat
      /\ TokensOf("purchase") \in Nat /\ TokensOf("purchase")' \in Nat
      /\ TokensOf("adjustment") \in Nat /\ TokensOf("adjustment")' \in Nat
  BY <1>4, <1>6
<1> HIDE DEF g, p, a
<1>8. /\ TokensOf("grant")' = IF amount < TokensOf("grant") THEN TokensOf("grant") - amount ELSE 0
      /\ TokensOf("purchase")' \in 0 .. TokensOf("purchase")
      /\ TokensOf("adjustment")' \in 0 .. TokensOf("adjustment")
      /\ TokensOf("grant")' + TokensOf("purchase")' + TokensOf("adjustment")' + amount
           = TokensOf("grant") + TokensOf("purchase") + TokensOf("adjustment")
      /\ amount <= TokensOf("grant") + TokensOf("purchase") + TokensOf("adjustment")
  BY <1>4, <1>5, <1>7
<1>9. (clock >= 1)' = (clock >= 1)
  BY <1>1
<1> QED BY <1>1, <1>6, <1>8, <1>9 DEF AtomicAccount!Debit, AtomicAccount!Balance, DebitedBy, Undone

\* The job that expires tokens only writes down what had lapsed.
LEMMA ExpiresQuietly ==
  ASSUME AccountInv, AccountInv', NEW n \in DOMAIN entries, Expire(n)
  PROVE  UNCHANGED AtomicAccount!vars
<1> DEFINE row == Entry("expiry", entries[n].ref, 0, entries[n].remaining)
           taken == [i \in DOMAIN entries |-> IF i = n THEN Remaining[n] ELSE 0]
<1>1. UNCHANGED <<clock, purchase>> /\ entries' = WrittenOff(n, "expiry") /\ Expired(entries[n])
  BY DEF Expire
<1>2. Booked /\ Booked'
  BY DEF AccountInv
<1>3. Grows(row, taken)
  BY <1>1, <1>2, GrowsByWriteOff
<1>4. row.kind = "expiry"
  BY DEF Entry
<1>5. \A kind : Sum(taken, Live(kind)) = 0
  <2>1. \A kind : \A i \in Live(kind) : taken[i] = 0
    BY <1>1 DEF Live
  <2> HIDE DEF taken
  <2> QED BY <1>2, <2>1, NothingTaken
<1> HIDE DEF row, taken
<1>6. /\ \A kind \in {"grant", "purchase", "adjustment"} :
            /\ TokensOf(kind)' + Sum(taken, Live(kind))
                 = TokensOf(kind) + IF row.kind = kind THEN row.remaining ELSE 0
            /\ Sum(taken, Live(kind)) \in Nat
            /\ TokensOf(kind) \in Nat /\ TokensOf(kind)' \in Nat
      /\ DebitedBy' = DebitedBy /\ Undone' = Undone
  BY <1>1, <1>2, <1>3, <1>4, AccountPosts
<1>7. /\ TokensOf("grant")' = TokensOf("grant")
      /\ TokensOf("purchase")' = TokensOf("purchase")
      /\ TokensOf("adjustment")' = TokensOf("adjustment")
  BY <1>4, <1>5, <1>6
<1>8. (clock >= 1)' = (clock >= 1)
  BY <1>1
<1> QED BY <1>1, <1>6, <1>7, <1>8 DEF AtomicAccount!vars, DebitedBy, Undone

\* The grant lapses with the time, whatever the job has come to.
LEMMA LapsesInTime ==
  ASSUME AccountInv, Tick
  PROVE  AtomicAccount!Lapse \/ UNCHANGED AtomicAccount!vars
<1>1. clock' = clock + 1 /\ clock \in {0, 1} /\ UNCHANGED <<entries, purchase>>
  BY DEF Tick, AccountInv
<1>2. CASE clock = 1
  BY <1>1, <1>2, AccountStutters
<1>3. CASE clock = 0
  <2>1. /\ TokensOf("adjustment")' = TokensOf("adjustment")
        /\ TokensOf("purchase")' = TokensOf("purchase")
        /\ DebitedBy' = DebitedBy /\ Undone' = Undone
    BY <1>1, EntriesStay
  <2>2. TokensOf("grant")' = 0
    <3>1. \A i : i \notin Live("grant")'
      BY <1>1, <1>3 DEF Live, Expired
    <3>2. Live("grant")' = {}
      BY <3>1
    <3>3. TokensOf("grant")' = Total(Remaining', Live("grant")')
      BY DEF TokensOf, Live
    <3>4. Remaining' = Remaining
      BY <1>1 DEF Remaining
    <3>5. Total(Remaining, {}) = 0
      <4>1. Sum(Remaining, {}) = 0
        BY SumOfNothing, FS_EmptySet
      <4> QED BY <4>1 DEF Total, Sum
    <3> QED BY <3>2, <3>3, <3>4, <3>5
  <2>3. ~ (clock >= 1) /\ (clock >= 1)' = TRUE
    BY <1>1, <1>3
  <2> QED BY <1>1, <2>1, <2>2, <2>3 DEF AtomicAccount!Lapse, DebitedBy, Undone
<1> QED BY <1>1, <1>2, <1>3

\* Whoever completes the withdrawal: the package is paid for what is left of it.
LEMMA PaysBack ==
  ASSUME AccountInv, AccountInv', NEW cents \in 0 .. Price, NEW by, purchase.status = "active",
         CompleteWithdrawal(cents, by), cents >= RefundAmount, UNCHANGED clock
  PROVE  AtomicAccount!Withdraw(cents)
<1>1. PICK i \in DOMAIN entries : entries[i].kind = "purchase"
  BY WithdrawalTyped
<1>2. Booked /\ Booked'
  BY DEF AccountInv
<1>3. /\ Package = i /\ TokensOf("purchase") = entries[i].remaining /\ Live("purchase") = {i}
      /\ RefundAmount = (entries[i].remaining * Price) \div Tokens /\ RefundAmount \in 0 .. Price
  BY <1>1, <1>2, PackageIs, TokensAre, RefundIsWorth
<1>4. purchase'.status = "withdrawn" /\ purchase'.refund = cents
  BY DEF CompleteWithdrawal
<1>5. cents \in AtomicAccount!Worth(TokensOf("purchase")) .. Price
  BY <1>3 DEF AtomicAccount!Worth
<1>6. /\ TokensOf("grant")' = TokensOf("grant") /\ TokensOf("purchase")' = 0
      /\ TokensOf("adjustment")' = TokensOf("adjustment")
      /\ DebitedBy' = DebitedBy /\ Undone' = Undone
  <2>1. CASE entries[i].remaining > 0
    <3> DEFINE row == Entry("withdrawal", entries[i].ref, 0, entries[i].remaining)
               taken == [k \in DOMAIN entries |-> IF k = i THEN Remaining[i] ELSE 0]
    <3>1. entries' = WrittenOff(i, "withdrawal")
      BY <1>3, <2>1 DEF CompleteWithdrawal
    <3>2. Grows(row, taken)
      BY <1>2, <3>1, GrowsByWriteOff
    <3>3. row.kind = "withdrawal"
      BY DEF Entry
    <3>4. Remaining[i] \in Nat /\ Remaining[i] = entries[i].remaining
      BY <1>2, SumsOfRows
    <3>5. /\ Sum(taken, Live("grant")) = 0 /\ Sum(taken, Live("adjustment")) = 0
          /\ Sum(taken, Live("purchase")) = entries[i].remaining
      <4>1. \A kind \in {"grant", "adjustment"} : \A k \in Live(kind) : taken[k] = 0
        BY <1>1 DEF Live
      <4>2. taken[i] = Remaining[i] /\ taken[i] \in Nat
        BY <3>4
      <4> HIDE DEF taken
      <4>3. Sum(taken, {i}) = taken[i]
        BY <4>2, SumOfOne
      <4>4. Sum(taken, Live("grant")) = 0
        BY <1>2, <4>1, NothingTaken
      <4>5. Sum(taken, Live("adjustment")) = 0
        BY <1>2, <4>1, NothingTaken
      <4> QED BY <1>3, <3>4, <4>2, <4>3, <4>4, <4>5
    <3> HIDE DEF row, taken
    <3>6. /\ \A kind \in {"grant", "purchase", "adjustment"} :
                /\ TokensOf(kind)' + Sum(taken, Live(kind))
                     = TokensOf(kind) + IF row.kind = kind THEN row.remaining ELSE 0
                /\ Sum(taken, Live(kind)) \in Nat
                /\ TokensOf(kind) \in Nat /\ TokensOf(kind)' \in Nat
          /\ DebitedBy' = DebitedBy /\ Undone' = Undone
      BY <1>2, <3>2, <3>3, AccountPosts
    <3>7. /\ TokensOf("grant")' + 0 = TokensOf("grant") + 0
          /\ TokensOf("adjustment")' + 0 = TokensOf("adjustment") + 0
          /\ TokensOf("purchase")' + TokensOf("purchase") = TokensOf("purchase") + 0
      BY <1>3, <3>3, <3>5, <3>6
    <3> QED BY <3>6, <3>7
  <2>2. CASE ~ (entries[i].remaining > 0)
    <3>1. entries' = entries
      BY <1>3, <2>2 DEF CompleteWithdrawal
    <3>2. entries[i].remaining = 0
      BY <1>1, <1>2, <2>2, SumsOfRows
    <3>3. UNCHANGED <<DebitedBy, Undone, TokensOf("grant"), TokensOf("purchase"),
                      TokensOf("adjustment")>>
      BY <3>1, EntriesStay
    <3> QED BY <1>3, <3>2, <3>3
  <2> QED BY <2>1, <2>2
<1>7. (clock >= 1)' = (clock >= 1)
  OBVIOUS
<1> QED BY <1>4, <1>5, <1>6, <1>7 DEF AtomicAccount!Withdraw, DebitedBy, Undone

\* What nobody has spent that was not given: the sum of the abstract account is
\* one over the finitely many debits that stand.
Standing == {ref \in Debits : DebitedBy[ref] > 0} \ Undone

\* The sums of the abstract account are those of the proofs.
LEMMA UsedIsSum ==
  /\ AtomicAccount!Used = Sum(DebitedBy, Standing)
  /\ AtomicAccount!Balance = TokensOf("grant") + TokensOf("purchase") + TokensOf("adjustment")
<1>1. AtomicAccount!Standing = Standing
  BY DEF AtomicAccount!Standing, Standing, DebitedBy, Undone
<1>2. AtomicAccount!Used = Sum(DebitedBy, AtomicAccount!Standing)
  BY DEF AtomicAccount!Used, AtomicAccount!MapThenSumSet, AtomicAccount!MapThenFoldSet,
         Sum, MapThenSumSet, MapThenFoldSet, DebitedBy
<1> QED BY <1>1, <1>2 DEF AtomicAccount!Balance

\* The same of the state after a step.
LEMMA UsedIsSumThen ==
  (AtomicAccount!Used)' = Sum(DebitedBy', Standing')
<1>1. (AtomicAccount!Standing)' = Standing'
  BY DEF AtomicAccount!Standing, Standing, DebitedBy, Undone
<1>2. (AtomicAccount!Used)' = Sum(DebitedBy', (AtomicAccount!Standing)')
  BY DEF AtomicAccount!Used, AtomicAccount!MapThenSumSet, AtomicAccount!MapThenFoldSet,
         Sum, MapThenSumSet, MapThenFoldSet, DebitedBy
<1> QED BY <1>1, <1>2

\* As there are finitely many entries, finitely many debits stand.
LEMMA StandingFinite ==
  ASSUME Booked
  PROVE  /\ IsFiniteSet(Standing)
         /\ \A ref \in Debits : DebitedBy[ref] \in Nat
         /\ DebitedBy = [ref \in Debits |-> DebitedBy[ref]]
<1>1. \A ref \in Debits : DebitedBy[ref] \in Nat
  BY SumsOfRows DEF DebitedBy
<1>2. IsFiniteSet({entries[i].ref : i \in DOMAIN entries})
  <2> DEFINE S == DOMAIN entries
             T == {entries[i].ref : i \in S}
             f == [i \in S |-> entries[i].ref]
  <2>1. f \in Surjection(S, T)
    BY DEF Surjection
  <2>2. IsFiniteSet(S)
    BY SumsOfRows
  <2> HIDE DEF S, T, f
  <2>3. IsFiniteSet(T)
    BY <2>1, <2>2, FS_Surjection
  <2> QED BY <2>3 DEF S, T
<1>3. Standing \subseteq {entries[i].ref : i \in DOMAIN entries}
  <2>1. ASSUME NEW ref \in Standing
        PROVE  ref \in {entries[i].ref : i \in DOMAIN entries}
    <3>1. DebitedTo(ref) > 0 /\ DebitedTo(ref) = Sum(Minus, DebitRows(ref))
      BY <2>1, SumsOfRows DEF Standing, DebitedBy
    <3>2. DebitRows(ref) # {}
      <4>1. Sum(Minus, {}) = 0
        BY SumOfNothing, FS_EmptySet
      <4> QED BY <3>1, <4>1
    <3> QED BY <3>2 DEF DebitRows
  <2> QED BY <2>1
<1>4. IsFiniteSet(Standing)
  BY <1>2, <1>3, FS_Subset
<1> QED BY <1>1, <1>4 DEF DebitedBy

\* No step of the account overspends.
LEMMA SpendsWithin ==
  ASSUME AccountInv, AccountInv', AtomicAccount!NeverOverspent,
         [AtomicAccount!Next]_(AtomicAccount!vars)
  PROVE  (AtomicAccount!NeverOverspent)'
<1> DEFINE f == DebitedBy
           h == DebitedBy'
           S == Standing
           T == Standing'
           left_ == TokensOf("grant") + TokensOf("purchase") + TokensOf("adjustment")
           given == Granted + IF purchase.status = "none" THEN 0 ELSE Tokens
<1>1. /\ IsFiniteSet(S) /\ \A ref \in Debits : f[ref] \in Nat
      /\ S \subseteq Debits /\ Sum(f, S) \in Nat
      /\ S = {ref \in Debits : f[ref] > 0} \ Undone
      /\ \A kind : TokensOf(kind) \in Nat
  <2>1. IsFiniteSet(S) /\ \A ref \in Debits : f[ref] \in Nat
    BY StandingFinite DEF AccountInv
  <2>2. S \subseteq Debits /\ S = {ref \in Debits : f[ref] > 0} \ Undone
    BY DEF Standing
  <2>3. \A ref \in S : f[ref] \in Nat
    BY <2>1, <2>2
  <2>4. \A kind : TokensOf(kind) \in Nat
    BY SumsOfRows DEF AccountInv
  <2> HIDE DEF f, S
  <2> QED BY <2>1, <2>2, <2>3, <2>4, SumNatural
<1>2. left_ + Sum(f, S) <= given
  BY UsedIsSum DEF AtomicAccount!NeverOverspent, AtomicAccount!Given
<1>3. left_' + Sum(h, T) <= given' => (AtomicAccount!NeverOverspent)'
  <2>1. (AtomicAccount!NeverOverspent)'
          <=> (AtomicAccount!Balance)' + (AtomicAccount!Used)' <= (AtomicAccount!Given)'
    BY DEF AtomicAccount!NeverOverspent
  <2>2. (AtomicAccount!Balance)' = left_'
    BY DEF AtomicAccount!Balance
  <2>3. (AtomicAccount!Given)' = given'
    BY DEF AtomicAccount!Given
  <2>4. (AtomicAccount!Used)' = Sum(h, T)
    BY UsedIsSumThen
  <2> QED BY <2>1, <2>2, <2>3, <2>4
<1>4. T = {ref \in Debits : h[ref] > 0} \ Undone'
  BY DEF Standing
<1>5. Granted \in Nat /\ Tokens \in Nat
  BY Money
<1>6. left_ \in Nat /\ given \in Nat
  BY <1>1, <1>5
<1>7. ASSUME h = f, Undone' = Undone
      PROVE  Sum(h, T) = Sum(f, S)
  <2>1. T = S
    BY <1>1, <1>4, <1>7
  <2> QED BY <1>7, <2>1
<1>8. CASE AtomicAccount!Buy
  <2>1. /\ h = f /\ Undone' = Undone
        /\ TokensOf("grant")' = TokensOf("grant")
        /\ TokensOf("purchase")' = TokensOf("purchase") + Tokens
        /\ TokensOf("adjustment")' = TokensOf("adjustment")
        /\ purchase.status = "none" /\ purchase'.status = "active"
    BY <1>8 DEF AtomicAccount!Buy, DebitedBy, Undone
  <2>2. left_' = left_ + Tokens /\ given' = given + Tokens /\ Sum(h, T) = Sum(f, S)
    BY <1>1, <1>5, <1>7, <2>1
  <2> HIDE DEF left_, given, f, h, S, T
  <2> QED BY <1>1, <1>2, <1>3, <1>5, <1>6, <2>2
<1>9. CASE AtomicAccount!Lapse
  <2>1. /\ h = f /\ Undone' = Undone
        /\ TokensOf("grant")' = 0
        /\ TokensOf("purchase")' = TokensOf("purchase")
        /\ TokensOf("adjustment")' = TokensOf("adjustment")
        /\ purchase'.status = purchase.status
    BY <1>9 DEF AtomicAccount!Lapse, DebitedBy, Undone
  <2>2. left_' <= left_ /\ left_' \in Nat /\ given' = given /\ Sum(h, T) = Sum(f, S)
    BY <1>1, <1>7, <2>1
  <2> HIDE DEF left_, given, f, h, S, T
  <2> QED BY <1>1, <1>2, <1>3, <1>6, <2>2
<1>10. ASSUME NEW ref \in Debits, AtomicAccount!Reverse(ref)
       PROVE  (AtomicAccount!NeverOverspent)'
  <2>1. /\ h = f /\ Undone' = Undone \cup {ref} /\ f[ref] > 0 /\ ref \notin Undone
        /\ TokensOf("grant")' = TokensOf("grant")
        /\ TokensOf("purchase")' = TokensOf("purchase")
        /\ TokensOf("adjustment")' = TokensOf("adjustment") + f[ref]
        /\ purchase'.status = purchase.status
    BY <1>10 DEF AtomicAccount!Reverse, DebitedBy, Undone
  <2>2. ref \in S /\ T = S \ {ref} /\ f[ref] \in Nat
    BY <1>1, <1>4, <2>1
  <2>3. left_' = left_ + f[ref] /\ given' = given
    BY <1>1, <2>1, <2>2
  <2>4. \A r \in S : f[r] \in Nat
    BY <1>1
  <2> HIDE DEF left_, given, f, h, S, T
  <2>5. Sum(f, S) = f[ref] + Sum(f, S \ {ref})
    BY <1>1, <2>2, <2>4, SumRemoves
  <2>6. Sum(f, S \ {ref}) \in Nat
    <3>1. IsFiniteSet(S \ {ref}) /\ \A r \in S \ {ref} : f[r] \in Nat
      BY <1>1, <2>4, FS_RemoveElement
    <3> QED BY <3>1, SumNatural
  <2> QED BY <1>2, <1>3, <1>6, <2>1, <2>2, <2>3, <2>5, <2>6
<1>11. ASSUME NEW ref \in Debits, NEW amount \in Amounts, AtomicAccount!Debit(ref, amount)
       PROVE  (AtomicAccount!NeverOverspent)'
  <2>1. /\ f[ref] = 0 /\ h = [f EXCEPT ![ref] = amount] /\ Undone' = Undone
        /\ left_' + amount = left_
        /\ purchase'.status = purchase.status
    BY <1>11 DEF AtomicAccount!Debit, AtomicAccount!Balance, DebitedBy, Undone
  <2>2. amount \in Nat \ {0} /\ left_' \in Nat
    <3>1. amount \in Nat \ {0}
      BY Money
    <3>2. /\ TokensOf("grant")' \in Nat /\ TokensOf("purchase")' \in Nat
          /\ TokensOf("adjustment")' \in Nat
      <4>1. TokensOf("grant")' = IF amount < TokensOf("grant") THEN TokensOf("grant") - amount ELSE 0
        BY <1>11 DEF AtomicAccount!Debit
      <4>2. /\ TokensOf("purchase")' \in 0 .. TokensOf("purchase")
            /\ TokensOf("adjustment")' \in 0 .. TokensOf("adjustment")
        BY <1>11 DEF AtomicAccount!Debit
      <4> QED BY <1>1, <3>1, <4>1, <4>2
    <3> QED BY <3>1, <3>2
  <2>3. DOMAIN f = Debits
    BY DEF DebitedBy
  <2>4. ref \notin S /\ h[ref] = amount /\ \A r \in Debits \ {ref} : h[r] = f[r]
    BY <1>1, <2>1, <2>3
  <2>5. given' = given
    BY <2>1
  <2> HIDE DEF left_, given, f, h
  <2>6. T = S \/ T = S \cup {ref}
    <3>1. \A r : r \in T => r \in S \cup {ref}
      BY <1>1, <1>4, <2>1, <2>4
    <3>2. \A r : r \in S => r \in T
      BY <1>1, <1>4, <2>1, <2>4
    <3> QED BY <3>1, <3>2
  <2> HIDE DEF S, T
  <2>7. Sum(h, S) = Sum(f, S)
    <3>1. (\A r \in S : f[r] \in Nat) /\ (\A r \in S : h[r] = f[r])
      BY <1>1, <2>4
    <3> QED BY <1>1, <3>1, SumAgrees
  <2>8. Sum(h, S \cup {ref}) = Sum(h, S) + h[ref]
    <3>1. (\A r \in S : h[r] \in Nat) /\ h[ref] \in Nat
      BY <1>1, <2>2, <2>4
    <3> QED BY <1>1, <2>4, <3>1, SumGets
  <2>9. Sum(h, T) \in {Sum(f, S), Sum(f, S) + amount}
    BY <2>4, <2>6, <2>7, <2>8
  <2> QED BY <1>1, <1>2, <1>3, <1>6, <2>1, <2>2, <2>5, <2>9
<1>12. ASSUME NEW cents \in 0 .. Price, AtomicAccount!Withdraw(cents)
       PROVE  (AtomicAccount!NeverOverspent)'
  <2>1. /\ h = f /\ Undone' = Undone
        /\ TokensOf("grant")' = TokensOf("grant")
        /\ TokensOf("purchase")' = 0
        /\ TokensOf("adjustment")' = TokensOf("adjustment")
        /\ purchase.status = "active" /\ purchase'.status = "withdrawn"
    BY <1>12 DEF AtomicAccount!Withdraw, DebitedBy, Undone
  <2>2. left_' <= left_ /\ left_' \in Nat /\ given' = given /\ Sum(h, T) = Sum(f, S)
    BY <1>1, <1>7, <2>1
  <2> HIDE DEF left_, given, f, h, S, T
  <2> QED BY <1>1, <1>2, <1>3, <1>6, <2>2
<1>13. CASE UNCHANGED AtomicAccount!vars
  <2>1. /\ h = f /\ Undone' = Undone
        /\ TokensOf("grant")' = TokensOf("grant")
        /\ TokensOf("purchase")' = TokensOf("purchase")
        /\ TokensOf("adjustment")' = TokensOf("adjustment")
        /\ purchase'.status = purchase.status
    BY <1>13 DEF AtomicAccount!vars, DebitedBy, Undone
  <2>2. left_' = left_ /\ given' = given /\ Sum(h, T) = Sum(f, S)
    BY <1>7, <2>1
  <2> HIDE DEF left_, given, f, h, S, T
  <2> QED BY <1>2, <1>3, <2>2
<1> QED BY <1>8, <1>9, <1>10, <1>11, <1>12, <1>13 DEF AtomicAccount!Next

\* No step gives a reference a second debit or makes a refund too small.
LEMMA DebitsNext ==
  ASSUME AccountInv, AccountInv', DebitsInv, [Next]_vars
  PROVE  DebitsInv'
<1>1. CASE UNCHANGED <<entries, purchase, refund>>
  BY <1>1, DebitsKept
<1>2. CASE \/ EditPlan \/ BeginSync \/ CreatePrice \/ StorePrice \/ SyncDies
           \/ OpenAttempt \/ BeginCheckout \/ CreateSession \/ StoreSession \/ CheckoutDies
           \/ SessionMoves \/ Tick \/ LockPurchase \/ WithdrawDies
  BY <1>1, <1>2 DEF EditPlan, BeginSync, CreatePrice, StorePrice, SyncDies, OpenAttempt,
       BeginCheckout, CreateSession, StoreSession, CheckoutDies, SessionMoves, Tick,
       LockPurchase, WithdrawDies, accountVars
<1>3. CASE CreateRefund
  <2>1. UNCHANGED <<entries, purchase>> /\ withdraw.step # "idle"
        /\ refund' \in {refund, withdraw.cents}
    BY <1>3 DEF CreateRefund
  <2>2. withdraw.cents = RefundAmount /\ purchase.status # "none"
    BY <2>1, WithdrawalTyped DEF ShareStaysFresh
  <2> QED BY <2>1, <2>2, DebitsKept
<1>4. ASSUME NEW cents, NEW by, CompleteWithdrawal(cents, by), purchase.status = "active",
             refund' = refund
      PROVE  DebitsInv'
  <2>1. purchase'.status = "withdrawn"
    BY <1>4 DEF CompleteWithdrawal
  <2>2. CASE entries' = entries
    BY <1>4, <2>1, <2>2, DebitsKept
  <2>3. CASE entries' = WrittenOff(Package, "withdrawal")
    <3>1. Package \in DOMAIN entries /\ Booked
      BY <1>4, WithdrawalTyped, PackageIs
    <3> DEFINE row == Entry("withdrawal", entries[Package].ref, 0, entries[Package].remaining)
               taken == [i \in DOMAIN entries |-> IF i = Package THEN Remaining[Package] ELSE 0]
    <3>2. Grows(row, taken)
      BY <2>3, <3>1, GrowsByWriteOff
    <3>3. row.kind = "withdrawal"
      BY DEF Entry
    <3> HIDE DEF row, taken
    <3> QED BY <1>4, <2>1, <3>2, <3>3, DebitsGrown
  <2> QED BY <1>4, <2>2, <2>3 DEF CompleteWithdrawal
<1>5. CASE CommitWithdraw
  BY <1>4, <1>5, WithdrawalTyped DEF CommitWithdraw
<1>6. CASE DeliverRefund
  BY <1>1, <1>4, <1>6 DEF DeliverRefund, OurRefund
<1>7. ASSUME NEW event \in CheckoutEvents, DeliverCheckout(event) PROVE DebitsInv'
  <2>1. refund' = refund
    BY <1>7 DEF DeliverCheckout
  <2>2. CASE purchase.status = "none" /\ Paid(event)
    <3>1. \A i \in DOMAIN entries : entries[i].kind # "purchase"
      BY <2>2 DEF DebitsInv
    <3>2. /\ entries' = Append(entries, Entry("purchase", "package", Tokens, 0))
          /\ purchase' = [purchase EXCEPT !.status = "active"]
      BY <1>7, <2>2, <3>1 DEF DeliverCheckout, Credited, CreatedPurchase
    <3> DEFINE row == Entry("purchase", "package", Tokens, 0)
               taken == [i \in DOMAIN entries |-> 0]
    <3>3. Grows(row, taken)
      BY <3>1, <3>2, GrowsByCredit, Money, WithdrawalTyped DEF Refs
    <3>4. row.kind = "purchase"
      BY DEF Entry
    <3>5. purchase'.status = "active"
      BY <3>2, WithdrawalTyped
    <3> HIDE DEF row, taken
    <3> QED BY <2>1, <2>2, <3>3, <3>4, <3>5, DebitsGrown
  <2>3. CASE ~ (purchase.status = "none" /\ Paid(event))
    <3>1. entries' = entries /\ purchase' = purchase
      <4>1. CASE ~ Paid(event)
        BY <1>7, <4>1 DEF DeliverCheckout
      <4>2. CASE purchase.status # "none"
        BY <1>7, <4>2, WithdrawalTyped DEF DeliverCheckout, Credited, CreatedPurchase
      <4> QED BY <2>3, <4>1, <4>2
    <3> QED BY <1>1, <2>1, <3>1
  <2> QED BY <2>2, <2>3
<1>8. ASSUME NEW ref \in Debits, Reverse(ref) PROVE DebitsInv'
  <2>1. UNCHANGED <<purchase, refund>>
    BY <1>8 DEF Reverse
  <2>2. PICK i \in DOMAIN entries :
          entries' = Append(entries, Entry("adjustment", ref, entries[i].minus, 0))
    BY <1>8 DEF Reverse
  <2>3. entries[i].minus \in Nat /\ Booked
    BY Columns, WithdrawalTyped DEF Rows
  <2> DEFINE row == Entry("adjustment", ref, entries[i].minus, 0)
             taken == [k \in DOMAIN entries |-> 0]
  <2>4. Grows(row, taken)
    BY <2>2, <2>3, GrowsByCredit DEF Refs
  <2>5. row.kind = "adjustment"
    BY DEF Entry
  <2> HIDE DEF row, taken
  <2> QED BY <2>1, <2>4, <2>5, DebitsGrown
<1>9. ASSUME NEW ref \in Debits, NEW amount \in Amounts, Debit(ref, amount) PROVE DebitsInv'
  <2>1. UNCHANGED <<purchase, refund>> /\ ~Has("debit", ref)
    BY <1>9 DEF Debit
  <2> DEFINE row == Entry("debit", ref, 0, amount)
             taken == [i \in DOMAIN entries |-> Take(i, amount)]
  <2>2. Grows(row, taken)
    BY <1>9, GrowsByDebit, WithdrawalTyped
  <2>3. row.kind = "debit" /\ row.minus > 0 /\ row.ref = ref
    BY Money DEF Entry
  <2> HIDE DEF row, taken
  <2> QED BY <2>1, <2>2, <2>3, DebitsGrown
<1>10. ASSUME NEW n \in DOMAIN entries, Expire(n) PROVE DebitsInv'
  <2>1. UNCHANGED <<purchase, refund>> /\ entries' = WrittenOff(n, "expiry")
    BY <1>10 DEF Expire
  <2> DEFINE row == Entry("expiry", entries[n].ref, 0, entries[n].remaining)
             taken == [i \in DOMAIN entries |-> IF i = n THEN Remaining[n] ELSE 0]
  <2>2. Grows(row, taken)
    BY <2>1, GrowsByWriteOff, WithdrawalTyped
  <2>3. row.kind = "expiry"
    BY DEF Entry
  <2> HIDE DEF row, taken
  <2> QED BY <2>1, <2>2, <2>3, DebitsGrown
<1>11. CASE UNCHANGED ledgerVars
  BY <1>1, <1>11 DEF ledgerVars, accountVars
<1> QED BY <1>2, <1>3, <1>5, <1>6, <1>7, <1>8, <1>9, <1>10, <1>11, LedgerMoves
        DEF LedgerNext, BeginWithdraw

\* Every step is a step of the account, or none.
LEMMA AccountSteps ==
  ASSUME AccountInv, AccountInv', DebitsInv, [Next]_vars
  PROVE  [AtomicAccount!Next]_(AtomicAccount!vars)
<1>1. CASE UNCHANGED <<entries, purchase, clock>>
  BY <1>1, AccountStutters
<1>2. CASE \/ EditPlan \/ BeginSync \/ CreatePrice \/ StorePrice \/ SyncDies
           \/ OpenAttempt \/ BeginCheckout \/ CreateSession \/ StoreSession \/ CheckoutDies
           \/ SessionMoves \/ LockPurchase \/ WithdrawDies \/ CreateRefund
  BY <1>1, <1>2 DEF EditPlan, BeginSync, CreatePrice, StorePrice, SyncDies, OpenAttempt,
       BeginCheckout, CreateSession, StoreSession, CheckoutDies, SessionMoves, LockPurchase,
       WithdrawDies, CreateRefund, accountVars
<1>3. CASE Tick
  BY <1>3, LapsesInTime DEF AtomicAccount!Next
<1>4. CASE CommitWithdraw
  <2>1. /\ purchase.status = "active" /\ withdraw.cents \in 0 .. Price
        /\ withdraw.cents = RefundAmount
        /\ CompleteWithdrawal(withdraw.cents, "request") /\ UNCHANGED clock
    BY <1>4, WithdrawalTyped DEF CommitWithdraw, ShareStaysFresh
  <2>2. withdraw.cents >= RefundAmount
    BY <2>1
  <2>3. AtomicAccount!Withdraw(withdraw.cents)
    BY <2>1, <2>2, PaysBack
  <2> QED BY <2>1, <2>3 DEF AtomicAccount!Next
<1>5. CASE DeliverRefund
  <2>1. CASE OurRefund(refund)
    <3>1. /\ purchase.status = "active" /\ refund \in 0 .. Price /\ refund > 0
          /\ CompleteWithdrawal(refund, "event") /\ UNCHANGED clock
      BY <1>5, <2>1, WithdrawalTyped DEF DeliverRefund, OurRefund
    <3>2. refund >= RefundAmount
      BY <3>1 DEF DebitsInv
    <3>3. AtomicAccount!Withdraw(refund)
      BY <3>1, <3>2, PaysBack
    <3> QED BY <3>1, <3>3 DEF AtomicAccount!Next
  <2>2. CASE ~ OurRefund(refund)
    BY <1>1, <1>5, <2>2 DEF DeliverRefund
  <2> QED BY <2>1, <2>2
<1>6. ASSUME NEW event \in CheckoutEvents, DeliverCheckout(event)
      PROVE  [AtomicAccount!Next]_(AtomicAccount!vars)
  BY <1>6, BuysOnce DEF AtomicAccount!Next
<1>7. ASSUME NEW ref \in Debits, Reverse(ref)
      PROVE  [AtomicAccount!Next]_(AtomicAccount!vars)
  BY <1>7, ReversesOnce DEF AtomicAccount!Next
<1>8. ASSUME NEW ref \in Debits, NEW amount \in Amounts, Debit(ref, amount)
      PROVE  [AtomicAccount!Next]_(AtomicAccount!vars)
  BY <1>8, DebitsAtOnce DEF AtomicAccount!Next
<1>9. ASSUME NEW n \in DOMAIN entries, Expire(n)
      PROVE  [AtomicAccount!Next]_(AtomicAccount!vars)
  BY <1>9, ExpiresQuietly
<1>10. CASE UNCHANGED ledgerVars
  BY <1>1, <1>10 DEF ledgerVars, accountVars
<1> QED BY <1>2, <1>3, <1>4, <1>5, <1>6, <1>7, <1>8, <1>9, <1>10, LedgerMoves
        DEF LedgerNext, BeginWithdraw

\* An account whose entries these are begins as the abstract one may.
LEMMA BeginsWell ==
  ASSUME AccountInv, purchase.status \in {"none", "active"}, purchase.refund = 0,
         Undone \subseteq {ref \in Debits : DebitedBy[ref] > 0},
         TokensOf("grant") <= Granted,
         TokensOf("purchase") <= IF purchase.status = "none" THEN 0 ELSE Tokens,
         TokensOf("grant") + TokensOf("purchase") + TokensOf("adjustment")
           + Sum(DebitedBy, Standing) <= Granted + IF purchase.status = "none" THEN 0 ELSE Tokens
  PROVE  AtomicAccount!Init
<1>1. \A kind : TokensOf(kind) \in Nat
  BY SumsOfRows DEF AccountInv
<1>2. clock >= 1 => TokensOf("grant") = 0
  BY TokensAre DEF AccountInv
<1>3. DebitedBy \in [Debits -> Nat]
  BY StandingFinite DEF AccountInv
<1>4. AtomicAccount!NeverOverspent
  BY UsedIsSum DEF AtomicAccount!NeverOverspent, AtomicAccount!Given
<1>5. Granted \in Nat /\ Tokens \in Nat
  BY Money
<1>6. /\ TokensOf("grant") \in IF clock >= 1 THEN {0} ELSE 0 .. Granted
      /\ TokensOf("purchase") \in IF purchase.status = "none" THEN {0} ELSE 0 .. Tokens
      /\ TokensOf("adjustment") \in Nat
  BY <1>1, <1>2, <1>5
<1>7. (clock >= 1) \in BOOLEAN
  OBVIOUS
<1>8. Undone \subseteq {ref \in Debits : DebitedBy[ref] > 0}
  OBVIOUS
<1> QED BY <1>3, <1>4, <1>6, <1>7, <1>8 DEF AtomicAccount!Init, DebitedBy, Undone

\* Ledger's own beginning, or the package sold and two debits made.
LEMMA AccountBegins == Init => DebitsInv /\ AtomicAccount!Init
<1> SUFFICES ASSUME Init PROVE DebitsInv /\ AtomicAccount!Init
  OBVIOUS
<1>1. AccountInv /\ Booked
  BY AccountInit DEF AccountInv
<1>2. Sum(Remaining, {}) = 0 /\ Sum(Minus, {}) = 0 /\ Sum(DebitedBy, {}) = 0
  BY SumOfNothing, FS_EmptySet
<1>3. /\ \A kind : TokensOf(kind) = Sum(Remaining, Live(kind))
      /\ \A ref : DebitedTo(ref) = Sum(Minus, DebitRows(ref))
      /\ \A i \in DOMAIN entries : /\ Remaining[i] \in Nat /\ Remaining[i] = entries[i].remaining
                                   /\ Minus[i] \in Nat /\ Minus[i] = entries[i].minus
  BY <1>1, SumsOfRows
<1>4. Granted \in Nat \ {0} /\ Tokens \in Nat \ {0}
  BY Money
<1>5. CASE LedgerInit
  <2>1. /\ DOMAIN entries = {1} /\ entries[1].kind = "grant" /\ entries[1].remaining = Granted
        /\ entries[1].ref = "plan"
    <3>1. entries = <<Entry("grant", "plan", Granted, 0)>>
      BY <1>5 DEF LedgerInit
    <3>2. DOMAIN entries = 1 .. 1 /\ entries[1] = Entry("grant", "plan", Granted, 0)
      BY <3>1
    <3> QED BY <3>2 DEF Entry
  <2>2. purchase.status = "none" /\ purchase.refund = 0 /\ refund = 0 /\ clock = 0
    BY <1>5 DEF LedgerInit
  <2>3. DebitsInv
    BY <2>1, <2>2 DEF DebitsInv
  <2>4. /\ TokensOf("grant") = Granted /\ TokensOf("purchase") = 0
        /\ TokensOf("adjustment") = 0
    <3>1. Live("adjustment") = {}
      BY <2>1 DEF Live
    <3> QED BY <1>1, <1>2, <1>3, <2>1, <2>2, <3>1, TokensAre
  <2>5. Undone = {}
    BY <2>1 DEF Undone, Has
  <2>6. Standing = {}
    <3>1. \A ref : DebitRows(ref) = {}
      BY <2>1 DEF DebitRows
    <3>2. \A ref \in Debits : DebitedBy[ref] = 0
      BY <1>2, <1>3, <3>1 DEF DebitedBy
    <3> QED BY <3>2 DEF Standing
  <2> QED BY <1>1, <1>2, <1>4, <2>2, <2>3, <2>4, <2>5, <2>6, BeginsWell
<1>6. CASE Sold
  <2> DEFINE one == CHOOSE ref \in Debits : TRUE
             two == CHOOSE ref \in Debits \ {one} : TRUE
  <2>1. one \in Debits /\ two \in Debits /\ one # two
    <3>1. Debits # {} /\ \A r \in Debits : Debits \ {r} # {}
      BY DeclarationsAssumption DEF DeclarationsAssumption
    <3>2. one \in Debits
      BY <3>1
    <3>3. two \in Debits \ {one}
      BY <3>1, <3>2
    <3> QED BY <3>2, <3>3
  <2>2. entries = <<[Entry("grant", "plan", Granted, 0) EXCEPT !.remaining = 0],
                    [Entry("purchase", "package", Tokens, 0) EXCEPT !.remaining = Tokens - 1],
                    Entry("debit", one, 0, Granted), Entry("adjustment", one, Granted, 0),
                    Entry("debit", two, 0, 1)>>
    BY <1>6 DEF Sold
  <2> HIDE DEF one, two
  <2>3. /\ DOMAIN entries = {1, 2, 3, 4, 5}
        /\ entries[1].kind = "grant" /\ entries[2].kind = "purchase"
        /\ entries[2].remaining = Tokens - 1
        /\ entries[3].kind = "debit" /\ entries[3].ref = one /\ entries[3].minus = Granted
        /\ entries[4].kind = "adjustment" /\ entries[4].ref = one
        /\ entries[4].remaining = Granted
        /\ entries[5].kind = "debit" /\ entries[5].ref = two /\ entries[5].minus = 1
    <3>1. DOMAIN entries = 1 .. 5
      BY <2>2
    <3>2. 1 .. 5 = {1, 2, 3, 4, 5}
      OBVIOUS
    <3>3. entries[2] = [Entry("purchase", "package", Tokens, 0) EXCEPT !.remaining = Tokens - 1]
          /\ entries[1] = [Entry("grant", "plan", Granted, 0) EXCEPT !.remaining = 0]
          /\ entries[3] = Entry("debit", one, 0, Granted)
          /\ entries[4] = Entry("adjustment", one, Granted, 0)
          /\ entries[5] = Entry("debit", two, 0, 1)
      BY <2>2
    <3> QED BY <3>1, <3>2, <3>3 DEF Entry
  <2>4. /\ purchase.status = "active" /\ purchase.refund = 0 /\ refund = 0 /\ clock = 1
    BY <1>6 DEF Sold
  <2>5. DebitsInv
    <3>1. \A i, j \in DOMAIN entries :
            entries[i].kind = "debit" /\ entries[j].kind = "debit"
              /\ entries[i].ref = entries[j].ref => i = j
      BY <2>1, <2>3
    <3>2. \A i \in DOMAIN entries : entries[i].kind = "debit" => entries[i].minus > 0
      BY <1>4, <2>3
    <3> QED BY <2>4, <3>1, <3>2 DEF DebitsInv
  <2>6. /\ TokensOf("grant") = 0 /\ TokensOf("purchase") = Tokens - 1
        /\ TokensOf("adjustment") = Granted
    <3>1. \A i : i \in Live("adjustment") <=> i = 4
      BY <2>3 DEF Live, Expired
    <3>2. Live("adjustment") = {4}
      BY <3>1
    <3>3. Sum(Remaining, {4}) = Remaining[4]
      BY <1>3, <2>3, SumOfOne
    <3>4. TokensOf("grant") = 0 /\ TokensOf("purchase") = Tokens - 1
      BY <1>1, <2>3, <2>4, TokensAre
    <3> QED BY <1>3, <2>3, <3>2, <3>3, <3>4
  <2>7. /\ DebitedBy[one] = Granted /\ DebitedBy[two] = 1
        /\ \A ref \in Debits \ {one, two} : DebitedBy[ref] = 0
    <3>1. \A i : (i \in DebitRows(one) <=> i = 3) /\ (i \in DebitRows(two) <=> i = 5)
      BY <2>1, <2>3 DEF DebitRows
    <3>2. DebitRows(one) = {3} /\ DebitRows(two) = {5}
      BY <3>1
    <3>3. \A ref \in Debits \ {one, two} : DebitRows(ref) = {}
      BY <2>3 DEF DebitRows
    <3>4. Sum(Minus, {3}) = Minus[3] /\ Sum(Minus, {5}) = Minus[5]
      <4>1. Minus[3] \in Nat /\ Minus[5] \in Nat
        BY <1>3, <2>3
      <4>2. Sum(Minus, {3}) = Minus[3]
        BY <4>1, SumOfOne
      <4>3. Sum(Minus, {5}) = Minus[5]
        BY <4>1, SumOfOne
      <4> QED BY <4>2, <4>3
    <3>5. Minus[3] = Granted /\ Minus[5] = 1
      BY <1>3, <2>3
    <3> QED BY <1>2, <1>3, <2>1, <3>2, <3>3, <3>4, <3>5 DEF DebitedBy
  <2>8. Undone = {one}
    <3>1. \A ref \in Debits : Has("adjustment", ref) <=> ref = one
      BY <2>3 DEF Has
    <3> QED BY <2>1, <3>1 DEF Undone
  <2>9. Standing = {two}
    BY <1>4, <2>1, <2>7, <2>8 DEF Standing
  <2>10. Sum(DebitedBy, Standing) = 1
    BY <2>7, <2>9, SumOfOne
  <2>11. Undone \subseteq {ref \in Debits : DebitedBy[ref] > 0}
    BY <1>4, <2>1, <2>7, <2>8
  <2>12. 0 + (Tokens - 1) + Granted + 1 <= Granted + Tokens /\ Tokens - 1 <= Tokens /\ 0 <= Granted
    BY <1>4
  <2>13. AtomicAccount!Init
    BY <1>1, <2>4, <2>6, <2>10, <2>11, <2>12, BeginsWell
  <2> QED BY <2>5, <2>13
<1> QED BY <1>5, <1>6 DEF Init

\* The account the entries keep, and what its abstract steps need of them.
WholeInv == AccountInv /\ DebitsInv /\ AtomicAccount!NeverOverspent

\* It is kept throughout: a step of the account does not overspend.
LEMMA WholeIsKept == Spec => []WholeInv
<1>1. Init => WholeInv
  <2>1. AtomicAccount!Init => AtomicAccount!NeverOverspent
    BY DEF AtomicAccount!Init
  <2> QED BY <2>1, AccountInit, AccountBegins DEF WholeInv
<1>2. WholeInv /\ [Next]_vars => WholeInv'
  <2> SUFFICES ASSUME WholeInv, [Next]_vars PROVE WholeInv'
    OBVIOUS
  <2>1. AccountInv /\ DebitsInv /\ AtomicAccount!NeverOverspent
    BY DEF WholeInv
  <2>2. AccountInv'
    BY <2>1, AccountNext
  <2>3. DebitsInv'
    BY <2>1, <2>2, DebitsNext
  <2>4. [AtomicAccount!Next]_(AtomicAccount!vars)
    BY <2>1, <2>2, AccountSteps
  <2>5. (AtomicAccount!NeverOverspent)'
    BY <2>1, <2>2, <2>4, SpendsWithin
  <2> QED BY <2>2, <2>3, <2>5 DEF WholeInv
<1> QED BY <1>1, <1>2, PTL DEF Spec

\* billing/services.py, withdrawal.py: the rows of the ledger, with remainders, a job
\* that expires them late and a withdrawal in three steps, are an account that
\* debits all or nothing and once, the grant first, gives back once, and pays at
\* least what the unused tokens of the package are worth.
THEOREM ImplementsAccount == Spec => KeepsAccount
<1>1. Init => AtomicAccount!Init
  BY AccountBegins
<1>2. WholeInv /\ WholeInv' /\ [Next]_vars => [AtomicAccount!Next]_(AtomicAccount!vars)
  BY AccountSteps DEF WholeInv
<1> QED BY <1>1, <1>2, WholeIsKept, PTL DEF Spec, KeepsAccount, AtomicAccount!Spec

\* services.py:88: whatever was debited, reversed, expired and withdrawn, what is left
\* and what the debits took came with the grant and the package.
THEOREM NobodyOverspends == Spec => []AtomicAccount!NeverOverspent
<1>1. WholeInv => AtomicAccount!NeverOverspent
  BY DEF WholeInv
<1> QED BY WholeIsKept, <1>1, PTL

-------------------------------------------------------------------------------
(* The types of the ledger: a price version is made for every plan at most.  *)

PlanPrices == [fingerprint: 1 .. MaxPlan, price: 1 .. MaxPlan]

\* Versions are stored for plans that came later and later, so there are never
\* more of them than plans, and the version that is to be stored exists.
PlanInv ==
  /\ plan \in 1 .. MaxPlan
  /\ sync \in [step: {"idle", "create", "store"}, fingerprint: 0 .. MaxPlan]
  /\ prices \in Seq(PlanPrices)
  /\ remote \in [1 .. MaxPlan + 1 -> 0 .. MaxPlan]
  /\ Len(prices) <= LatestFingerprint /\ LatestFingerprint <= plan
  /\ sync.step # "idle" => LatestFingerprint < sync.fingerprint /\ sync.fingerprint <= plan
  /\ sync.step = "store" => remote[Len(prices) + 1] # 0

CheckoutTypes ==
  /\ attempt \in [status: {"none", "open", "processing", "paid", "failed", "expired"},
                  bound: BOOLEAN]
  /\ request \in {"idle", "create", "store"}
  /\ session \in {"none", "open", "unpaid", "paid", "failed", "expired"}

\* The beginnings are typed.
LEMMA TypesInit == Init => PlanInv /\ CheckoutTypes
<1>1. MaxPlan \in Nat \ {0}
  BY LedgerAssumption DEF LedgerAssumption
<1>2. ASSUME LedgerInit PROVE PlanInv
  BY <1>1, <1>2 DEF LedgerInit, PlanInv, LatestFingerprint
<1>3. ASSUME Sold PROVE PlanInv
  <2>1. prices \in Seq(PlanPrices) /\ Len(prices) = 1 /\ prices[1].fingerprint = MaxPlan
    BY <1>1, <1>3 DEF Sold, PlanPrices
  <2>2. prices # <<>> /\ LatestFingerprint = MaxPlan
    BY <2>1 DEF LatestFingerprint
  <2>3. remote \in [1 .. MaxPlan + 1 -> 0 .. MaxPlan]
    BY <1>1, <1>3 DEF Sold
  <2> QED BY <1>1, <1>3, <2>1, <2>2, <2>3 DEF Sold, PlanInv
<1>4. ASSUME LedgerInit PROVE CheckoutTypes
  <2>1. attempt = [status |-> "none", bound |-> FALSE] /\ request = "idle" /\ session = "none"
    BY <1>4 DEF LedgerInit
  <2> QED BY <2>1 DEF CheckoutTypes
<1>5. ASSUME Sold PROVE CheckoutTypes
  <2>1. attempt = [status |-> "paid", bound |-> TRUE] /\ request = "idle" /\ session = "paid"
    BY <1>5 DEF Sold
  <2> QED BY <2>1 DEF CheckoutTypes
<1>6. Init => LedgerInit \/ Sold
  BY DEF Init
<1> QED BY <1>2, <1>3, <1>4, <1>5, <1>6

\* Syncing keeps the versions and the plans in step.
LEMMA PlanNext ==
  ASSUME PlanInv, [Next]_vars
  PROVE  PlanInv'
<1>1. MaxPlan \in Nat \ {0}
  BY LedgerAssumption DEF LedgerAssumption
<1>2. /\ Len(prices) \in Nat /\ LatestFingerprint \in Nat /\ plan \in Nat
      /\ prices # <<>> => LatestFingerprint = prices[Len(prices)].fingerprint
  <2>1. Len(prices) \in Nat /\ plan \in Nat
    BY <1>1 DEF PlanInv
  <2>2. CASE prices = <<>>
    BY <2>1, <2>2 DEF LatestFingerprint
  <2>3. CASE prices # <<>>
    <3>1. prices[Len(prices)] \in PlanPrices
      BY <2>3 DEF PlanInv
    <3> QED BY <1>1, <2>1, <2>3, <3>1 DEF LatestFingerprint, PlanPrices
  <2> QED BY <2>2, <2>3, <2>1
<1>3. CASE UNCHANGED syncVars
  BY <1>3 DEF syncVars, PlanInv, LatestFingerprint
<1>4. CASE EditPlan
  <2>1. LatestFingerprint' = LatestFingerprint
    BY <1>4 DEF EditPlan, LatestFingerprint
  <2> QED BY <1>1, <1>2, <1>4, <2>1 DEF EditPlan, PlanInv
<1>5. CASE BeginSync
  <2>1. LatestFingerprint' = LatestFingerprint
    BY <1>5 DEF BeginSync, LatestFingerprint
  <2>2. sync' = [step |-> "create", fingerprint |-> plan] /\ LatestFingerprint < plan
    BY <1>2, <1>5 DEF BeginSync, PlanInv
  <2> QED BY <1>1, <1>2, <1>5, <2>1, <2>2 DEF BeginSync, PlanInv
<1>6. CASE CreatePrice
  <2>1. LatestFingerprint' = LatestFingerprint
    BY <1>6 DEF CreatePrice, LatestFingerprint
  <2>2. Len(prices) + 1 \in 1 .. MaxPlan + 1 /\ sync.fingerprint \in 1 .. MaxPlan
    BY <1>1, <1>2, <1>6 DEF CreatePrice, PlanInv
  <2>3. remote' = [remote EXCEPT ![Len(prices) + 1] = IF @ # 0 THEN @ ELSE sync.fingerprint]
    BY <1>6 DEF CreatePrice
  <2>4. remote' \in [1 .. MaxPlan + 1 -> 0 .. MaxPlan] /\ remote'[Len(prices) + 1] # 0
    BY <1>1, <2>2, <2>3 DEF PlanInv
  <2> QED BY <1>1, <1>2, <1>6, <2>1, <2>4 DEF CreatePrice, PlanInv
<1>7. CASE StorePrice
  <2> DEFINE new == [fingerprint |-> sync.fingerprint, price |-> remote[Len(prices) + 1]]
  <2>1. Len(prices) + 1 \in 1 .. MaxPlan + 1 /\ sync.fingerprint \in 1 .. MaxPlan
        /\ remote[Len(prices) + 1] # 0
    BY <1>1, <1>2, <1>7, SMTT(30) DEF StorePrice, PlanInv
  <2>2. new \in PlanPrices /\ new.fingerprint = sync.fingerprint
    BY <1>1, <2>1 DEF PlanPrices, PlanInv
  <2>3. prices' = Append(prices, new)
    BY <1>7 DEF StorePrice
  <2> HIDE DEF new
  <2>4. /\ prices' \in Seq(PlanPrices) /\ Len(prices') = Len(prices) + 1
        /\ prices'[Len(prices) + 1] = new
    BY <2>2, <2>3 DEF PlanInv
  <2>5. prices' # <<>>
    BY <1>2, <2>4
  <2>6. LatestFingerprint' = sync.fingerprint
    BY <2>2, <2>4, <2>5 DEF LatestFingerprint
  <2>7. Len(prices') <= sync.fingerprint /\ sync.fingerprint <= plan
    BY <1>1, <1>2, <1>7, <2>1, <2>4 DEF StorePrice, PlanInv
  <2> QED BY <1>1, <1>7, <2>4, <2>6, <2>7 DEF StorePrice, PlanInv
<1>8. CASE SyncDies
  <2>1. LatestFingerprint' = LatestFingerprint
    BY <1>8 DEF SyncDies, LatestFingerprint
  <2> QED BY <1>1, <1>8, <2>1 DEF SyncDies, PlanInv
<1>9. CASE OpenAttempt \/ BeginCheckout \/ CreateSession \/ StoreSession \/ CheckoutDies
           \/ SessionMoves
  BY <1>3, <1>9 DEF OpenAttempt, BeginCheckout, CreateSession, StoreSession, CheckoutDies,
                    SessionMoves
<1>10. CASE LockPurchase \/ CreateRefund \/ CommitWithdraw \/ WithdrawDies \/ Tick
            \/ BeginWithdraw \/ DeliverRefund
  BY <1>3, <1>10 DEF LockPurchase, CreateRefund, CommitWithdraw, WithdrawDies, Tick,
                     BeginWithdraw, DeliverRefund
<1>11. CASE \/ \E event \in CheckoutEvents : DeliverCheckout(event)
            \/ \E ref \in Debits : Reverse(ref) \/ \E amount \in Amounts : Debit(ref, amount)
            \/ \E i \in DOMAIN entries : Expire(i)
  BY <1>3, <1>11 DEF DeliverCheckout, Reverse, Debit, Expire
<1>12. CASE UNCHANGED ledgerVars
  BY <1>3, <1>12 DEF ledgerVars
<1> QED BY <1>4, <1>5, <1>6, <1>7, <1>8, <1>9, <1>10, <1>11, <1>12, LedgerMoves DEF LedgerNext

\* The checkout keeps its types.
LEMMA CheckoutTyped ==
  ASSUME CheckoutTypes, [Next]_vars
  PROVE  CheckoutTypes'
<1> USE DEF CheckoutTypes
<1>1. CASE UNCHANGED checkoutVars
  BY <1>1 DEF checkoutVars
<1>2. CASE OpenAttempt \/ BeginCheckout \/ CreateSession \/ StoreSession \/ CheckoutDies
  BY <1>2 DEF OpenAttempt, BeginCheckout, CreateSession, StoreSession, CheckoutDies
<1>3. CASE SessionMoves
  <2>1. PICK move \in Moves : session' = move[2] /\ UNCHANGED <<attempt, request>>
    BY <1>3 DEF SessionMoves
  <2> QED BY <2>1 DEF Moves
<1>4. ASSUME NEW event, DeliverCheckout(event) PROVE CheckoutTypes'
  BY <1>4 DEF DeliverCheckout, Updated, Target
<1>5. CASE EditPlan \/ BeginSync \/ CreatePrice \/ StorePrice \/ SyncDies
  BY <1>1, <1>5 DEF EditPlan, BeginSync, CreatePrice, StorePrice, SyncDies
<1>6. CASE LockPurchase \/ CreateRefund \/ CommitWithdraw \/ WithdrawDies \/ Tick
            \/ BeginWithdraw \/ DeliverRefund
  BY <1>1, <1>6 DEF LockPurchase, CreateRefund, CommitWithdraw, WithdrawDies, Tick,
                    BeginWithdraw, DeliverRefund
<1>7. CASE \/ \E ref \in Debits : Reverse(ref) \/ \E amount \in Amounts : Debit(ref, amount)
           \/ \E i \in DOMAIN entries : Expire(i)
  BY <1>1, <1>7 DEF Reverse, Debit, Expire
<1>8. CASE UNCHANGED ledgerVars
  BY <1>1, <1>8 DEF ledgerVars
<1> QED BY <1>2, <1>3, <1>4, <1>5, <1>6, <1>7, <1>8, LedgerMoves DEF LedgerNext

-------------------------------------------------------------------------------
(* The types of the declarations, their mails and their batch.               *)

MailAt == {"look", "deliver", "mark"}
BusyAt == MailAt \cup {"finish"}
ApplyRow ==
  [at: {"idle", "begin", "own", "locked", "contract", "status"}, ok: BOOLEAN]
ContractRow == [status: {"active", "withdrawn"}, review: BOOLEAN]

\* What a job at work is about: a stored declaration, one of the public form
\* while it is finished or confirmed, and then with a token.
About(n, rows) ==
  n.at \in BusyAt =>
    /\ n.form \in Forms /\ rows[n.form] # None
    /\ n.at = "finish" \/ n.what = "confirm" => n.form \in Public
    /\ n.at # "finish" /\ n.what = "confirm" => n.token \in Nonces

MailTyped ==
  /\ contract \in ContractRow
  /\ decl \in [Forms -> Declaration \cup {None}]
  /\ link \subseteq Public \X Nonces
  /\ job \in [Jobs -> Job]
  /\ phase \in 1 .. 4 /\ todo \subseteq Forms
  /\ apply \in [Forms -> ApplyRow]
  /\ \A d \in todo : decl[d] # None /\ (phase # 2 => d \in Public)
  /\ \A j \in Jobs : About(job[j], decl)
  /\ \A d \in Forms : apply[d].at # "idle" => decl[d] # None

\* Who is who, as facts to cite.
LEMMA Names ==
  /\ \A d \in Public : d \in Forms /\ d \in Jobs /\ d # Batch /\ d \notin Own
  /\ \A d \in Own : d \in Forms /\ d \notin Public /\ d # Batch
  /\ Batch \in Jobs /\ Batch \notin Forms
  /\ \A j \in Jobs : j = Batch \/ j \in Public
  /\ None \notin Declaration
BY DeclarationsAssumption DEF DeclarationsAssumption, Forms, Jobs

\* At most one row is saved.
Saves ==
  decl' = decl \/ \E d \in Forms, r \in Declaration : decl' = [decl EXCEPT ![d] = r]

\* A row is saved: the others stay, and no row goes.
LEMMA RowSaved ==
  ASSUME MailTyped, NEW d \in Forms, NEW r \in Declaration, decl' = [decl EXCEPT ![d] = r]
  PROVE  /\ decl' \in [Forms -> Declaration \cup {None}] /\ decl'[d] = r /\ r # None
         /\ \A e \in Forms \ {d} : decl'[e] = decl[e]
         /\ \A e \in Forms : decl[e] # None => decl'[e] # None
BY Names DEF MailTyped

\* A row that was stored is a declaration.
LEMMA RowStored ==
  ASSUME MailTyped, NEW d \in Forms, decl[d] # None
  PROVE  /\ decl[d] \in Declaration
         /\ decl[d].hash \in Nonces \cup {None} /\ decl[d].status \in
              {"received", "awaiting_confirmation", "needs_review", "effective", "rejected"}
BY DEF MailTyped, Declaration

\* Jobs that keep their declaration, or rest, stay typed while no row goes.
LEMMA JobsTyped ==
  ASSUME MailTyped, decl' \in [Forms -> Declaration \cup {None}],
         \A e \in Forms : decl[e] # None => decl'[e] # None,
         NEW j \in Jobs, NEW n \in Job, job' = [job EXCEPT ![j] = n], About(n, decl')
  PROVE  job' \in [Jobs -> Job] /\ \A k \in Jobs : About(job'[k], decl')
<1>1. job' \in [Jobs -> Job] /\ job'[j] = n /\ \A k \in Jobs \ {j} : job'[k] = job[k]
  BY DEF MailTyped
<1>2. ASSUME NEW k \in Jobs PROVE About(job'[k], decl')
  <2>1. CASE k = j
    BY <1>1, <2>1 DEF About
  <2>2. CASE k # j
    <3>1. job'[k] = job[k] /\ About(job[k], decl)
      BY <1>1, <2>2 DEF MailTyped
    <3> QED BY <3>1 DEF About
  <2> QED BY <2>1, <2>2
<1> QED BY <1>1, <1>2

\* At first nothing is stored.
LEMMA MailInit == Init => MailTyped
<1>1. ASSUME Init PROVE MailTyped
  <2>1. /\ contract = [status |-> "active", review |-> FALSE]
        /\ decl = [d \in Forms |-> None] /\ link = {} /\ phase = 1 /\ todo = {}
        /\ job = [j \in Jobs |-> NoJob] /\ apply = [d \in Forms |-> Nobody]
    BY <1>1 DEF Init
  <2>2. NoJob \in Job /\ NoJob.at = "idle" /\ Nobody \in ApplyRow /\ Nobody.at = "idle"
    BY DEF NoJob, Job, Nobody, ApplyRow
  <2>3. contract \in ContractRow
    BY <2>1 DEF ContractRow
  <2> QED BY <2>1, <2>2, <2>3 DEF MailTyped, About, BusyAt, MailAt
<1> QED BY <1>1

\* The steps of the application of a declaration: they save the contract, one
\* row and who applies it, and mail nothing.
LEMMA ApplyTyped ==
  ASSUME MailTyped, UNCHANGED mailVars, contract' \in ContractRow, Saves,
         apply' \in [Forms -> ApplyRow],
         \A e \in Forms : apply'[e].at # "idle" => decl'[e] # None
  PROVE  MailTyped'
<1>1. /\ decl' \in [Forms -> Declaration \cup {None}]
      /\ \A e \in Forms : decl[e] # None => decl'[e] # None
  BY RowSaved DEF MailTyped, Saves
<1>2. job' = job /\ link' = link /\ phase' = phase /\ todo' = todo
  BY DEF mailVars
<1>3. \A k \in Jobs : About(job'[k], decl')
  <2> TAKE k \in Jobs
  <2>1. About(job[k], decl)
    BY DEF MailTyped
  <2> QED BY <1>1, <1>2, <2>1 DEF About
<1> QED BY <1>1, <1>2, <1>3 DEF MailTyped

\* The steps of the mails and of the batch: a row may be saved and a job goes on
\* about a stored declaration; nobody starts to apply one.
LEMMA JobTyped ==
  ASSUME MailTyped, UNCHANGED <<contract, apply>>, Saves,
         NEW j \in Jobs, NEW n \in Job, About(n, decl'),
         job' = [job EXCEPT ![j] = n] \/ job' = job,
         link' \subseteq Public \X Nonces, phase' \in 1 .. 4, todo' \subseteq Forms,
         \A e \in todo' : decl'[e] # None /\ (phase' # 2 => e \in Public)
  PROVE  MailTyped'
<1>1. /\ decl' \in [Forms -> Declaration \cup {None}]
      /\ \A e \in Forms : decl[e] # None => decl'[e] # None
  BY RowSaved DEF MailTyped, Saves
<1>2. job' \in [Jobs -> Job] /\ \A k \in Jobs : About(job'[k], decl')
  <2>1. CASE job' = [job EXCEPT ![j] = n]
    BY <1>1, <2>1, JobsTyped
  <2>2. CASE job' = job
    <3>1. ASSUME NEW k \in Jobs PROVE About(job'[k], decl')
      <4>1. About(job[k], decl)
        BY DEF MailTyped
      <4> QED BY <1>1, <2>2, <4>1 DEF About
    <3> QED BY <2>2, <3>1 DEF MailTyped
  <2> QED BY <2>1, <2>2
<1> QED BY <1>1, <1>2 DEF MailTyped

\* Where a job stands that looks a mail up, or rests.
LEMMA Looks ==
  ASSUME NEW d \in Forms, NEW what \in {"ack", "confirm"}, NEW token \in Nonces \cup {None},
         NEW whole \in BOOLEAN, NEW rows, rows[d] # None,
         what = "confirm" => d \in Public /\ token \in Nonces
  PROVE  LET n == [at |-> "look", what |-> what, form |-> d, token |-> token,
                   whole |-> whole, ok |-> FALSE] IN n \in Job /\ About(n, rows)
BY DEF Job, About, BusyAt, MailAt

\* A job that rests is about nothing.
LEMMA Rests ==
  ASSUME NEW j, NEW rows
  PROVE  Rest(j) \in Job /\ About(Rest(j), rows)
BY DEF Rest, NoJob, Job, About, BusyAt, MailAt

\* A job that is sent elsewhere keeps what it is about.
LEMMA Goes ==
  ASSUME MailTyped, NEW j \in Jobs, NEW at \in {"idle", "deliver", "mark", "next"},
         at \in MailAt => job[j].at \in MailAt, NEW ok \in BOOLEAN
  PROVE  LET n == [job[j] EXCEPT !.at = at, !.ok = ok] IN n \in Job /\ About(n, decl)
<1>1. job[j] \in Job /\ About(job[j], decl)
  BY DEF MailTyped
<1> QED BY <1>1 DEF Job, About, BusyAt, MailAt

\* After a mail the job is about the acknowledgement, or rests.
LEMMA AfterMailIs ==
  ASSUME MailTyped, NEW j \in Jobs, job[j].at \in MailAt, AfterMail(j),
         NEW rows, rows[job[j].form] # None
  PROVE  \E n \in Job : job' = [job EXCEPT ![j] = n] /\ About(n, rows)
<1>1. About(job[j], decl) /\ job[j].form \in Forms
  BY DEF MailTyped, About, BusyAt
<1>2. CASE job[j].whole /\ job[j].what = "confirm"
  <2> DEFINE n == [at |-> "look", what |-> "ack", form |-> job[j].form, token |-> None,
                   whole |-> TRUE, ok |-> FALSE]
  <2>1. n \in Job /\ About(n, rows)
    BY <1>1, Looks
  <2>2. job' = [job EXCEPT ![j] = n]
    BY <1>2 DEF AfterMail, Look
  <2> QED BY <2>1, <2>2
<1>3. CASE ~(job[j].whole /\ job[j].what = "confirm")
  <2>1. job' = [job EXCEPT ![j] = Rest(j)]
    BY <1>3 DEF AfterMail, Done
  <2> QED BY <2>1, Rests
<1> QED BY <1>2, <1>3

\* A job's own steps.
LEMMA JobStepTyped ==
  ASSUME MailTyped, NEW j \in Jobs, JobStep(j)
  PROVE  MailTyped'
<1> DEFINE d == job[j].form
<1>0. /\ job[j] \in Job /\ job \in [Jobs -> Job] /\ About(job[j], decl)
      /\ phase \in 1 .. 4 /\ todo \subseteq Forms /\ link \subseteq Public \X Nonces
      /\ \A e \in todo : decl[e] # None /\ (phase # 2 => e \in Public)
  BY DEF MailTyped
<1>1. CASE Finish(j)
  <2>1. d \in Public /\ d \in Forms /\ decl[d] # None /\ decl[d] \in Declaration
    BY <1>0, <1>1, RowStored, Names DEF Finish, About, BusyAt
  <2>2. UNCHANGED <<contract, apply, link, phase, todo>>
    BY <1>1 DEF Finish
  <2>3. CASE Done(j) /\ UNCHANGED decl
    <3>1. job' = [job EXCEPT ![j] = Rest(j)]
      BY <2>3 DEF Done
    <3> QED BY <1>0, <2>1, <2>2, <2>3, <3>1, Rests, JobTyped DEF Saves
  <2>4. CASE /\ Unused(d) # {}
             /\ decl' = [decl EXCEPT ![d].status = "awaiting_confirmation",
                                     ![d].linked = TRUE, ![d].hash = Fresh(d)]
             /\ Look(j, "confirm", d, Fresh(d), TRUE)
    <3> DEFINE n == [at |-> "look", what |-> "confirm", form |-> d, token |-> Fresh(d),
                     whole |-> TRUE, ok |-> FALSE]
    <3> DEFINE r == [decl[d] EXCEPT !.status = "awaiting_confirmation", !.linked = TRUE,
                                    !.hash = Fresh(d)]
    <3>1. Fresh(d) \in Nonces
      BY <2>4 DEF Fresh, Unused
    <3>2. r \in Declaration /\ r # None
      BY <2>1, <3>1, Names, ZenonT(60) DEF Declaration
    <3>3. decl' = [decl EXCEPT ![d] = r]
      BY <2>4
    <3>4. decl'[d] # None
      BY <2>1, <3>2, <3>3, RowSaved
    <3>5. n \in Job /\ About(n, decl')
      BY <2>1, <3>1, <3>4, Looks
    <3>6. job' = [job EXCEPT ![j] = n]
      BY <2>4 DEF Look
    <3>7. \A e \in todo' : decl'[e] # None /\ (phase' # 2 => e \in Public)
      BY <1>0, <2>1, <2>2, <3>2, <3>3, RowSaved
    <3> HIDE DEF n, r
    <3> QED BY <1>0, <2>1, <2>2, <3>2, <3>3, <3>5, <3>6, <3>7, JobTyped DEF Saves
  <2>5. CASE /\ decl' = [decl EXCEPT ![d].status = "needs_review"]
             /\ Look(j, "ack", d, None, TRUE)
    <3> DEFINE n == [at |-> "look", what |-> "ack", form |-> d, token |-> None,
                     whole |-> TRUE, ok |-> FALSE]
    <3> DEFINE r == [decl[d] EXCEPT !.status = "needs_review"]
    <3>2. r \in Declaration /\ r # None
      BY <2>1, Names DEF Declaration
    <3>3. decl' = [decl EXCEPT ![d] = r]
      BY <2>5
    <3>4. decl'[d] # None
      BY <2>1, <3>2, <3>3, RowSaved
    <3>5. n \in Job /\ About(n, decl')
      BY <2>1, <3>4, Looks
    <3>6. job' = [job EXCEPT ![j] = n]
      BY <2>5 DEF Look
    <3>7. \A e \in todo' : decl'[e] # None /\ (phase' # 2 => e \in Public)
      BY <1>0, <2>1, <2>2, <3>2, <3>3, RowSaved
    <3> HIDE DEF n, r
    <3> QED BY <1>0, <2>1, <2>2, <3>2, <3>3, <3>5, <3>6, <3>7, JobTyped DEF Saves
  <2> QED BY <1>1, <2>3, <2>4, <2>5 DEF Finish
<1>2. CASE LookUp(j)
  <2>1. job[j].at \in MailAt /\ d \in Forms /\ decl[d] # None
    BY <1>0, <1>2 DEF LookUp, About, BusyAt, MailAt
  <2>2. UNCHANGED <<contract, decl, apply, link, phase, todo>>
    BY <1>2 DEF LookUp, rowVars
  <2>3. CASE AfterMail(j)
    <3>1. PICK n \in Job : job' = [job EXCEPT ![j] = n] /\ About(n, decl)
      BY <2>1, <2>3, AfterMailIs
    <3> QED BY <1>0, <2>1, <2>2, <3>1, JobTyped DEF Saves
  <2>4. CASE Goto(j, "deliver")
    <3> DEFINE n == [job[j] EXCEPT !.at = "deliver", !.ok = job[j].ok]
    <3>1. n \in Job /\ About(n, decl)
      <4>1. job[j].ok \in BOOLEAN
        BY <1>0 DEF Job
      <4> QED BY <1>0, <2>1, <4>1, Goes
    <3>2. job' = [job EXCEPT ![j] = n]
      BY <1>0, <2>4 DEF Goto, Job
    <3> HIDE DEF n
    <3> QED BY <1>0, <2>1, <2>2, <3>1, <3>2, JobTyped DEF Saves
  <2> QED BY <1>2, <2>3, <2>4 DEF LookUp
<1>3. CASE Deliver(j)
  <2>1. job[j].at \in MailAt /\ d \in Forms /\ decl[d] # None
    BY <1>0, <1>3 DEF Deliver, About, BusyAt, MailAt
  <2>2. UNCHANGED <<contract, decl, apply, phase, todo>>
    BY <1>3 DEF Deliver, rowVars
  <2>3. link' \subseteq Public \X Nonces
    BY <1>0, <1>3 DEF Deliver, About, BusyAt, MailAt
  <2>4. ASSUME NEW ok \in BOOLEAN, job' = [job EXCEPT ![j].at = "mark", ![j].ok = ok]
        PROVE  MailTyped'
    <3> DEFINE n == [job[j] EXCEPT !.at = "mark", !.ok = ok]
    <3>1. n \in Job /\ About(n, decl)
      BY <1>0, <2>1, Goes
    <3>2. job' = [job EXCEPT ![j] = n]
      BY <1>0, <2>4
    <3> HIDE DEF n
    <3> QED BY <1>0, <2>1, <2>2, <2>3, <3>1, <3>2, JobTyped DEF Saves
  <2>5. CASE Goto(j, "mark")
    <3>1. job[j].ok \in BOOLEAN /\ job' = [job EXCEPT ![j].at = "mark", ![j].ok = job[j].ok]
      BY <1>0, <2>5 DEF Goto, Job
    <3> QED BY <2>4, <3>1
  <2> QED BY <1>3, <2>4, <2>5 DEF Deliver
<1>4. CASE Mark(j)
  <2>1. job[j].at \in MailAt /\ d \in Forms /\ decl[d] # None /\ decl[d] \in Declaration
    BY <1>0, <1>4, RowStored DEF Mark, About, BusyAt, MailAt
  <2>2. UNCHANGED <<contract, apply, link, phase, todo>> /\ AfterMail(j)
    BY <1>4 DEF Mark
  <2> DEFINE status == IF job[j].ok THEN "sent" ELSE "failed"
  <2>3. \E r \in Declaration : decl' = [decl EXCEPT ![d] = r]
    <3>1. CASE job[j].what = "ack"
      <4>1. decl' = [decl EXCEPT ![d] = [decl[d] EXCEPT !.ack = status]]
        BY <1>4, <3>1 DEF Mark
      <4>2. [decl[d] EXCEPT !.ack = status] \in Declaration
        BY <2>1 DEF Declaration, Mails
      <4> QED BY <4>1, <4>2
    <3>2. CASE job[j].what # "ack"
      <4>1. decl' = [decl EXCEPT ![d] = [decl[d] EXCEPT !.confirm = status]]
        BY <1>4, <3>2 DEF Mark
      <4>2. [decl[d] EXCEPT !.confirm = status] \in Declaration
        BY <2>1 DEF Declaration, Mails
      <4> QED BY <4>1, <4>2
    <3> QED BY <3>1, <3>2
  <2>4. PICK r \in Declaration : decl' = [decl EXCEPT ![d] = r]
    BY <2>3
  <2>5. decl'[d] # None /\ \A e \in Forms : decl[e] # None => decl'[e] # None
    BY <2>1, <2>4, RowSaved
  <2>6. PICK n \in Job : job' = [job EXCEPT ![j] = n] /\ About(n, decl')
    BY <2>1, <2>2, <2>5, AfterMailIs
  <2>7. \A e \in todo' : decl'[e] # None /\ (phase' # 2 => e \in Public)
    BY <1>0, <2>2, <2>5
  <2> QED BY <1>0, <2>1, <2>2, <2>4, <2>6, <2>7, JobTyped DEF Saves
<1> QED BY <1>1, <1>2, <1>3, <1>4 DEF JobStep

\* A row whose saved form is a declaration, and who is left in the batch's query.
LEMMA SavedTyped ==
  ASSUME MailTyped, NEW d \in Forms, decl[d] # None,
         NEW status \in {"received", "awaiting_confirmation", "needs_review", "effective",
                         "rejected"},
         NEW hash \in Nonces \cup {None}, NEW lapsed \in BOOLEAN
  PROVE  /\ [decl[d] EXCEPT !.status = status] \in Declaration
         /\ [decl[d] EXCEPT !.status = status, !.hash = hash] \in Declaration
         /\ [decl[d] EXCEPT !.hash = hash] \in Declaration
         /\ [decl[d] EXCEPT !.lapsed = lapsed] \in Declaration
<1>1. decl[d] \in Declaration
  BY RowStored
<1> QED BY <1>1 DEF Declaration

\* The steps of the batch.
LEMMA BatchTyped == ASSUME MailTyped, BatchStep PROVE MailTyped'
<1>0. /\ job[Batch] \in Job /\ job \in [Jobs -> Job] /\ Batch \in Jobs
      /\ phase \in 1 .. 4 /\ todo \subseteq Forms /\ link \subseteq Public \X Nonces
      /\ \A e \in todo : decl[e] # None /\ (phase # 2 => e \in Public)
  BY Names DEF MailTyped
<1>1. ASSUME NEW loop \in 1 .. 4, BeginLoop(loop) PROVE MailTyped'
  <2>1. UNCHANGED <<contract, decl, apply, link>> /\ phase' = loop /\ todo' = Due(loop)
    BY <1>1 DEF BeginLoop, rowVars
  <2> DEFINE n == [job[Batch] EXCEPT !.at = "next", !.ok = job[Batch].ok]
  <2>2. n \in Job /\ About(n, decl)
    <3>1. job[Batch].ok \in BOOLEAN /\ "next" \notin MailAt
      BY <1>0 DEF Job, MailAt
    <3> QED BY <1>0, <3>1, Goes
  <2>3. job' = [job EXCEPT ![Batch] = n]
    BY <1>0, <1>1 DEF BeginLoop, Goto, Job
  <2>4. \A e \in Stuck \cup Undelivered(TRUE) \cup Undelivered(FALSE) :
          e \in Public /\ e \in Forms /\ decl[e] # None
    BY Names DEF Stuck, Undelivered, Is
  <2>5. ASSUME NEW e \in Due(loop)
        PROVE  e \in Forms /\ decl[e] # None /\ (loop # 2 => e \in Public)
    <3>1. CASE loop = 1
      <4>1. Due(loop) = Stuck
        BY <3>1 DEF Due
      <4> QED BY <2>4, <4>1, <2>5
    <3>2. CASE loop = 2
      <4>1. Due(loop) = Unacknowledged
        BY <3>2 DEF Due
      <4> QED BY <3>2, <4>1, <2>5 DEF Unacknowledged
    <3>3. CASE loop = 3
      <4>1. Due(loop) = {d \in Undelivered(FALSE) : Apart(d)}
        BY <3>3 DEF Due
      <4> QED BY <2>4, <4>1, <2>5
    <3>4. CASE loop = 4
      <4>1. Due(loop) = Undelivered(TRUE)
        BY <3>4 DEF Due
      <4> QED BY <2>4, <4>1, <2>5
    <3> QED BY <3>1, <3>2, <3>3, <3>4
  <2> HIDE DEF n
  <2>6. todo' \subseteq Forms /\ phase' \in 1 .. 4
        /\ \A e \in todo' : decl'[e] # None /\ (phase' # 2 => e \in Public)
    BY <2>1, <2>5
  <2>7. Saves /\ link' \subseteq Public \X Nonces /\ UNCHANGED <<contract, apply>>
    BY <1>0, <2>1 DEF Saves
  <2>8. About(n, decl')
    BY <2>1, <2>2
  <2> QED BY <1>0, <2>2, <2>3, <2>6, <2>7, <2>8, JobTyped
<1>2. CASE BeginBatch \/ NextLoop
  BY <1>0, <1>1, <1>2 DEF BeginBatch, NextLoop
<1>3. CASE EndBatch
  <2> DEFINE n == [job[Batch] EXCEPT !.at = "idle", !.ok = job[Batch].ok]
  <2>1. n \in Job /\ About(n, decl)
    <3>1. job[Batch].ok \in BOOLEAN /\ "idle" \notin MailAt
      BY <1>0 DEF Job, MailAt
    <3> QED BY <1>0, <3>1, Goes
  <2>2. job' = [job EXCEPT ![Batch] = n]
    BY <1>0, <1>3 DEF EndBatch, Goto, Job
  <2>3. UNCHANGED <<contract, decl, apply, link>> /\ phase' = 1 /\ todo' = {}
    BY <1>0, <1>3 DEF EndBatch, rowVars
  <2> HIDE DEF n
  <2>4. /\ Saves /\ link' \subseteq Public \X Nonces /\ UNCHANGED <<contract, apply>>
        /\ phase' \in 1 .. 4 /\ todo' \subseteq Forms
        /\ \A e \in todo' : decl'[e] # None /\ (phase' # 2 => e \in Public)
    BY <1>0, <2>3 DEF Saves
  <2>5. About(n, decl')
    BY <2>1, <2>3
  <2> QED BY <1>0, <2>1, <2>2, <2>4, <2>5, JobTyped
<1>4. ASSUME NEW d \in Forms, FinishStuck(d) PROVE MailTyped'
  <2>1. /\ UNCHANGED <<contract, decl, apply, link, phase>>
        /\ todo' = todo \ {d} /\ d \in todo /\ phase = 1
    BY <1>4 DEF FinishStuck, TakeUp, rowVars
  <2>2. d \in Public /\ decl[d] # None
    BY <1>0, <2>1
  <2>3. Finishing(d) \in Job /\ About(Finishing(d), decl)
    BY <2>2 DEF Finishing, NoJob, Job, About, BusyAt, MailAt
  <2>4. job' = [job EXCEPT ![Batch] = Finishing(d)]
    BY <1>4 DEF FinishStuck
  <2> QED BY <1>0, <2>1, <2>3, <2>4, JobTyped DEF Saves
<1>5. ASSUME NEW d \in Forms, Acknowledge(d) PROVE MailTyped'
  <2>1. /\ UNCHANGED <<contract, decl, apply, link, phase>>
        /\ todo' = todo \ {d} /\ d \in todo
    BY <1>5 DEF Acknowledge, TakeUp, rowVars
  <2> DEFINE n == [at |-> "look", what |-> "ack", form |-> d, token |-> None,
                   whole |-> FALSE, ok |-> FALSE]
  <2>2. n \in Job /\ About(n, decl)
    BY <1>0, <2>1, Looks
  <2>3. job' = [job EXCEPT ![Batch] = n]
    BY <1>5 DEF Acknowledge, Look
  <2> HIDE DEF n
  <2> QED BY <1>0, <2>1, <2>2, <2>3, JobTyped DEF Saves
<1>6. ASSUME NEW d \in Forms, Renew(d) PROVE MailTyped'
  <2>1. /\ UNCHANGED <<contract, apply, phase>> /\ phase = 3
        /\ todo' = todo \ {d} /\ d \in todo /\ link' \subseteq link
    BY <1>6 DEF Renew, TakeUp, rowVars
  <2>2. Fresh(d) \in Nonces
    BY <1>6 DEF Renew, Fresh, Unused
  <2> DEFINE n == [at |-> "look", what |-> "confirm", form |-> d, token |-> Fresh(d),
                   whole |-> FALSE, ok |-> FALSE]
  <2> DEFINE r == [decl[d] EXCEPT !.hash = Fresh(d)]
  <2>3. d \in Public /\ decl[d] # None
    BY <1>0, <2>1
  <2>4. r \in Declaration /\ decl' = [decl EXCEPT ![d] = r]
    BY <1>6, <2>2, <2>3, SavedTyped DEF Renew, Saved
  <2>5. decl'[d] # None /\ \A e \in Forms : decl[e] # None => decl'[e] # None
    BY <2>3, <2>4, RowSaved
  <2>6. n \in Job /\ About(n, decl')
    BY <2>2, <2>3, <2>5, Looks
  <2>7. job' = [job EXCEPT ![Batch] = n]
    BY <1>6 DEF Renew, Look
  <2>8. \A e \in todo' : decl'[e] # None /\ (phase' # 2 => e \in Public)
    BY <1>0, <2>1, <2>5
  <2> HIDE DEF n, r
  <2> QED BY <1>0, <2>1, <2>4, <2>6, <2>7, <2>8, JobTyped DEF Saves
<1>7. ASSUME NEW d \in Forms, GiveUp(d) PROVE MailTyped'
  <2>1. /\ UNCHANGED <<contract, apply, phase, link, job>>
        /\ todo' = todo \ {d} /\ d \in todo
    BY <1>7 DEF GiveUp, TakeUp, rowVars
  <2> DEFINE r == [decl[d] EXCEPT !.status = "needs_review"]
  <2>2. decl[d] # None
    BY <1>0, <2>1
  <2>3. r \in Declaration /\ decl' = [decl EXCEPT ![d] = r]
    BY <1>7, <2>2, SavedTyped DEF GiveUp
  <2>4. decl'[d] # None /\ \A e \in Forms : decl[e] # None => decl'[e] # None
    BY <2>2, <2>3, RowSaved
  <2>5. \A e \in todo' : decl'[e] # None /\ (phase' # 2 => e \in Public)
    BY <1>0, <2>1, <2>4
  <2> HIDE DEF r
  <2>6. Rest(Batch) \in Job /\ About(Rest(Batch), decl')
    BY Rests
  <2> QED BY <1>0, <2>1, <2>3, <2>5, <2>6, JobTyped DEF Saves
<1> QED BY <1>2, <1>3, <1>4, <1>5, <1>6, <1>7 DEF BatchStep

\* A submission is stored and its thread may start; a thread may die.
LEMMA SubmitTyped == ASSUME MailTyped, NEW d \in Public, Submit(d) PROVE MailTyped'
<1>0. /\ job \in [Jobs -> Job] /\ d \in Forms /\ d \in Jobs
      /\ phase \in 1 .. 4 /\ todo \subseteq Forms /\ link \subseteq Public \X Nonces
      /\ \A e \in todo : decl[e] # None /\ (phase # 2 => e \in Public)
  BY Names DEF MailTyped
<1>1. UNCHANGED <<contract, apply, link, phase, todo>>
  BY DEF Submit
<1>2. PICK owner \in BOOLEAN : decl' = [decl EXCEPT ![d] = Row(owner, FALSE)]
  BY DEF Submit
<1>3. Row(owner, FALSE) \in Declaration
  BY DEF Row, Declaration, Mails
<1>4. decl'[d] # None /\ \A e \in Forms : decl[e] # None => decl'[e] # None
  BY <1>0, <1>2, <1>3, RowSaved
<1>5. Finishing(d) \in Job /\ About(Finishing(d), decl')
  BY <1>0, <1>4 DEF Finishing, NoJob, Job, About, BusyAt, MailAt
<1>6. job' = [job EXCEPT ![d] = Finishing(d)] \/ job' = job
  BY DEF Submit
<1>7. \A e \in todo' : decl'[e] # None /\ (phase' # 2 => e \in Public)
  BY <1>0, <1>1, <1>4
<1> QED BY <1>0, <1>1, <1>2, <1>3, <1>5, <1>6, <1>7, JobTyped DEF Saves

\* A thread dies, or the batch.
LEMMA DeathTyped == ASSUME MailTyped, NEW j \in Jobs, JobDies(j) PROVE MailTyped'
<1>0. /\ job \in [Jobs -> Job] /\ phase \in 1 .. 4 /\ todo \subseteq Forms
      /\ link \subseteq Public \X Nonces
      /\ \A e \in todo : decl[e] # None /\ (phase # 2 => e \in Public)
  BY DEF MailTyped
<1>1. UNCHANGED <<contract, decl, apply, link, phase>> /\ todo' \subseteq todo
      /\ job' = [job EXCEPT ![j] = NoJob]
  BY DEF JobDies, rowVars
<1>2. NoJob \in Job /\ About(NoJob, decl)
  BY DEF NoJob, Job, About, BusyAt, MailAt
<1> QED BY <1>0, <1>1, <1>2, JobTyped DEF Saves

\* What the application of a declaration saves.
LEMMA Applications ==
  ASSUME MailTyped
  PROVE  /\ \A ok \in BOOLEAN : Contract(ok) \in ContractRow
         /\ \A ok : Outcome(ok) \in {"effective", "needs_review"}
         /\ Nobody \in ApplyRow /\ Nobody.at = "idle"
         /\ Withdrawn \in BOOLEAN
<1>1. contract \in ContractRow
  BY DEF MailTyped
<1>2. ASSUME NEW ok \in BOOLEAN PROVE Contract(ok) \in ContractRow
  BY <1>1 DEF Contract, ContractRow
<1>3. \A ok : Outcome(ok) \in {"effective", "needs_review"}
  BY DEF Outcome
<1>4. Nobody \in ApplyRow /\ Nobody.at = "idle"
  BY DEF Nobody, ApplyRow
<1>5. Withdrawn \in BOOLEAN
  BY DEF Withdrawn
<1> QED BY <1>2, <1>3, <1>4, <1>5

\* Who applies a declaration goes on to a place, or rests.
LEMMA ApplyMoves ==
  ASSUME MailTyped, NEW d \in Forms, NEW at, NEW n \in ApplyRow,
         at \in {"idle", "begin", "own", "locked", "contract", "status"},
         apply' = [apply EXCEPT ![d].at = at] \/ apply' = [apply EXCEPT ![d] = n]
  PROVE  /\ apply' \in [Forms -> ApplyRow]
         /\ \A e \in Forms \ {d} : apply'[e] = apply[e]
<1>1. apply \in [Forms -> ApplyRow] /\ apply[d] \in ApplyRow
  BY DEF MailTyped
<1>2. [apply[d] EXCEPT !.at = at] \in ApplyRow
  BY <1>1 DEF ApplyRow
<1>3. CASE apply' = [apply EXCEPT ![d].at = at]
  <2> DEFINE m == [apply[d] EXCEPT !.at = at]
  <2>1. apply' = [apply EXCEPT ![d] = m]
    BY <1>3
  <2> HIDE DEF m
  <2> QED BY <1>1, <1>2, <2>1 DEF m
<1>4. CASE apply' = [apply EXCEPT ![d] = n]
  BY <1>1, <1>4
<1> QED BY <1>3, <1>4

\* The rest of a step that saves a stored row and who applies it.
LEMMA AppliesTyped ==
  ASSUME MailTyped, UNCHANGED mailVars, contract' \in ContractRow,
         NEW d \in Forms, decl[d] # None, NEW r \in Declaration,
         decl' = decl \/ decl' = [decl EXCEPT ![d] = r],
         apply' \in [Forms -> ApplyRow],
         \A e \in Forms \ {d} : apply'[e].at = "idle" \/ apply'[e] = apply[e]
  PROVE  MailTyped'
<1>1. \A e \in Forms : decl[e] # None => decl'[e] # None
  BY RowSaved
<1>2. \A e \in Forms : apply'[e].at # "idle" => decl'[e] # None
  BY <1>1 DEF MailTyped
<1>3. Saves
  BY DEF Saves
<1> QED BY <1>2, <1>3, ApplyTyped

\* A link or the operator applies a declaration.
LEMMA LockedTyped ==
  ASSUME MailTyped, UNCHANGED mailVars, NEW d \in Forms, decl[d] # None, ApplyLocked(d)
  PROVE  MailTyped'
<1>0. apply \in [Forms -> ApplyRow] /\ contract \in ContractRow /\ decl[d] \in Declaration
  BY RowStored DEF MailTyped
<1>1. CASE Conclude(d, Withdrawn) /\ UNCHANGED apply
  <2> DEFINE ok == Withdrawn
  <2> DEFINE r == [decl[d] EXCEPT !.status = Outcome(ok), !.hash = None]
  <2>1. ok \in BOOLEAN
    BY Applications
  <2>2. contract' = Contract(ok) /\ decl' = [decl EXCEPT ![d] = r]
    BY <1>1 DEF Conclude
  <2>3. Outcome(ok) \in {"effective", "needs_review"} /\ Contract(ok) \in ContractRow
    BY <2>1, Applications
  <2>4. r \in Declaration
    BY <2>3, SavedTyped
  <2> HIDE DEF r, ok
  <2> QED BY <1>0, <1>1, <2>2, <2>3, <2>4, AppliesTyped
<1>2. CASE /\ apply' = [apply EXCEPT ![d].at = "locked"]
           /\ UNCHANGED <<contract, decl>>
  <2>1. Nobody \in ApplyRow
    BY Applications
  <2>2. apply' \in [Forms -> ApplyRow] /\ \A e \in Forms \ {d} : apply'[e] = apply[e]
    BY <1>2, <2>1, ApplyMoves
  <2> QED BY <1>0, <1>2, <2>2, AppliesTyped
<1> QED BY <1>1, <1>2 DEF ApplyLocked

\* The request of an owner, and what becomes of an open withdrawal.
LEMMA ReleasedTyped == ASSUME MailTyped, UNCHANGED mailVars, Released PROVE MailTyped'
<1>1. apply \in [Forms -> ApplyRow] /\ contract \in ContractRow /\ Nobody \in ApplyRow
      /\ Nobody.at = "idle"
  BY Applications DEF MailTyped
<1>2. /\ contract' = contract /\ decl' = decl /\ apply' \in [Forms -> ApplyRow]
      /\ \A e \in Forms : apply'[e].at = "idle" \/ apply'[e] = apply[e]
  BY <1>1 DEF Released
<1>3. \A e \in Forms : apply'[e].at # "idle" => decl'[e] # None
  BY <1>2 DEF MailTyped
<1> QED BY <1>1, <1>2, <1>3, ApplyTyped DEF Saves

\* An owner's request declares, applies and saves, or dies.
LEMMA OwnTyped ==
  ASSUME MailTyped, NEW d \in Own, OwnStep(d) \/ RequestDies(d) \/ DeclareOwn(d)
  PROVE  MailTyped'
<1>0. /\ apply \in [Forms -> ApplyRow] /\ contract \in ContractRow /\ d \in Forms
      /\ decl \in [Forms -> Declaration \cup {None}] /\ apply[d] \in ApplyRow
  BY Names DEF MailTyped
<1>1. apply[d].at # "idle" => decl[d] # None /\ decl[d] \in Declaration
  BY <1>0, RowStored DEF MailTyped
<1>2. CASE ApplyOwn(d)
  <2>1. UNCHANGED <<contract, decl>> /\ UNCHANGED mailVars /\ apply[d].at = "begin"
    BY <1>2 DEF ApplyOwn
  <2> DEFINE n == [at |-> "contract", ok |-> Withdrawn]
  <2>2. n \in ApplyRow
    BY Applications DEF ApplyRow
  <2>3. apply' = [apply EXCEPT ![d] = n] \/ apply' = [apply EXCEPT ![d].at = "own"]
    BY <1>2 DEF ApplyOwn
  <2> HIDE DEF n
  <2>4. apply' \in [Forms -> ApplyRow] /\ \A e \in Forms \ {d} : apply'[e] = apply[e]
    BY <1>0, <2>2, <2>3, ApplyMoves
  <2> QED BY <1>0, <1>1, <2>1, <2>4, AppliesTyped
<1>3. CASE SaveContract(d)
  <2>1. UNCHANGED decl /\ UNCHANGED mailVars /\ apply[d].at = "contract"
        /\ apply' = [apply EXCEPT ![d].at = "status"] /\ contract' = Contract(apply[d].ok)
    BY <1>3 DEF SaveContract
  <2>2. contract' \in ContractRow /\ Nobody \in ApplyRow
    BY <1>0, <2>1, Applications DEF ApplyRow
  <2>3. apply' \in [Forms -> ApplyRow] /\ \A e \in Forms \ {d} : apply'[e] = apply[e]
    BY <1>0, <2>1, <2>2, ApplyMoves
  <2> QED BY <1>0, <1>1, <2>1, <2>2, <2>3, AppliesTyped
<1>4. CASE SaveDeclaration(d)
  <2> DEFINE ok == apply[d].ok
  <2> DEFINE r == [decl[d] EXCEPT !.status = Outcome(ok)]
  <2>1. UNCHANGED contract /\ UNCHANGED mailVars /\ apply[d].at = "status"
        /\ apply' = [apply EXCEPT ![d] = Nobody] /\ decl' = [decl EXCEPT ![d] = r]
    BY <1>4 DEF SaveDeclaration
  <2>2. Outcome(ok) \in {"effective", "needs_review"} /\ Nobody \in ApplyRow
    BY Applications
  <2>3. r \in Declaration
    BY <1>0, <1>1, <2>1, <2>2, SavedTyped
  <2>4. apply' \in [Forms -> ApplyRow] /\ \A e \in Forms \ {d} : apply'[e] = apply[e]
    BY <1>0, <2>1, <2>2, ApplyMoves
  <2> HIDE DEF r, ok
  <2> QED BY <1>0, <1>1, <2>1, <2>3, <2>4, AppliesTyped
<1>5. CASE RequestDies(d)
  <2>1. UNCHANGED <<contract, decl>> /\ UNCHANGED mailVars /\ apply[d].at # "idle"
        /\ apply' = [apply EXCEPT ![d] = Nobody]
    BY <1>5 DEF RequestDies
  <2>2. Nobody \in ApplyRow
    BY Applications
  <2>3. apply' \in [Forms -> ApplyRow] /\ \A e \in Forms \ {d} : apply'[e] = apply[e]
    BY <1>0, <2>1, <2>2, ApplyMoves
  <2> QED BY <1>0, <1>1, <2>1, <2>3, AppliesTyped
<1>6. CASE DeclareOwn(d)
  <2>1. UNCHANGED contract /\ UNCHANGED mailVars
        /\ apply' = [apply EXCEPT ![d].at = "begin"]
        /\ decl' = [decl EXCEPT ![d] = Row(TRUE, TRUE)]
    BY <1>6 DEF DeclareOwn
  <2>2. Row(TRUE, TRUE) \in Declaration /\ Nobody \in ApplyRow
    BY Applications DEF Row, Declaration, Mails
  <2>3. apply' \in [Forms -> ApplyRow] /\ \A e \in Forms \ {d} : apply'[e] = apply[e]
    BY <1>0, <2>1, <2>2, ApplyMoves
  <2>4. decl'[d] # None /\ \A e \in Forms : decl[e] # None => decl'[e] # None
    BY <1>0, <2>1, <2>2, RowSaved
  <2>5. \A e \in Forms : apply'[e].at # "idle" => decl'[e] # None
    BY <2>3, <2>4 DEF MailTyped
  <2> QED BY <1>0, <2>1, <2>2, <2>3, <2>5, ApplyTyped DEF Saves
<1> QED BY <1>2, <1>3, <1>4, <1>5, <1>6 DEF OwnStep

\* Every step keeps the types.
LEMMA MailNext == MailTyped /\ [Next]_vars => MailTyped'
<1>0. SUFFICES ASSUME MailTyped, [Next]_vars PROVE MailTyped'
  OBVIOUS
<1>1. /\ apply \in [Forms -> ApplyRow] /\ contract \in ContractRow
      /\ decl \in [Forms -> Declaration \cup {None}]
      /\ \A e \in Forms : apply[e].at # "idle" => decl[e] # None
  BY <1>0 DEF MailTyped
<1>2. CASE UNCHANGED <<rowVars, mailVars>>
  BY <1>0, <1>1, <1>2, ApplyTyped DEF rowVars, Saves
<1>3. CASE CallStripe
  <2>1. UNCHANGED mailVars /\ (UNCHANGED rowVars \/ Released)
    BY <1>3 DEF CallStripe
  <2> QED BY <1>0, <1>2, <2>1, ReleasedTyped
<1>4. CASE ApplyingDies
  BY <1>0, <1>4, ReleasedTyped DEF ApplyingDies
<1>5. CASE CommitApplied
  <2>1. UNCHANGED mailVars
    BY <1>5 DEF CommitApplied
  <2>2. CASE /\ apply' = [d \in Forms |-> IF apply[d].at = "own"
                                          THEN [at |-> "contract", ok |-> TRUE] ELSE apply[d]]
             /\ UNCHANGED <<contract, decl>>
    <3>1. /\ apply' \in [Forms -> ApplyRow]
          /\ \A e \in Forms : apply'[e].at # "idle" => apply[e].at # "idle"
      BY <1>1, <2>2 DEF ApplyRow
    <3> QED BY <1>0, <1>1, <2>1, <2>2, <3>1, ApplyTyped DEF Saves
  <2>3. ASSUME NEW d \in Applying("locked"), Conclude(d, TRUE),
               apply' = [apply EXCEPT ![d] = Nobody]
        PROVE  MailTyped'
    <3>1. d \in Forms /\ decl[d] # None
      BY <1>1, <2>3 DEF Applying
    <3> DEFINE r == [decl[d] EXCEPT !.status = Outcome(TRUE), !.hash = None]
    <3>2. contract' = Contract(TRUE) /\ decl' = [decl EXCEPT ![d] = r]
      BY <2>3 DEF Conclude
    <3>3. /\ Outcome(TRUE) \in {"effective", "needs_review"} /\ Contract(TRUE) \in ContractRow
          /\ Nobody \in ApplyRow
      BY <1>0, Applications
    <3>4. r \in Declaration
      BY <1>0, <3>1, <3>3, SavedTyped
    <3>5. apply' \in [Forms -> ApplyRow] /\ \A e \in Forms \ {d} : apply'[e] = apply[e]
      BY <1>0, <2>3, <3>1, <3>3, ApplyMoves
    <3> HIDE DEF r
    <3> QED BY <1>0, <2>1, <3>1, <3>2, <3>3, <3>4, <3>5, AppliesTyped
  <2> QED BY <1>5, <2>2, <2>3 DEF CommitApplied
<1>6. ASSUME NEW d \in Forms, NEW r, UNCHANGED <<contract, apply, mailVars>>, decl[d] # None,
             r \in Declaration, decl' = [decl EXCEPT ![d] = r]
      PROVE  MailTyped'
  BY <1>0, <1>1, <1>6, AppliesTyped
<1>7. ASSUME NEW d \in Public, Submit(d) \/ Lapse(d) \/ Confirm(d) PROVE MailTyped'
  <2>1. d \in Forms
    BY Names
  <2>2. CASE Lapse(d)
    <3>1. decl[d] # None /\ UNCHANGED <<contract, apply, mailVars>>
      BY <2>2 DEF Lapse, Is
    <3> DEFINE r == [decl[d] EXCEPT !.lapsed = TRUE]
    <3>2. r \in Declaration /\ decl' = [decl EXCEPT ![d] = r]
      BY <1>0, <2>1, <2>2, <3>1, SavedTyped DEF Lapse
    <3> HIDE DEF r
    <3> QED BY <1>6, <2>1, <3>1, <3>2
  <2>3. CASE Confirm(d)
    <3>1. decl[d] # None /\ UNCHANGED mailVars /\ ApplyLocked(d)
      BY <2>3 DEF Confirm, Is
    <3> QED BY <1>0, <2>1, <3>1, LockedTyped
  <2> QED BY <1>0, <1>7, <2>2, <2>3, SubmitTyped
<1>8. ASSUME NEW d \in Forms, Accept(d) \/ Reject(d) PROVE MailTyped'
  <2>1. CASE Accept(d)
    <3>1. decl[d] # None /\ UNCHANGED mailVars /\ ApplyLocked(d)
      BY <2>1 DEF Accept
    <3> QED BY <1>0, <3>1, LockedTyped
  <2>2. CASE Reject(d)
    <3>1. decl[d] # None /\ UNCHANGED <<contract, apply, mailVars>>
      BY <2>2 DEF Reject
    <3> DEFINE r == [decl[d] EXCEPT !.status = "rejected"]
    <3>2. r \in Declaration /\ decl' = [decl EXCEPT ![d] = r]
      BY <1>0, <2>2, <3>1, SavedTyped DEF Reject
    <3> HIDE DEF r
    <3> QED BY <1>6, <3>1, <3>2
  <2> QED BY <1>8, <2>1, <2>2
<1>9. CASE LedgerStep(LedgerNext) \/ UNCHANGED vars
  BY <1>2, <1>9 DEF LedgerStep, vars
<1>10. ASSUME NEW j \in Jobs, JobStep(j) \/ JobDies(j) PROVE MailTyped'
  BY <1>0, <1>10, JobStepTyped, DeathTyped
<1>11. CASE BatchStep
  BY <1>0, <1>11, BatchTyped
<1>12. ASSUME NEW d \in Own, DeclareOwn(d) \/ OwnStep(d) \/ RequestDies(d) PROVE MailTyped'
  BY <1>0, <1>12, OwnTyped
<1> QED BY <1>0, <1>3, <1>4, <1>5, <1>7, <1>8, <1>9, <1>10, <1>11, <1>12 DEF Next

\* Every value the account, the checkout, the declarations and the batch take is
\* one the code can store: statuses and steps are known ones, what is left of an
\* entry is at most what it brought, a job is about a declaration that there is.
THEOREM TypeCorrect == Spec => []TypeOK
<1> DEFINE TInv == AccountInv /\ PlanInv /\ CheckoutTypes /\ MailTyped
<1>1. Init => TInv
  BY AccountInit, TypesInit, MailInit
<1>2. TInv /\ [Next]_vars => TInv'
  BY AccountNext, PlanNext, CheckoutTyped, MailNext
<1>3. TInv => TypeOK
  <2>0. SUFFICES ASSUME TInv PROVE TypeOK
    OBVIOUS
  <2>1. \A i \in DOMAIN entries : entries[i].remaining \in 0 .. entries[i].plus
    <3> SUFFICES ASSUME NEW i \in DOMAIN entries
                 PROVE  entries[i].remaining \in 0 .. entries[i].plus
      OBVIOUS
    <3>1. entries \in Seq(Rows) /\ entries[i].remaining <= entries[i].plus
      BY <2>0 DEF AccountInv, Booked
    <3>2. entries[i] \in Rows
      BY <3>1
    <3> QED BY <3>1, <3>2 DEF Rows
  <2>2. LedgerTypeOK
    BY <2>0, <2>1 DEF LedgerTypeOK, AccountInv, PlanInv, PlanPrices, CheckoutTypes, Statuses
  <2> QED BY <2>0, <2>2 DEF TypeOK, MailTyped, ApplyRow, ContractRow
<1> QED BY <1>1, <1>2, <1>3, PTL DEF Spec

-------------------------------------------------------------------------------
(* The links of the mails, where the batch meets no thread that is mailing.  *)

Waits(d) == Is(d, {"awaiting_confirmation"})
Mailing(j, d) == job[j].form = d /\ job[j].what = "confirm" /\ job[j].at \in MailAt

\* A declaration that is received has no link; what a job mails for one that
\* waits is its token; a mail that was taken, or counts as sent, is its link.
Linked(d) ==
  /\ Is(d, {"received"}) => decl[d].confirm # "sent" /\ \A j \in Jobs : ~Mailing(j, d)
  /\ Waits(d) /\ decl[d].confirm = "sent" => <<d, decl[d].hash>> \in link
  /\ \A j \in Jobs : Waits(d) /\ Mailing(j, d) =>
       /\ job[j].token = decl[d].hash
       /\ job[j].ok => <<d, decl[d].hash>> \in link

\* What the batch has still to renew is neither sent nor in a thread's hands.
Renewable(d) ==
  job[d].at = "idle" /\ decl[d].confirm # "sent" /\ decl[d].status # "received"

\* A thread is about its own declaration, the batch about none of its query.
Busy ==
  /\ \A d \in Public : job[d].at # "next" /\ (job[d].at \in BusyAt => job[d].form = d)
  /\ job[Batch].at \in BusyAt => job[Batch].form \notin todo

LinkInv ==
  /\ MailTyped /\ Busy
  /\ \A d \in Public : Linked(d)
  /\ phase = 3 => \A d \in todo : Renewable(d)

\* A row that stays as far as its link goes, or is decided.
Settles(d) ==
  \/ decl'[d] = decl[d]
  \/ /\ decl[d] # None /\ decl'[d].confirm = decl[d].confirm
     /\ \/ decl'[d].status = decl[d].status /\ decl'[d].hash = decl[d].hash
        \/ decl'[d].status \in {"needs_review", "effective", "rejected"}

\* A job is at rest, or sends again what it was sending, or has got it through.
SendsOn(j, n, d) ==
  n.form = d /\ n.what = "confirm" /\ n.at \in MailAt =>
    /\ Mailing(j, d) /\ n.token = job[j].token
    /\ n.ok => job[j].ok \/ <<d, n.token>> \in link'

\* What a step leaves alone of a declaration keeps it linked.
LEMMA LinkedKept ==
  ASSUME LinkInv, NEW d \in Public, Settles(d),
         \A token : <<d, token>> \in link => <<d, token>> \in link',
         \A k \in Jobs : SendsOn(k, job'[k], d)
  PROVE  Linked(d)'
<1>1. Linked(d)
  BY DEF LinkInv
<1>2. Is(d, {"received"})' => Is(d, {"received"})
  BY DEF Settles, Is
<1>3. ASSUME NEW k \in Jobs, Mailing(k, d)'
      PROVE  /\ Mailing(k, d) /\ job'[k].token = job[k].token
             /\ job'[k].ok => job[k].ok \/ <<d, job'[k].token>> \in link'
  BY <1>3 DEF Mailing, SendsOn
<1>4. Waits(d)' => Waits(d) /\ decl'[d].hash = decl[d].hash /\ decl'[d].confirm = decl[d].confirm
  BY DEF Settles, Is, Waits
<1>5. Is(d, {"received"})' =>
        decl'[d].confirm # "sent" /\ \A k \in Jobs : ~Mailing(k, d)'
  BY <1>1, <1>2, <1>3 DEF Linked, Settles, Is
<1>6. Waits(d)' /\ decl'[d].confirm = "sent" => <<d, decl'[d].hash>> \in link'
  BY <1>1, <1>4 DEF Linked
<1>7. ASSUME NEW k \in Jobs, Waits(d)', Mailing(k, d)'
      PROVE  /\ job'[k].token = decl'[d].hash
             /\ job'[k].ok => <<d, decl'[d].hash>> \in link'
  <2>1. /\ job[k].token = decl[d].hash
        /\ job[k].ok => <<d, decl[d].hash>> \in link
    BY <1>1, <1>3, <1>4, <1>7 DEF Linked
  <2> QED BY <1>3, <1>4, <1>7, <2>1
<1> QED BY <1>5, <1>6, <1>7 DEF Linked

\* A step that settles rows and moves one job.
LEMMA LinkMoved ==
  ASSUME LinkInv, MailTyped', \A e \in Public : Settles(e),
         \A l : l \in link => l \in link',
         NEW j \in Jobs, NEW n, job' = [job EXCEPT ![j] = n],
         \A e \in Public : SendsOn(j, n, e),
         j # Batch => /\ job[j].at # "idle" /\ n.at # "next"
                      /\ n.at \in BusyAt => n.form = j
                      /\ \A e \in todo' : e \in todo,
         j = Batch => (n.at \in BusyAt => n.form \notin todo'),
         phase' = 3 => \A e \in todo' : Renewable(e)
  PROVE  LinkInv'
<1>1. job'[j] = n /\ \A k \in Jobs \ {j} : job'[k] = job[k]
  BY DEF LinkInv, MailTyped
<1>2. ASSUME NEW d \in Public PROVE Linked(d)'
  <2>1. \A k \in Jobs : SendsOn(k, job'[k], d)
    <3> TAKE k \in Jobs
    <3>1. CASE k = j
      BY <1>1, <3>1
    <3>2. CASE k # j
      BY <1>1, <3>2 DEF SendsOn, Mailing
    <3> QED BY <3>1, <3>2
  <2>2. d \in Forms
    BY Names
  <2> QED BY <2>1, <2>2, LinkedKept
<1>3. Busy'
  <2>1. ASSUME NEW d \in Public
        PROVE  job'[d].at # "next" /\ (job'[d].at \in BusyAt => job'[d].form = d)
    <3>1. d \in Jobs /\ d # Batch
      BY Names
    <3> QED BY <1>1, <3>1 DEF LinkInv, Busy
  <2>2. job'[Batch].at \in BusyAt => job'[Batch].form \notin todo'
    BY <1>1, Names DEF LinkInv, Busy
  <2> QED BY <2>1, <2>2 DEF Busy
<1>4. ASSUME phase' = 3, NEW d \in todo' PROVE Renewable(d)'
  <2>1. d \in Public
    BY <1>4 DEF MailTyped
  <2>2. Renewable(d) /\ Settles(d) /\ d \in Jobs /\ d # Batch
    BY <1>4, <2>1, Names
  <2>3. job'[d] = job[d]
    BY <1>1, <2>2 DEF Renewable
  <2> QED BY <2>2, <2>3 DEF Renewable, Settles
<1> QED BY <1>2, <1>3, <1>4 DEF LinkInv

\* A step that settles rows and leaves the mails alone.
LEMMA LinkSettled ==
  ASSUME LinkInv, MailTyped', \A e \in Public : Settles(e),
         UNCHANGED <<link, job, phase>>, \A e \in todo' : e \in todo
  PROVE  LinkInv'
<1> DEFINE n == job[Batch]
<1>1. Batch \in Jobs /\ job' = [job EXCEPT ![Batch] = n]
  BY Names DEF LinkInv, MailTyped
<1>2. \A e \in Public : SendsOn(Batch, n, e)
  BY DEF SendsOn, Mailing
<1>3. n.at \in BusyAt => n.form \notin todo'
  BY DEF LinkInv, Busy
<1>4. phase' = 3 => \A e \in todo' : Renewable(e)
  BY DEF LinkInv
<1>5. \A l : l \in link => l \in link'
  OBVIOUS
<1> HIDE DEF n
<1> QED BY <1>1, <1>2, <1>3, <1>4, <1>5, LinkMoved

\* A step that writes one row and moves one job of it; no other job mails it.
LEMMA LinkWritten ==
  ASSUME LinkInv, MailTyped', NEW d \in Public, NEW r \in Declaration,
         decl' = [decl EXCEPT ![d] = r],
         NEW j \in Jobs, NEW n, job' = [job EXCEPT ![j] = n] \/ job' = job,
         \A e \in Public \ {d} : ~(n.form = e /\ n.what = "confirm" /\ n.at \in MailAt),
         \A e \in Public \ {d} : \A token : <<e, token>> \in link => <<e, token>> \in link',
         Linked(d)', Busy',
         phase' = 3 => \A e \in todo' : e # d /\ e # j /\ Renewable(e)
  PROVE  LinkInv'
<1>1. /\ \A k \in Jobs \ {j} : job'[k] = job[k]
      /\ job'[j] = n \/ job'[j] = job[j]
      /\ \A e \in Forms \ {d} : decl'[e] = decl[e]
  BY Names DEF LinkInv, MailTyped
<1>2. ASSUME NEW e \in Public \ {d} PROVE Linked(e)'
  <2>1. e \in Forms /\ decl'[e] = decl[e]
    BY <1>1, <1>2, Names
  <2>2. \A k \in Jobs : SendsOn(k, job'[k], e)
    <3> TAKE k \in Jobs
    <3>1. CASE job'[k] = job[k]
      BY <3>1 DEF SendsOn, Mailing
    <3>2. CASE k = j /\ job'[k] = n
      BY <1>2, <3>2 DEF SendsOn
    <3> QED BY <1>1, <3>1, <3>2
  <2> QED BY <1>2, <2>1, <2>2, LinkedKept DEF Settles
<1>3. ASSUME phase' = 3, NEW e \in todo' PROVE Renewable(e)'
  <2>1. e \in Public
    BY <1>3 DEF MailTyped
  <2>2. e \in Forms /\ e \in Jobs /\ e # d /\ e # j /\ Renewable(e)
    BY <1>3, <2>1, Names
  <2> QED BY <1>1, <2>2 DEF Renewable
<1> QED BY <1>2, <1>3 DEF LinkInv

\* The rows and jobs there are, as facts to cite.
LEMMA MailsAre ==
  ASSUME LinkInv, NEW j \in Jobs, job[j].at \in BusyAt
  PROVE  /\ job[j] \in Job /\ About(job[j], decl) /\ job[j].form \in Forms
         /\ decl[job[j].form] # None /\ decl[job[j].form] \in Declaration
         /\ j # Batch => job[j].form = j
         /\ j = Batch => job[j].form \notin todo
<1>1. MailTyped /\ Busy
  BY DEF LinkInv
<1>2. job[j] \in Job /\ About(job[j], decl)
  BY <1>1 DEF MailTyped
<1>3. job[j].form \in Forms /\ decl[job[j].form] # None
  BY <1>2 DEF About
<1>4. decl[job[j].form] \in Declaration
  BY <1>1, <1>3, RowStored
<1> QED BY <1>1, <1>2, <1>3, <1>4, Names DEF Busy

\* A job that goes on after a mail, or rests, mails no link.
LEMMA AfterMailSends ==
  ASSUME LinkInv, NEW j \in Jobs, job[j].at \in MailAt, AfterMail(j)
  PROVE  \E n : /\ job' = [job EXCEPT ![j] = n] /\ (n.what = "ack" \/ n.at \notin MailAt)
                /\ j # Batch => n.at # "next" /\ (n.at \in BusyAt => n.form = j)
                /\ n.at \in BusyAt => n.form = job[j].form
<1>1. job[j].at \in BusyAt
  BY DEF BusyAt
<1>2. CASE job[j].whole /\ job[j].what = "confirm"
  <2> DEFINE n == [at |-> "look", what |-> "ack", form |-> job[j].form, token |-> None,
                   whole |-> TRUE, ok |-> FALSE]
  <2>1. job' = [job EXCEPT ![j] = n]
    BY <1>2 DEF AfterMail, Look
  <2>2. n.what = "ack" /\ n.at = "look" /\ n.form = job[j].form
    OBVIOUS
  <2>3. j # Batch => job[j].form = j
    BY <1>1, MailsAre
  <2> HIDE DEF n
  <2> QED BY <2>1, <2>2, <2>3
<1>3. CASE ~(job[j].whole /\ job[j].what = "confirm")
  <2>1. job' = [job EXCEPT ![j] = Rest(j)]
    BY <1>3 DEF AfterMail, Done
  <2>2. Rest(j).at \notin BusyAt /\ (j # Batch => Rest(j).at = "idle")
    BY DEF Rest, NoJob, BusyAt, MailAt
  <2> QED BY <2>1, <2>2 DEF BusyAt
<1> QED BY <1>2, <1>3

\* What a step leaves alone settles.
LEMMA RowsStay ==
  ASSUME UNCHANGED decl
  PROVE  \A e \in Public : Settles(e)
BY DEF Settles

\* A row that waits no longer, or changes neither status nor token, settles.
LEMMA RowSettles ==
  ASSUME MailTyped, NEW d \in Forms, decl[d] # None, NEW r \in Declaration,
         decl' = [decl EXCEPT ![d] = r], r.confirm = decl[d].confirm,
         \/ r.status = decl[d].status /\ r.hash = decl[d].hash
         \/ r.status \in {"needs_review", "effective", "rejected"}
  PROVE  \A e \in Public : Settles(e)
<1>1. decl'[d] = r /\ \A e \in Forms \ {d} : decl'[e] = decl[e]
  BY RowSaved
<1>2. ASSUME NEW e \in Public PROVE Settles(e)
  <2>1. e \in Forms
    BY Names
  <2> QED BY <1>1, <2>1 DEF Settles
<1> QED BY <1>2

\* A mail is looked up and delivered.
LEMMA LookUpLinks ==
  ASSUME LinkInv, MailTyped', NEW j \in Jobs, LookUp(j)
  PROVE  LinkInv'
<1>1. job[j].at = "look" /\ job[j].at \in MailAt /\ job[j].at \in BusyAt
  BY DEF LookUp, MailAt, BusyAt
<1>2. UNCHANGED <<decl, link, phase, todo>>
  BY DEF LookUp, rowVars
<1>3. \A e \in Public : Settles(e)
  BY <1>2, RowsStay
<1>4. phase' = 3 => \A e \in todo' : Renewable(e)
  BY <1>2 DEF LinkInv
<1>5. CASE AfterMail(j)
  <2>1. PICK n : /\ job' = [job EXCEPT ![j] = n] /\ (n.what = "ack" \/ n.at \notin MailAt)
                 /\ j # Batch => n.at # "next" /\ (n.at \in BusyAt => n.form = j)
                 /\ n.at \in BusyAt => n.form = job[j].form
    BY <1>1, <1>5, AfterMailSends
  <2>2. \A e \in Public : SendsOn(j, n, e)
    BY <2>1 DEF SendsOn
  <2>3. j = Batch => (n.at \in BusyAt => n.form \notin todo')
    BY <1>1, <1>2, <2>1, MailsAre
  <2> QED BY <1>1, <1>2, <1>3, <1>4, <2>1, <2>2, <2>3, LinkMoved
<1>6. CASE Goto(j, "deliver")
  <2> DEFINE n == [job[j] EXCEPT !.at = "deliver"]
  <2>1. job' = [job EXCEPT ![j] = n]
    BY <1>6 DEF Goto
  <2>2. n.form = job[j].form /\ n.at = "deliver" /\ n.what = job[j].what
        /\ n.token = job[j].token
    BY <1>1, MailsAre DEF Job
  <2>3. \A e \in Public : SendsOn(j, n, e)
    BY <1>1, <2>2 DEF SendsOn, Mailing
  <2>4. j # Batch => job[j].form = j
    BY <1>1, MailsAre
  <2>5. j = Batch => (n.at \in BusyAt => n.form \notin todo')
    BY <1>1, <1>2, <2>2, MailsAre
  <2> HIDE DEF n
  <2> QED BY <1>1, <1>2, <1>3, <1>4, <2>1, <2>2, <2>3, <2>4, <2>5, LinkMoved
<1> QED BY <1>5, <1>6 DEF LookUp

\* The mail server takes a mail, and the address has got its link, or refuses it.
LEMMA DeliverLinks ==
  ASSUME LinkInv, MailTyped', NEW j \in Jobs, Deliver(j)
  PROVE  LinkInv'
<1>1. job[j].at = "deliver" /\ job[j].at \in MailAt /\ job[j].at \in BusyAt
  BY DEF Deliver, MailAt, BusyAt
<1>2. UNCHANGED <<decl, phase, todo>> /\ \A l : l \in link => l \in link'
  BY DEF Deliver, rowVars
<1>3. \A e \in Public : Settles(e)
  BY <1>2, RowsStay
<1>4. phase' = 3 => \A e \in todo' : Renewable(e)
  BY <1>2 DEF LinkInv
<1>5. job[j] \in Job /\ (j # Batch => job[j].form = j)
      /\ (j = Batch => job[j].form \notin todo')
  BY <1>1, <1>2, MailsAre
<1>6. ASSUME NEW n, job' = [job EXCEPT ![j] = n], n.at = "mark", n.form = job[j].form,
             n.what = job[j].what, n.token = job[j].token,
             n.ok /\ n.what = "confirm" => job[j].ok \/ <<n.form, n.token>> \in link'
      PROVE  LinkInv'
  <2>1. \A e \in Public : SendsOn(j, n, e)
    BY <1>1, <1>6 DEF SendsOn, Mailing
  <2> QED BY <1>1, <1>2, <1>3, <1>4, <1>5, <1>6, <2>1, LinkMoved
<1>7. CASE /\ job' = [job EXCEPT ![j].at = "mark", ![j].ok = TRUE]
           /\ link' = IF job[j].what = "confirm"
                      THEN link \cup {<<job[j].form, job[j].token>>} ELSE link
  <2> DEFINE n == [job[j] EXCEPT !.at = "mark", !.ok = TRUE]
  <2>1. job' = [job EXCEPT ![j] = n]
    BY <1>7
  <2>2. n.at = "mark" /\ n.form = job[j].form /\ n.what = job[j].what /\ n.token = job[j].token
    BY <1>5 DEF Job
  <2>3. n.what = "confirm" => <<n.form, n.token>> \in link'
    BY <1>7, <2>2
  <2> HIDE DEF n
  <2> QED BY <1>6, <2>1, <2>2, <2>3
<1>8. CASE Goto(j, "mark")
  <2> DEFINE n == [job[j] EXCEPT !.at = "mark"]
  <2>1. job' = [job EXCEPT ![j] = n]
    BY <1>8 DEF Goto
  <2>2. /\ n.at = "mark" /\ n.form = job[j].form /\ n.what = job[j].what
        /\ n.token = job[j].token /\ n.ok = job[j].ok
    BY <1>5 DEF Job
  <2> HIDE DEF n
  <2> QED BY <1>6, <2>1, <2>2
<1> QED BY <1>7, <1>8 DEF Deliver

\* A public declaration is finished: it waits for its link, or the operator decides.
LEMMA FinishLinks ==
  ASSUME LinkInv, MailTyped', NEW j \in Jobs, Finish(j)
  PROVE  LinkInv'
<1>1. job[j].at = "finish" /\ job[j].at \in BusyAt
  BY DEF Finish, BusyAt
<1>form. PICK d \in Forms : d = job[j].form
  BY <1>1, MailsAre
<1> USE <1>form
<1>2. /\ d \in Public /\ d \in Forms /\ decl[d] # None /\ decl[d] \in Declaration
      /\ j # Batch => d = j
      /\ j = Batch => d \notin todo
  BY <1>1, MailsAre DEF About
<1>3. UNCHANGED <<link, phase, todo>> /\ MailTyped /\ \A l : l \in link => l \in link'
  BY DEF Finish, LinkInv
<1>4. phase' = 3 => \A e \in todo' : Renewable(e)
  BY <1>3 DEF LinkInv
<1>5. CASE Done(j) /\ UNCHANGED decl
  <2>1. job' = [job EXCEPT ![j] = Rest(j)]
    BY <1>5 DEF Done
  <2>2. Rest(j).at \notin BusyAt /\ Rest(j).at \notin MailAt
        /\ (j # Batch => Rest(j).at = "idle")
    BY DEF Rest, NoJob, BusyAt, MailAt
  <2>3. \A e \in Public : SendsOn(j, Rest(j), e)
    BY <2>2 DEF SendsOn
  <2>4. \A e \in Public : Settles(e)
    BY <1>5, RowsStay
  <2>5. j # Batch => job[j].at # "idle" /\ Rest(j).at # "next"
    BY <1>1, <2>2
  <2> QED BY <1>3, <1>4, <2>1, <2>2, <2>3, <2>4, <2>5, LinkMoved
<1>6. CASE /\ decl' = [decl EXCEPT ![d].status = "needs_review"]
           /\ Look(j, "ack", d, None, TRUE)
  <2> DEFINE n == [at |-> "look", what |-> "ack", form |-> d, token |-> None,
                   whole |-> TRUE, ok |-> FALSE]
  <2> DEFINE r == [decl[d] EXCEPT !.status = "needs_review"]
  <2>1. r \in Declaration /\ r.confirm = decl[d].confirm /\ r.status = "needs_review"
    BY <1>2 DEF Declaration
  <2>2. decl' = [decl EXCEPT ![d] = r]
    BY <1>6
  <2>3. job' = [job EXCEPT ![j] = n]
    BY <1>6 DEF Look
  <2>4. n.what = "ack" /\ n.at = "look" /\ n.form = d
    OBVIOUS
  <2>5. \A e \in Public : SendsOn(j, n, e)
    BY <2>4 DEF SendsOn
  <2> HIDE DEF r, n
  <2>6. \A e \in Public : Settles(e)
    BY <1>2, <1>3, <2>1, <2>2, RowSettles
  <2> QED BY <1>1, <1>2, <1>3, <1>4, <2>3, <2>4, <2>5, <2>6, LinkMoved
<1>7. CASE /\ decl[d].status = "received" /\ Unused(d) # {}
           /\ decl' = [decl EXCEPT ![d].status = "awaiting_confirmation",
                                   ![d].linked = TRUE, ![d].hash = Fresh(d)]
           /\ Look(j, "confirm", d, Fresh(d), TRUE)
  <2> DEFINE token == Fresh(d)
  <2> DEFINE n == [at |-> "look", what |-> "confirm", form |-> d, token |-> token,
                   whole |-> TRUE, ok |-> FALSE]
  <2> DEFINE r == [decl[d] EXCEPT !.status = "awaiting_confirmation", !.linked = TRUE,
                                  !.hash = token]
  <2>1. token \in Nonces
    BY <1>7 DEF Fresh, Unused
  <2>2. /\ r \in Declaration /\ r.confirm = decl[d].confirm /\ r.hash = token
        /\ r.status = "awaiting_confirmation"
    BY <1>2, <2>1 DEF Declaration
  <2>3. decl' = [decl EXCEPT ![d] = r] /\ job' = [job EXCEPT ![j] = n]
    BY <1>7 DEF Look
  <2>4. /\ n.at = "look" /\ n.at \in BusyAt /\ n.what = "confirm" /\ n.form = d
        /\ n.token = token /\ n.ok = FALSE
    BY DEF BusyAt, MailAt
  <2> HIDE DEF token, n, r
  <2>5. /\ decl'[d] = r /\ job'[j] = n /\ \A k \in Jobs \ {j} : job'[k] = job[k]
    BY <1>2, <1>3, <2>3 DEF MailTyped
  <2>6. decl[d].confirm # "sent" /\ \A k \in Jobs : ~Mailing(k, d)
    BY <1>2, <1>7 DEF LinkInv, Linked, Is
  <2>7. Linked(d)'
    <3>1. ~Is(d, {"received"})' /\ decl'[d].confirm # "sent"
      BY <2>2, <2>5, <2>6 DEF Is
    <3>2. ASSUME NEW k \in Jobs, Mailing(k, d)'
          PROVE  job'[k].token = decl'[d].hash /\ ~job'[k].ok
      <4>1. k = j
        BY <2>5, <2>6, <3>2 DEF Mailing
      <4> QED BY <2>2, <2>4, <2>5, <4>1
    <3> QED BY <3>1, <3>2 DEF Linked
  <2>8. Busy'
    <3>1. ASSUME NEW e \in Public
          PROVE  job'[e].at # "next" /\ (job'[e].at \in BusyAt => job'[e].form = e)
      <4>1. e \in Jobs /\ e # Batch
        BY Names
      <4>2. job[e].at # "next" /\ (job[e].at \in BusyAt => job[e].form = e)
        BY DEF LinkInv, Busy
      <4> QED BY <1>2, <2>4, <2>5, <4>1, <4>2
    <3>2. job'[Batch].at \in BusyAt => job'[Batch].form \notin todo'
      BY <1>2, <1>3, <2>4, <2>5, Names DEF LinkInv, Busy
    <3> QED BY <3>1, <3>2 DEF Busy
  <2>9. ASSUME phase' = 3, NEW e \in todo' PROVE e # d /\ e # j /\ Renewable(e)
    <3>1. Renewable(e) /\ e \in Forms
      BY <1>3, <1>4, <2>9 DEF MailTyped
    <3> QED BY <1>1, <1>2, <1>7, <3>1, Names DEF Renewable
  <2>10. \A e \in Public \ {d} : n.form # e
    BY <2>4
  <2> QED BY <1>2, <1>3, <2>2, <2>3, <2>7, <2>8, <2>9, <2>10, LinkWritten
<1> QED BY <1>5, <1>6, <1>7 DEF Finish

\* The row is told whether the mail was taken.
LEMMA MarkLinks ==
  ASSUME LinkInv, MailTyped', NEW j \in Jobs, Mark(j)
  PROVE  LinkInv'
<1> DEFINE status == IF job[j].ok THEN "sent" ELSE "failed"
<1>1. job[j].at = "mark" /\ job[j].at \in BusyAt /\ job[j].at \in MailAt
  BY DEF Mark, BusyAt, MailAt
<1>form. PICK d \in Forms : d = job[j].form
  BY <1>1, MailsAre
<1> USE <1>form
<1>2. /\ d \in Forms /\ decl[d] # None /\ decl[d] \in Declaration
      /\ j # Batch => d = j
      /\ j = Batch => d \notin todo
      /\ job[j].what = "confirm" => d \in Public
      /\ job[j].what \in {"ack", "confirm"}
  BY <1>1, MailsAre DEF About, Job
<1>3. UNCHANGED <<link, phase, todo>> /\ MailTyped /\ \A l : l \in link => l \in link'
  BY DEF Mark, LinkInv
<1>4. phase' = 3 => \A e \in todo' : Renewable(e)
  BY <1>3 DEF LinkInv
<1>5. PICK n : /\ job' = [job EXCEPT ![j] = n] /\ (n.what = "ack" \/ n.at \notin MailAt)
               /\ j # Batch => n.at # "next" /\ (n.at \in BusyAt => n.form = j)
               /\ n.at \in BusyAt => n.form = d
  BY <1>1, AfterMailSends DEF Mark
<1>6. CASE job[j].what = "ack"
  <2> DEFINE r == [decl[d] EXCEPT !.ack = status]
  <2>1. decl' = [decl EXCEPT ![d] = r]
    BY <1>6 DEF Mark
  <2>2. /\ r \in Declaration /\ r.confirm = decl[d].confirm /\ r.status = decl[d].status
        /\ r.hash = decl[d].hash
    BY <1>2 DEF Declaration, Mails
  <2> HIDE DEF r
  <2>3. \A e \in Public : Settles(e)
    BY <1>2, <1>3, <2>1, <2>2, RowSettles
  <2>4. \A e \in Public : SendsOn(j, n, e)
    BY <1>5 DEF SendsOn
  <2>5. j = Batch => (n.at \in BusyAt => n.form \notin todo')
    BY <1>2, <1>3, <1>5
  <2>6. j # Batch => /\ job[j].at # "idle" /\ n.at # "next"
                     /\ n.at \in BusyAt => n.form = j
                     /\ \A e \in todo' : e \in todo
    BY <1>1, <1>3, <1>5
  <2> QED BY <1>3, <1>4, <1>5, <2>3, <2>4, <2>5, <2>6, LinkMoved
<1>7. CASE job[j].what = "confirm"
  <2> DEFINE r == [decl[d] EXCEPT !.confirm = status]
  <2>1. decl' = [decl EXCEPT ![d] = r]
    BY <1>7 DEF Mark
  <2>2. /\ r \in Declaration /\ r.status = decl[d].status /\ r.hash = decl[d].hash
        /\ r.confirm = "sent" => job[j].ok
    BY <1>2 DEF Declaration, Mails
  <2> HIDE DEF r
  <2>3. d \in Public /\ Mailing(j, d) /\ Linked(d)
    BY <1>1, <1>2, <1>7 DEF Mailing, LinkInv
  <2>4. decl'[d] = r /\ r # None /\ job'[j] = n /\ \A k \in Jobs \ {j} : job'[k] = job[k]
    <3>1. decl'[d] = r /\ r # None
      BY <1>2, <1>3, <2>1, <2>2, RowSaved
    <3>2. job \in [Jobs -> Job]
      BY <1>3 DEF MailTyped
    <3> QED BY <1>5, <3>1, <3>2
  <2>5. decl[d].status # "received"
    BY <1>2, <2>3 DEF Linked, Is
  <2>6. Linked(d)'
    <3>1. ~Is(d, {"received"})' /\ (Waits(d)' <=> Waits(d)) /\ decl'[d].hash = decl[d].hash
      BY <1>2, <2>2, <2>4, <2>5 DEF Is, Waits
    <3>2. Waits(d)' /\ decl'[d].confirm = "sent" => <<d, decl'[d].hash>> \in link'
      BY <1>3, <2>2, <2>3, <2>4, <3>1 DEF Linked
    <3>3. ASSUME NEW k \in Jobs, Waits(d)', Mailing(k, d)'
          PROVE  job'[k].token = decl'[d].hash /\ (job'[k].ok => <<d, decl'[d].hash>> \in link')
      <4>1. k # j
        BY <1>5, <2>4, <3>3 DEF Mailing, MailAt
      <4>2. job'[k] = job[k] /\ Mailing(k, d)
        BY <2>4, <3>3, <4>1 DEF Mailing
      <4> QED BY <1>3, <2>3, <3>1, <3>3, <4>2 DEF Linked
    <3> QED BY <3>1, <3>2, <3>3 DEF Linked
  <2>7. Busy'
    <3>1. ASSUME NEW e \in Public
          PROVE  job'[e].at # "next" /\ (job'[e].at \in BusyAt => job'[e].form = e)
      <4>1. e \in Jobs /\ e # Batch
        BY Names
      <4>2. job[e].at # "next" /\ (job[e].at \in BusyAt => job[e].form = e)
        BY DEF LinkInv, Busy
      <4> QED BY <1>5, <2>4, <4>1, <4>2
    <3>2. job'[Batch].at \in BusyAt => job'[Batch].form \notin todo'
      BY <1>2, <1>3, <1>5, <2>4, Names DEF LinkInv, Busy
    <3> QED BY <3>1, <3>2 DEF Busy
  <2>8. ASSUME phase' = 3, NEW e \in todo' PROVE e # d /\ e # j /\ Renewable(e)
    <3>1. Renewable(e) /\ e \in Forms
      BY <1>3, <1>4, <2>8 DEF MailTyped
    <3> QED BY <1>1, <1>2, <1>3, <2>8, <3>1, Names DEF Renewable
  <2>9. \A e \in Public \ {d} : ~(n.form = e /\ n.what = "confirm" /\ n.at \in MailAt)
    BY <1>5 DEF MailAt
  <2> QED BY <1>3, <1>5, <2>1, <2>2, <2>3, <2>6, <2>7, <2>8, <2>9, LinkWritten
<1> QED BY <1>2, <1>6, <1>7

\* A thread dies, or the batch.
LEMMA DeathLinks ==
  ASSUME LinkInv, MailTyped', NEW j \in Jobs, JobDies(j)
  PROVE  LinkInv'
<1>1. UNCHANGED <<decl, link, phase>> /\ job' = [job EXCEPT ![j] = NoJob]
      /\ \A e \in todo' : e \in todo
  BY DEF JobDies, rowVars
<1>2. NoJob.at = "idle" /\ NoJob.at \notin BusyAt /\ NoJob.at \notin MailAt
      /\ job[j].at # "idle"
  BY DEF NoJob, BusyAt, MailAt, JobDies
<1>3. \A e \in Public : Settles(e)
  BY <1>1, RowsStay
<1>4. \A e \in Public : SendsOn(j, NoJob, e)
  BY <1>2 DEF SendsOn
<1>5. phase' = 3 => \A e \in todo' : Renewable(e)
  BY <1>1 DEF LinkInv
<1>6. \A l : l \in link => l \in link'
  BY <1>1
<1>7. j # Batch => /\ job[j].at # "idle" /\ NoJob.at # "next"
                   /\ NoJob.at \in BusyAt => NoJob.form = j
                   /\ \A e \in todo' : e \in todo
  BY <1>1, <1>2
<1> QED BY <1>1, <1>2, <1>3, <1>4, <1>5, <1>6, <1>7, LinkMoved

\* A submission is received, and mails nothing yet.
LEMMA SubmitLinks ==
  ASSUME LinkInv, MailTyped', NEW d \in Public, Submit(d)
  PROVE  LinkInv'
<1>1. decl[d] = None /\ UNCHANGED <<link, phase, todo>> /\ MailTyped
      /\ d \in Forms /\ d \in Jobs /\ d # Batch
  BY Names DEF Submit, LinkInv
<1>2. PICK owner \in BOOLEAN : decl' = [decl EXCEPT ![d] = Row(owner, FALSE)]
  BY DEF Submit
<1> DEFINE r == Row(owner, FALSE)  n == Finishing(d)
<1>3. r \in Declaration /\ r.status = "received" /\ r.confirm # "sent"
  BY DEF Row, Declaration, Mails
<1>4. /\ n.at = "finish" /\ n.form = d /\ n.at \notin MailAt
      /\ job' = [job EXCEPT ![d] = n] \/ job' = job
  BY DEF Finishing, NoJob, MailAt, Submit
<1>5. decl' = [decl EXCEPT ![d] = r]
  BY <1>2
<1> HIDE DEF r, n
<1>6. decl'[d] = r
  BY <1>1, <1>3, <1>5, RowSaved
<1>7. job \in [Jobs -> Job] /\ d \notin todo
  BY <1>1 DEF MailTyped
<1>8. /\ \A k \in Jobs \ {d} : job'[k] = job[k]
      /\ job'[d] = n \/ job'[d] = job[d]
  BY <1>1, <1>4, <1>7
<1>9. \A k \in Jobs : job[k].at \in BusyAt => job[k].form # d
  BY <1>1 DEF MailTyped, About
<1>10. Linked(d)'
  <2>1. \A k \in Jobs : ~Mailing(k, d)'
    BY <1>4, <1>8, <1>9 DEF Mailing, BusyAt
  <2>2. decl'[d].confirm # "sent" /\ ~Waits(d)'
    BY <1>3, <1>6 DEF Waits, Is
  <2> QED BY <2>1, <2>2 DEF Linked
<1>11. Busy'
  <2>1. ASSUME NEW e \in Public
        PROVE  job'[e].at # "next" /\ (job'[e].at \in BusyAt => job'[e].form = e)
    <3>1. e \in Jobs
      BY Names
    <3>2. job[e].at # "next" /\ (job[e].at \in BusyAt => job[e].form = e)
      BY DEF LinkInv, Busy
    <3> QED BY <1>4, <1>8, <3>1, <3>2
  <2>2. job'[Batch].at \in BusyAt => job'[Batch].form \notin todo'
    BY <1>1, <1>8, Names DEF LinkInv, Busy
  <2> QED BY <2>1, <2>2 DEF Busy
<1>12. phase' = 3 => \A e \in todo' : e # d /\ Renewable(e)
  BY <1>1, <1>7 DEF LinkInv
<1>13. \A e \in Public \ {d} : ~(n.form = e /\ n.what = "confirm" /\ n.at \in MailAt)
  BY <1>4
<1>14. \A e \in Public \ {d} : \A token : <<e, token>> \in link => <<e, token>> \in link'
  BY <1>1
<1> QED BY <1>1, <1>3, <1>4, <1>5, <1>10, <1>11, <1>12, <1>13, <1>14, LinkWritten

\* The batch at rest begins a loop, ends one, or takes a declaration up to finish
\* or to acknowledge it: it mails no link by that.
LEMMA BatchMoves ==
  ASSUME LinkInv, MailTyped', UNCHANGED <<decl, link>>,
         NEW n, job' = [job EXCEPT ![Batch] = n], n.at \notin MailAt \/ n.what = "ack",
         n.at \in BusyAt => n.form \notin todo',
         phase' = 3 => \A e \in todo' : Renewable(e)
  PROVE  LinkInv'
<1>1. \A e \in Public : Settles(e)
  BY RowsStay
<1>2. \A e \in Public : SendsOn(Batch, n, e)
  BY DEF SendsOn
<1>3. \A l : l \in link => l \in link'
  OBVIOUS
<1> QED BY <1>1, <1>2, <1>3, Names, LinkMoved

\* A new token: the links of the old one are dead, and the batch mails it.
LEMMA RenewLinks ==
  ASSUME LinkInv, MailTyped', NEW d \in Forms, Renew(d)
  PROVE  LinkInv'
<1>1. /\ phase = 3 /\ phase' = 3 /\ d \in todo /\ todo' = todo \ {d}
      /\ job[Batch].at = "next" /\ Unused(d) # {}
      /\ link' = {l \in link : l[1] # d}
  BY DEF Renew, TakeUp
<1>2. /\ MailTyped /\ d \in Public /\ decl[d] # None /\ decl[d] \in Declaration
      /\ Renewable(d) /\ Batch \in Jobs
  BY <1>1, RowStored, Names DEF LinkInv, MailTyped
<1> DEFINE token == Fresh(d)
<1> DEFINE n == [at |-> "look", what |-> "confirm", form |-> d, token |-> token,
                 whole |-> FALSE, ok |-> FALSE]
<1> DEFINE r == [decl[d] EXCEPT !.hash = token]
<1>3. token \in Nonces
  BY <1>1 DEF Fresh, Unused
<1>4. decl' = [decl EXCEPT ![d] = r] /\ job' = [job EXCEPT ![Batch] = n]
  BY DEF Renew, Saved, Look
<1>5. /\ r \in Declaration /\ r.status = decl[d].status /\ r.confirm = decl[d].confirm
      /\ r.hash = token
  BY <1>2, <1>3 DEF Declaration
<1>6. /\ n.at = "look" /\ n.what = "confirm" /\ n.form = d /\ n.token = token
      /\ n.ok = FALSE
  OBVIOUS
<1> HIDE DEF token, n, r
<1>7. decl'[d] = r /\ job'[Batch] = n /\ \A k \in Jobs \ {Batch} : job'[k] = job[k]
  <2>1. decl'[d] = r
    BY <1>2, <1>4, <1>5, RowSaved
  <2>2. job \in [Jobs -> Job]
    BY <1>2 DEF MailTyped
  <2> QED BY <1>2, <1>4, <2>1, <2>2
<1>8. ASSUME NEW k \in Jobs \ {Batch} PROVE ~Mailing(k, d)'
  <2>1. k \in Public /\ (job[k].at \in BusyAt => job[k].form = k)
    BY Names DEF LinkInv, Busy
  <2>2. job[d].at = "idle"
    BY <1>2 DEF Renewable
  <2> QED BY <1>7, <2>1, <2>2 DEF Mailing, BusyAt, MailAt
<1>9. Linked(d)'
  <2>1. decl'[d].status # "received" /\ decl'[d].confirm # "sent"
    BY <1>2, <1>5, <1>7 DEF Renewable
  <2>2. ASSUME NEW k \in Jobs, Mailing(k, d)'
        PROVE  job'[k].token = decl'[d].hash /\ ~job'[k].ok
    <3>1. k = Batch
      BY <1>8, <2>2
    <3> QED BY <1>5, <1>6, <1>7, <3>1
  <2> QED BY <2>1, <2>2 DEF Linked, Is
<1>10. Busy'
  <2>1. ASSUME NEW e \in Public
        PROVE  job'[e].at # "next" /\ (job'[e].at \in BusyAt => job'[e].form = e)
    <3>1. e \in Jobs /\ e # Batch
      BY Names
    <3> QED BY <1>7, <3>1 DEF LinkInv, Busy
  <2>2. job'[Batch].form \notin todo'
    BY <1>1, <1>6, <1>7
  <2> QED BY <2>1, <2>2 DEF Busy
<1>11. \A e \in todo' : e # d /\ e # Batch /\ Renewable(e)
  <2>1. \A e \in todo : Renewable(e) /\ e \in Forms
    BY <1>1, <1>2 DEF LinkInv, MailTyped
  <2> QED BY <1>1, <2>1, Names
<1>12. \A e \in Public \ {d} : n.form # e
  BY <1>6
<1>13. \A e \in Public \ {d} : \A t : <<e, t>> \in link => <<e, t>> \in link'
  BY <1>1
<1> QED BY <1>2, <1>4, <1>5, <1>9, <1>10, <1>11, <1>12, <1>13, LinkWritten

\* The steps of the batch, which leaves alone what a thread is mailing.
LEMMA BatchLinks ==
  ASSUME LinkInv, MailTyped', "overlap" \notin Faults, BatchStep
  PROVE  LinkInv'
<1>0. MailTyped /\ Batch \in Jobs
  BY Names DEF LinkInv
<1>1. ASSUME NEW loop \in 1 .. 4, BeginLoop(loop) PROVE LinkInv'
  <2>1. UNCHANGED <<decl, link>> /\ phase' = loop /\ todo' = Due(loop)
    BY <1>1 DEF BeginLoop, rowVars
  <2> DEFINE n == [job[Batch] EXCEPT !.at = "next"]
  <2>2. job' = [job EXCEPT ![Batch] = n]
    BY <1>1 DEF BeginLoop, Goto
  <2>3. n.at \notin BusyAt /\ n.at \notin MailAt
    <3>1. job[Batch] \in Job
      BY <1>0 DEF MailTyped
    <3> QED BY <3>1 DEF Job, BusyAt, MailAt
  <2> HIDE DEF n
  <2>4. ASSUME phase' = 3, NEW e \in todo' PROVE Renewable(e)
    <3>1. Due(loop) = {d \in Undelivered(FALSE) : Apart(d)}
      BY <2>1, <2>4 DEF Due
    <3>2. e \in Undelivered(FALSE) /\ Apart(e)
      BY <2>1, <2>4, <3>1
    <3> QED BY <3>2 DEF Undelivered, Apart, Renewable, Is, Unsent
  <2> QED BY <2>1, <2>2, <2>3, <2>4, BatchMoves
<1>2. CASE BeginBatch \/ NextLoop
  <2>1. phase \in 1 .. 4
    BY <1>0 DEF MailTyped
  <2> QED BY <1>1, <1>2, <2>1 DEF BeginBatch, NextLoop
<1>3. CASE EndBatch
  <2>1. UNCHANGED <<decl, link>> /\ phase' = 1 /\ todo' = todo
    BY <1>3 DEF EndBatch, rowVars
  <2> DEFINE n == [job[Batch] EXCEPT !.at = "idle"]
  <2>2. job' = [job EXCEPT ![Batch] = n]
    BY <1>3 DEF EndBatch, Goto
  <2>3. n.at \notin BusyAt /\ n.at \notin MailAt
    <3>1. job[Batch] \in Job
      BY <1>0 DEF MailTyped
    <3> QED BY <3>1 DEF Job, BusyAt, MailAt
  <2> HIDE DEF n
  <2>4. phase' # 3
    BY <2>1
  <2> QED BY <2>1, <2>2, <2>3, <2>4, BatchMoves
<1>4. ASSUME NEW d \in Forms, FinishStuck(d) PROVE LinkInv'
  <2>1. UNCHANGED <<decl, link>> /\ phase' = 1 /\ todo' = todo \ {d}
    BY <1>4 DEF FinishStuck, TakeUp, rowVars
  <2>2. job' = [job EXCEPT ![Batch] = Finishing(d)]
    BY <1>4 DEF FinishStuck
  <2>3. Finishing(d).at \notin MailAt /\ Finishing(d).form = d
    BY DEF Finishing, NoJob, MailAt
  <2>4. phase' # 3
    BY <2>1
  <2> QED BY <2>1, <2>2, <2>3, <2>4, BatchMoves
<1>5. ASSUME NEW d \in Forms, Acknowledge(d) PROVE LinkInv'
  <2>1. UNCHANGED <<decl, link>> /\ phase' = 2 /\ todo' = todo \ {d}
    BY <1>5 DEF Acknowledge, TakeUp, rowVars
  <2> DEFINE n == [at |-> "look", what |-> "ack", form |-> d, token |-> None,
                   whole |-> FALSE, ok |-> FALSE]
  <2>2. job' = [job EXCEPT ![Batch] = n]
    BY <1>5 DEF Acknowledge, Look
  <2>3. n.what = "ack" /\ n.form = d
    OBVIOUS
  <2>4. phase' # 3
    BY <2>1
  <2> HIDE DEF n
  <2> QED BY <2>1, <2>2, <2>3, <2>4, BatchMoves
<1>6. ASSUME NEW d \in Forms, GiveUp(d) PROVE LinkInv'
  <2>1. /\ UNCHANGED <<link, job, phase>> /\ todo' = todo \ {d} /\ d \in todo
        /\ decl' = [decl EXCEPT ![d].status = "needs_review"]
    BY <1>6 DEF GiveUp, TakeUp
  <2>2. decl[d] # None /\ decl[d] \in Declaration
    BY <1>0, <2>1, RowStored DEF MailTyped
  <2> DEFINE r == [decl[d] EXCEPT !.status = "needs_review"]
  <2>3. r \in Declaration /\ r.status = "needs_review" /\ r.confirm = decl[d].confirm
    BY <2>2 DEF Declaration
  <2>4. decl' = [decl EXCEPT ![d] = r]
    BY <2>1
  <2> HIDE DEF r
  <2>5. \A e \in Public : Settles(e)
    BY <1>0, <2>2, <2>3, <2>4, RowSettles
  <2> QED BY <2>1, <2>5, LinkSettled
<1> QED BY <1>2, <1>3, <1>4, <1>5, <1>6, RenewLinks DEF BatchStep

\* The application of a declaration, and the operator's decision.
LEMMA DecisionLinks ==
  ASSUME LinkInv, MailTyped', UNCHANGED mailVars, NEW d \in Forms, decl[d] # None,
         NEW r \in Declaration, decl' = [decl EXCEPT ![d] = r],
         r.confirm = decl[d].confirm,
         \/ r.status = decl[d].status /\ r.hash = decl[d].hash
         \/ r.status \in {"needs_review", "effective", "rejected"}
  PROVE  LinkInv'
<1>1. MailTyped
  BY DEF LinkInv
<1>2. \A e \in Public : Settles(e)
  BY <1>1, RowSettles
<1>3. UNCHANGED <<link, job, phase>> /\ \A e \in todo' : e \in todo
  BY DEF mailVars
<1> QED BY <1>2, <1>3, LinkSettled

\* A declaration is effective, or the operator's: its token is void.
LEMMA ConclusionLinks ==
  ASSUME LinkInv, MailTyped', UNCHANGED mailVars, NEW d \in Forms, decl[d] # None,
         NEW ok \in BOOLEAN, Conclude(d, ok)
  PROVE  LinkInv'
<1>1. decl[d] \in Declaration /\ Outcome(ok) \in {"needs_review", "effective"}
  BY RowStored DEF LinkInv, Outcome
<1> DEFINE r == [decl[d] EXCEPT !.status = Outcome(ok), !.hash = None]
<1>2. /\ r \in Declaration /\ r.confirm = decl[d].confirm
      /\ r.status \in {"needs_review", "effective"}
  BY <1>1 DEF Declaration
<1>3. decl' = [decl EXCEPT ![d] = r]
  BY DEF Conclude
<1> HIDE DEF r
<1> QED BY <1>2, <1>3, DecisionLinks

\* Every step keeps the links, unless the batch meets a thread.
LEMMA LinkNext ==
  ASSUME LinkInv, "overlap" \notin Faults, [Next]_vars
  PROVE  LinkInv'
<1>1. MailTyped /\ MailTyped'
  BY MailNext DEF LinkInv
<1>2. CASE UNCHANGED decl /\ UNCHANGED mailVars
  BY <1>1, <1>2, RowsStay, LinkSettled DEF mailVars
<1>3. CASE LedgerStep(LedgerNext) \/ CallStripe \/ ApplyingDies \/ UNCHANGED vars
  BY <1>2, <1>3 DEF LedgerStep, CallStripe, ApplyingDies, Released, rowVars, vars
<1>4. CASE CommitApplied
  <2>1. ASSUME NEW d \in Applying("locked"), Conclude(d, TRUE) PROVE LinkInv'
    <3>1. d \in Forms /\ decl[d] # None
      BY <1>1, <2>1 DEF Applying, MailTyped
    <3>2. UNCHANGED mailVars
      BY <1>4 DEF CommitApplied
    <3> QED BY <1>1, <2>1, <3>1, <3>2, ConclusionLinks
  <2> QED BY <1>2, <1>4, <2>1 DEF CommitApplied
<1>5. ASSUME NEW d \in Forms, decl[d] # None, ApplyLocked(d), UNCHANGED mailVars
      PROVE  LinkInv'
  <2>1. CASE Conclude(d, Withdrawn)
    BY <1>1, <1>5, <2>1, Applications, ConclusionLinks
  <2>2. CASE UNCHANGED decl
    BY <1>2, <1>5, <2>2
  <2> QED BY <1>5, <2>1, <2>2 DEF ApplyLocked
<1>6. ASSUME NEW d \in Public, Submit(d) \/ Lapse(d) \/ Confirm(d) PROVE LinkInv'
  <2>1. d \in Forms
    BY Names
  <2>2. CASE Lapse(d)
    <3>1. decl[d] # None /\ decl[d] \in Declaration /\ UNCHANGED mailVars
      BY <1>1, <2>1, <2>2, RowStored DEF Lapse, Is
    <3> DEFINE r == [decl[d] EXCEPT !.lapsed = TRUE]
    <3>2. /\ r \in Declaration /\ r.confirm = decl[d].confirm
          /\ r.status = decl[d].status /\ r.hash = decl[d].hash
      BY <3>1 DEF Declaration
    <3>3. decl' = [decl EXCEPT ![d] = r]
      BY <2>2 DEF Lapse
    <3> HIDE DEF r
    <3> QED BY <1>1, <2>1, <3>1, <3>2, <3>3, DecisionLinks
  <2>3. CASE Confirm(d)
    BY <1>5, <2>1, <2>3 DEF Confirm, Is
  <2> QED BY <1>1, <1>6, <2>2, <2>3, SubmitLinks
<1>7. ASSUME NEW j \in Jobs, JobStep(j) \/ JobDies(j) PROVE LinkInv'
  BY <1>1, <1>7, FinishLinks, LookUpLinks, DeliverLinks, MarkLinks, DeathLinks DEF JobStep
<1>8. CASE BatchStep
  BY <1>1, <1>8, BatchLinks
<1>9. ASSUME NEW d \in Own, DeclareOwn(d) \/ OwnStep(d) \/ RequestDies(d) PROVE LinkInv'
  <2>1. d \in Forms /\ d \notin Public
    BY Names
  <2>2. UNCHANGED mailVars /\ (UNCHANGED decl \/ \E r : decl' = [decl EXCEPT ![d] = r])
    BY <1>9 DEF DeclareOwn, OwnStep, ApplyOwn, SaveContract, SaveDeclaration, RequestDies
  <2>3. ASSUME NEW r, decl' = [decl EXCEPT ![d] = r] PROVE LinkInv'
    <3>1. \A e \in Public : decl'[e] = decl[e] /\ e \in Forms
      BY <1>1, <2>1, <2>3, Names DEF MailTyped
    <3>2. \A e \in Public : Settles(e)
      BY <3>1 DEF Settles
    <3>3. UNCHANGED <<link, job, phase>> /\ \A e \in todo' : e \in todo
      BY <2>2 DEF mailVars
    <3> QED BY <1>1, <3>2, <3>3, LinkSettled
  <2> QED BY <1>2, <2>2, <2>3
<1>10. ASSUME NEW d \in Forms, Accept(d) \/ Reject(d) PROVE LinkInv'
  <2>1. CASE Accept(d)
    BY <1>5, <2>1 DEF Accept
  <2>2. CASE Reject(d)
    <3>1. decl[d] # None /\ decl[d] \in Declaration /\ UNCHANGED mailVars
      BY <1>1, <2>2, RowStored DEF Reject
    <3> DEFINE r == [decl[d] EXCEPT !.status = "rejected"]
    <3>2. r \in Declaration /\ r.confirm = decl[d].confirm /\ r.status = "rejected"
      BY <3>1 DEF Declaration
    <3>3. decl' = [decl EXCEPT ![d] = r]
      BY <2>2 DEF Reject
    <3> HIDE DEF r
    <3> QED BY <1>1, <3>1, <3>2, <3>3, DecisionLinks
  <2> QED BY <1>10, <2>1, <2>2
<1> QED BY <1>3, <1>4, <1>6, <1>7, <1>8, <1>9, <1>10 DEF Next

\* At first no link was mailed.
LEMMA LinkInit == Init => LinkInv
<1>1. ASSUME Init PROVE LinkInv
  <2>1. /\ decl = [d \in Forms |-> None] /\ phase = 1 /\ todo = {}
        /\ job = [j \in Jobs |-> NoJob]
    BY <1>1 DEF Init
  <2>2. NoJob.at = "idle" /\ NoJob.at \notin BusyAt /\ NoJob.at \notin MailAt
    BY DEF NoJob, BusyAt, MailAt
  <2>3. Busy
    BY <2>1, <2>2, Names DEF Busy
  <2>4. \A d \in Public : Linked(d)
    BY <2>1, <2>2, Names DEF Linked, Waits, Is
  <2> QED BY <1>1, <2>1, <2>3, <2>4, MailInit DEF LinkInv
<1> QED BY <1>1

\* _confirmation_token and send_confirmation_email: as long as the batch leaves a
\* declaration alone whose thread is mailing, a declaration that waits and whose
\* mail counts as sent has got the link that confirms it, whatever threads die,
\* mails are refused, tokens renewed and links clicked in between.
THEOREM SentLinkConfirms ==
  ASSUME "overlap" \notin Faults
  PROVE  Spec => []LinkConfirms
<1>1. LinkInv /\ [Next]_vars => LinkInv'
  BY LinkNext
<1>2. LinkInv => LinkConfirms
  BY DEF LinkInv, Linked, LinkConfirms, Waits
<1> QED BY LinkInit, <1>1, <1>2, PTL DEF Spec
===============================================================================
