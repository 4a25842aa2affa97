-------------------------------- MODULE Ledger --------------------------------
(***************************************************************************)
(* Paying and the token account (billing): plans synchronised to Stripe    *)
(* prices, one contextual checkout and its webhook events, the token       *)
(* entries that purchases, grants, debits, reversals and expiry write, and *)
(* the prorated withdrawal of the purchase with its refund at Stripe.      *)
(*                                                                         *)
(* One user, one token package and one plan grant. A database transaction  *)
(* that holds its locks throughout is one action; a transaction that calls *)
(* Stripe is split at the call, and its locks are the guards of others.    *)
(***************************************************************************)
EXTENDS Naturals, Sequences, FiniteSetsExt

CONSTANTS
  Debits,    \* references of debits
  Amounts,   \* what a debit may ask for
  Granted,   \* tokens of the plan grant, which expires at time 1
  Tokens,    \* tokens of the package
  Price,     \* cents paid for it
  MaxPlan    \* bound: edits of the declared plan

ASSUME LedgerAssumption ==
  /\ Amounts \subseteq Nat \ {0} /\ Granted \in Nat \ {0}
  /\ Tokens \in Nat \ {0} /\ Price \in Nat \ {0} /\ MaxPlan \in Nat \ {0}

VARIABLES
  plan,      \* the declared plan: its fingerprint, numbered by edit
  sync,      \* sync_plans at work: [step, fingerprint]
  prices,    \* StripePrice rows by version: [fingerprint, price]
  remote,    \* Stripe prices by the version of their lookup key; 0: none
  attempt,   \* CheckoutAttempt: [status, bound]
  request,   \* the checkout request that holds the attempt's lock
  session,   \* the Stripe checkout session
  events,    \* Stripe events not processed yet
  clock,     \* 0, then 1: the grant has expired, then 2: no withdrawal any more
  entries,   \* TokenEntry rows in the order of creation
  purchase,  \* Purchase: [status, refund, by]
  withdraw,  \* the withdrawal request: [step, cents]; not idle: it holds the locks
  refund     \* cents of the refund under the withdrawal's key at Stripe; 0: none

syncVars == <<plan, sync, prices, remote>>
checkoutVars == <<attempt, request, session>>
accountVars == <<clock, entries, purchase, withdraw, refund>>
ledgerVars == <<syncVars, checkoutVars, events, accountVars>>

Kinds == {"grant", "purchase", "debit", "adjustment", "expiry", "withdrawal"}
Entry(kind, ref, plus, minus) ==
  [kind |-> kind, ref |-> ref, plus |-> plus, minus |-> minus, remaining |-> plus]

LedgerTypeOK ==
  /\ plan \in 1 .. MaxPlan
  /\ sync \in [step: {"idle", "create", "store"}, fingerprint: 0 .. MaxPlan]
  /\ prices \in Seq([fingerprint: 1 .. MaxPlan, price: 1 .. MaxPlan])
  /\ remote \in [1 .. MaxPlan + 1 -> 0 .. MaxPlan]
  /\ attempt \in [status: {"none", "open", "processing", "paid", "failed", "expired"},
                  bound: BOOLEAN]
  /\ request \in {"idle", "create", "store"}
  /\ session \in {"none", "open", "unpaid", "paid", "failed", "expired"}
  /\ clock \in 0 .. 2
  /\ \A i \in DOMAIN entries : entries[i].remaining \in 0 .. entries[i].plus
  /\ purchase \in [status: {"none", "active", "withdrawn"}, refund: 0 .. Price,
                   by: {"nobody", "request", "event"}]
  /\ withdraw \in [step: {"idle", "refund", "commit"}, cents: 0 .. Price]
  /\ refund \in 0 .. Price

LedgerInit ==
  /\ plan = 1 /\ sync = [step |-> "idle", fingerprint |-> 0] /\ prices = <<>>
  /\ remote = [v \in 1 .. MaxPlan + 1 |-> 0]
  /\ attempt = [status |-> "none", bound |-> FALSE]
  /\ request = "idle" /\ session = "none" /\ events = {}
  /\ clock = 0
  /\ entries = <<Entry("grant", "plan", Granted, 0)>>
  /\ purchase = [status |-> "none", refund |-> 0, by |-> "nobody"]
  /\ withdraw = [step |-> "idle", cents |-> 0]
  /\ refund = 0

-------------------------------------------------------------------------------
(* sync_plans: a price per version of a plan, found again by lookup key.     *)

EditPlan ==
  /\ plan < MaxPlan
  /\ plan' = plan + 1
  /\ UNCHANGED <<sync, prices, remote, checkoutVars, events, accountVars>>

LatestFingerprint == IF prices = <<>> THEN 0 ELSE prices[Len(prices)].fingerprint

BeginSync ==
  /\ sync.step = "idle"
  /\ LatestFingerprint # plan
  /\ sync' = [step |-> "create", fingerprint |-> plan]
  /\ UNCHANGED <<plan, prices, remote, checkoutVars, events, accountVars>>

\* A price that carries the lookup key is taken as it is.
CreatePrice ==
  LET version == Len(prices) + 1 IN
  /\ sync.step = "create"
  /\ remote' = [remote EXCEPT ![version] = IF @ # 0 THEN @ ELSE sync.fingerprint]
  /\ sync' = [sync EXCEPT !.step = "store"]
  /\ UNCHANGED <<plan, prices, checkoutVars, events, accountVars>>

StorePrice ==
  /\ sync.step = "store"
  /\ prices' = Append(prices, [fingerprint |-> sync.fingerprint,
                               price |-> remote[Len(prices) + 1]])
  /\ sync' = [step |-> "idle", fingerprint |-> 0]
  /\ UNCHANGED <<plan, remote, checkoutVars, events, accountVars>>

SyncDies ==
  /\ sync.step # "idle"
  /\ sync' = [step |-> "idle", fingerprint |-> 0]
  /\ UNCHANGED <<plan, prices, remote, checkoutVars, events, accountVars>>

-------------------------------------------------------------------------------
(* The contextual checkout: a row, then under its lock a session at Stripe.  *)

OpenAttempt ==
  /\ prices # <<>> /\ attempt.status = "none"
  /\ attempt' = [attempt EXCEPT !.status = "open"]
  /\ UNCHANGED <<syncVars, request, session, events, accountVars>>

\* The first request, or a retry with the same idempotency key.
BeginCheckout ==
  /\ attempt.status = "open" /\ ~attempt.bound /\ request = "idle"
  /\ request' = "create"
  /\ UNCHANGED <<syncVars, attempt, session, events, accountVars>>

\* The key is the attempt's own, so Stripe answers a repeat with the same session.
CreateSession ==
  /\ request = "create"
  /\ session' = IF session = "none" THEN "open" ELSE session
  /\ request' = "store"
  /\ UNCHANGED <<syncVars, attempt, events, accountVars>>

StoreSession ==
  /\ request = "store"
  /\ attempt' = [attempt EXCEPT !.bound = TRUE]
  /\ request' = "idle"
  /\ UNCHANGED <<syncVars, session, events, accountVars>>

CheckoutDies ==
  /\ request # "idle"
  /\ request' = "idle"
  /\ UNCHANGED <<syncVars, attempt, session, events, accountVars>>

\* Stripe: the user pays at once or by a delayed method, or the session expires.
\* The checkout address is handed out with the stored session only.
Moves == {<<"open", "paid", "completed_paid">>, <<"open", "unpaid", "completed_unpaid">>,
          <<"unpaid", "paid", "async_succeeded">>, <<"unpaid", "failed", "async_failed">>,
          <<"open", "expired", "expired">>}
SessionMoves ==
  \E move \in Moves :
    /\ session = move[1] /\ (attempt.bound \/ move[2] = "expired")
    /\ session' = move[2]
    /\ events' = events \cup {move[3]}
    /\ UNCHANGED <<syncVars, attempt, request, accountVars>>

\* The status an event asks for.
BugCompletedIsPaid(event) ==
  CASE event \in {"completed_paid", "completed_unpaid", "async_succeeded"} -> "paid"
    [] event = "async_failed" -> "failed"
    [] OTHER -> "expired"
Target(event) ==
  CASE event \in {"completed_paid", "async_succeeded"} -> "paid"
    [] event = "completed_unpaid" -> "processing"
    [] event = "async_failed" -> "failed"
    [] OTHER -> "expired"

Allowed(status, target) ==
  \/ status = "open" /\ target \in {"processing", "paid", "failed", "expired"}
  \/ status = "processing" /\ target \in {"paid", "failed"}

\* _update_checkout_attempt; an unbound attempt is found by its reference.
Updated(event) == [status |-> IF Allowed(attempt.status, Target(event))
                              THEN Target(event) ELSE attempt.status,
                   bound |-> TRUE]

\* The events that carry a payment: seats and tokens wait for it.
BugOnlyCompleted(event) == event = "completed_paid"
Paid(event) == event \in {"completed_paid", "async_succeeded"}

\* credit_purchase and _create_purchase: both find what an earlier event made.
Credited ==
  IF \E i \in DOMAIN entries : entries[i].kind = "purchase" THEN entries
  ELSE Append(entries, Entry("purchase", "package", Tokens, 0))

CreatedPurchase ==
  IF purchase.status = "none" THEN [purchase EXCEPT !.status = "active"] ELSE purchase

\* One webhook event in one transaction; the attempt's row lock is free.
DeliverCheckout(event) ==
  /\ event \in events /\ request = "idle"
  /\ events' = events \ {event}
  /\ attempt' = Updated(event)
  /\ IF Paid(event)
     THEN entries' = Credited /\ purchase' = CreatedPurchase
     ELSE UNCHANGED <<entries, purchase>>
  /\ UNCHANGED <<syncVars, request, session, clock, withdraw, refund>>

-------------------------------------------------------------------------------
(* The token entries. *)

Credits == {"grant", "purchase", "adjustment"}
Expired(e) == e.kind = "grant" /\ clock >= 1

\* What a debit may take from, in its order: grants that expire, then the rest
\* as they were created.
Usable == {i \in DOMAIN entries :
             entries[i].kind \in Credits /\ entries[i].remaining > 0 /\ ~Expired(entries[i])}
BugNewestFirst(i, j) == i > j
Before(i, j) ==
  \/ entries[i].kind = "grant" /\ entries[j].kind # "grant"
  \/ entries[i].kind # "grant" /\ entries[j].kind # "grant" /\ i < j

\* Columns of the entries, and what some rows of one add up to.
Plus == [i \in DOMAIN entries |-> entries[i].plus]
Minus == [i \in DOMAIN entries |-> entries[i].minus]
Remaining == [i \in DOMAIN entries |-> entries[i].remaining]
Total(column, rows) == MapThenSumSet(LAMBDA i : column[i], rows)
Smaller(a, b) == IF a < b THEN a ELSE b

\* The tokens a debit takes from row i, after the rows before it.
Take(i, amount) ==
  LET earlier == Total(Remaining, {j \in Usable : Before(j, i)}) IN
  IF i \notin Usable \/ earlier >= amount THEN 0
  ELSE Smaller(entries[i].remaining, amount - earlier)

\* The account's row lock: a withdrawal in flight holds it.
BugNoLock == FALSE
AccountLocked == withdraw.step # "idle"

Has(kind, ref) == \E i \in DOMAIN entries : entries[i].kind = kind /\ entries[i].ref = ref

BugAnyBalance(amount) == TRUE
Sufficient(amount) == Total(Remaining, Usable) >= amount

\* debit_tokens: a repeated reference returns the old debit and changes nothing.
Debit(ref, amount) ==
  /\ ~AccountLocked /\ ~Has("debit", ref) /\ Sufficient(amount)
  /\ entries' = Append([i \in DOMAIN entries |->
                          [entries[i] EXCEPT !.remaining = @ - Take(i, amount)]],
                       Entry("debit", ref, 0, amount))
  /\ UNCHANGED <<syncVars, checkoutVars, events, clock, purchase, withdraw, refund>>

\* reverse_debit: the tokens come back as a credit of their own, once.
Reverse(ref) ==
  /\ ~AccountLocked /\ ~Has("adjustment", ref)
  /\ \E i \in DOMAIN entries :
       /\ entries[i].kind = "debit" /\ entries[i].ref = ref
       /\ entries' = Append(entries, Entry("adjustment", ref, entries[i].minus, 0))
  /\ UNCHANGED <<syncVars, checkoutVars, events, clock, purchase, withdraw, refund>>

\* Row i loses what is left of it, and an entry of this kind says so.
WrittenOff(i, kind) ==
  Append([entries EXCEPT ![i].remaining = 0], Entry(kind, entries[i].ref, 0, entries[i].remaining))

\* expire_tokens locks the grants themselves, not the account.
Expire(i) ==
  /\ i \in DOMAIN entries /\ Expired(entries[i]) /\ entries[i].remaining > 0
  /\ entries' = WrittenOff(i, "expiry")
  /\ UNCHANGED <<syncVars, checkoutVars, events, clock, purchase, withdraw, refund>>

Tick ==
  /\ clock < 2
  /\ clock' = clock + 1
  /\ UNCHANGED <<syncVars, checkoutVars, events, entries, purchase, withdraw, refund>>

-------------------------------------------------------------------------------
(* The prorated withdrawal of the package. *)

Package == CHOOSE i \in DOMAIN entries : entries[i].kind = "purchase"
CeilDiv(n, d) == (n + d - 1) \div d
\* refund_amount: the share of the tokens already used is kept, rounded up.
Consumed == entries[Package].plus - entries[Package].remaining
RefundAmount == Price - CeilDiv(Consumed * Price, Tokens)

\* withdraw: purchase and account are locked until the transaction ends.
LockPurchase ==
  /\ withdraw.step = "idle" /\ purchase.status = "active"
  /\ withdraw' = [step |-> IF RefundAmount > 0 THEN "refund" ELSE "commit",
                  cents |-> RefundAmount]
  /\ UNCHANGED <<syncVars, checkoutVars, events, clock, entries, purchase, refund>>

\* withdrawal_execute: the purchase's own endpoint, within fourteen days.
BeginWithdraw == clock < 2 /\ LockPurchase

\* Refund.create under the purchase's fixed key: an equal request is answered
\* with the first refund, another amount is refused and all is rolled back.
CreateRefund ==
  /\ withdraw.step = "refund"
  /\ IF refund \in {0, withdraw.cents}
     THEN /\ withdraw' = [withdraw EXCEPT !.step = "commit"]
          /\ refund' = withdraw.cents
          /\ events' = IF refund = 0 THEN events \cup {"refund"} ELSE events
     ELSE /\ withdraw' = [step |-> "idle", cents |-> 0]
          /\ UNCHANGED <<refund, events>>
  /\ UNCHANGED <<syncVars, checkoutVars, clock, entries, purchase>>

\* complete_withdrawal: the package's tokens are gone, the purchase withdrawn.
CompleteWithdrawal(cents, by) ==
  /\ entries' = IF entries[Package].remaining > 0
                THEN WrittenOff(Package, "withdrawal") ELSE entries
  /\ purchase' = [status |-> "withdrawn", refund |-> cents, by |-> by]

CommitWithdraw ==
  /\ withdraw.step = "commit"
  /\ CompleteWithdrawal(withdraw.cents, "request")
  /\ withdraw' = [step |-> "idle", cents |-> 0]
  /\ UNCHANGED <<syncVars, checkoutVars, events, clock, refund>>

\* The server dies before the commit; a refund made at Stripe stays made.
WithdrawDies ==
  /\ withdraw.step # "idle"
  /\ withdraw' = [step |-> "idle", cents |-> 0]
  /\ UNCHANGED <<syncVars, checkoutVars, events, clock, entries, purchase, refund>>

\* withdrawal_refund_purchase: ours by the key, and the purchase still active.
BugOnRecord(cents) == purchase.status = "active" /\ purchase.refund = cents
OurRefund(cents) == purchase.status = "active" /\ cents \in 1 .. Price

\* complete_withdrawal_from_refund, once the purchase's lock is free.
DeliverRefund ==
  /\ "refund" \in events /\ withdraw.step = "idle"
  /\ events' = events \ {"refund"}
  /\ IF OurRefund(refund) THEN CompleteWithdrawal(refund, "event")
                          ELSE UNCHANGED <<entries, purchase>>
  /\ UNCHANGED <<syncVars, checkoutVars, clock, withdraw, refund>>

-------------------------------------------------------------------------------
CheckoutEvents == {move[3] : move \in Moves}

\* Everything but the steps of a withdrawal's open transaction.
LedgerNext ==
  \/ EditPlan \/ BeginSync \/ CreatePrice \/ StorePrice \/ SyncDies
  \/ OpenAttempt \/ BeginCheckout \/ CreateSession \/ StoreSession \/ CheckoutDies
  \/ SessionMoves
  \/ \E event \in CheckoutEvents : DeliverCheckout(event)
  \/ \E ref \in Debits : Reverse(ref) \/ \E amount \in Amounts : Debit(ref, amount)
  \/ \E i \in DOMAIN entries : Expire(i)
  \/ Tick
  \/ BeginWithdraw \/ DeliverRefund

-------------------------------------------------------------------------------
\* billing/services.py: whatever order debits, reversals, expiry and withdrawal
\* come in, what the entries add up to is what is left to spend.
LedgerBalances ==
  LET rows == DOMAIN entries IN
  Total(Plus, rows) = Total(Remaining, rows) + Total(Minus, rows)

\* withdrawal.py:172, "lock the owner's accounts so a concurrent debit cannot
\* make the token share stale": until the request commits, its refund is still
\* what the tokens used by then are worth.
ShareStaysFresh == withdraw.step # "idle" => withdraw.cents = RefundAmount

\* complete_withdrawal, "the local effects of a confirmed refund"
\* (withdrawal.py:109): the refund on record is the one Stripe made.
RecordedRefund == purchase.status = "withdrawn" => purchase.refund = refund

\* _update_checkout_attempt: the attempt never claims an outcome the session did
\* not have, in whatever order its events come.
AttemptTellsTruth ==
  /\ attempt.status \in {"paid", "failed", "expired"} => session = attempt.status
  /\ attempt.status = "processing" => session \in {"unpaid", "paid", "failed"}

\* process_stripe_event: a session that was paid, at once or later, ends in the
\* purchase, its tokens and a paid attempt.
PaidIsCredited ==
  (session = "paid") ~> (Has("purchase", "package") /\ purchase.status # "none"
                         /\ attempt.status = "paid")

\* complete_withdrawal_from_refund: a refund at Stripe ends in a withdrawn
\* purchase, also when the server died before its commit.
RefundCompletes == (refund > 0) ~> (purchase.status = "withdrawn")

\* sync_plans, "A changed fingerprint creates a new Price version"
\* (docs/design/billing.md:47): a row's price was made for the row's fingerprint.
PriceIsPlans == \A v \in DOMAIN prices : prices[v].price = prices[v].fingerprint
-------------------------------------------------------------------------------
\* The live tokens of the credits of a kind.
TokensOf(kind) ==
  Total(Remaining, {i \in DOMAIN entries : entries[i].kind = kind /\ ~Expired(entries[i])})
DebitedTo(ref) ==
  Total(Minus, {i \in DOMAIN entries : entries[i].kind = "debit" /\ entries[i].ref = ref})

\* The entries, with their remainders, late expiry jobs, retries and a withdrawal
\* in three steps, implement an account that debits, reverses and pays back at
\* once (billing/services.py:75, withdrawal.py:47).
AtomicAccount == INSTANCE TokenAccount WITH
  lapsed <- clock >= 1,
  grant <- TokensOf("grant"), package <- TokensOf("purchase"),
  returned <- TokensOf("adjustment"),
  debited <- [ref \in Debits |-> DebitedTo(ref)],
  undone <- {ref \in Debits : Has("adjustment", ref)},
  status <- purchase.status, refunded <- purchase.refund
KeepsAccount == AtomicAccount!Spec
===============================================================================
