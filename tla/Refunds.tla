------------------------------- MODULE Refunds -------------------------------
(***************************************************************************)
(* Refund rows of one contract payment (billing/contracts.py) against      *)
(* Stripe: `_perform_withdrawal` and `retry_refund` run in several Django  *)
(* processes (the request's on_commit hook, the operator command, the      *)
(* batch command), Stripe refunds settle asynchronously, and webhooks      *)
(* arrive late, twice and in any order.                                    *)
(*                                                                         *)
(* One contract with one payment of Paid cents and one accepted withdrawal *)
(* declaration; the amounts are small integers standing for cents.         *)
(***************************************************************************)
EXTENDS Integers, FiniteSets, FiniteSetsExt

CONSTANTS
  Workers,     \* Django processes that may work on the withdrawal at once
  MaxRow,      \* bound: refund rows the run may create
  Paid,        \* ContractPayment.amount_paid_cents
  Decision,    \* Declaration.decision_refund_cents, or NoDecision
  NoDecision,  \* the column is NULL: the whole payment is refunded
  Outcomes,    \* statuses Stripe may give a new refund
  Foreign,     \* amounts somebody may refund in the Stripe dashboard
  Faults,      \* what may go wrong: "crash", "lookup", "lost_answer"
  NoRow        \* a primary key that is not in the table

ASSUME RefundsAssumption ==
  /\ MaxRow \in Nat \ {0}
  /\ Paid \in Nat \ {0}
  /\ Decision \in (0 .. Paid) \cup {NoDecision}
  /\ NoDecision \notin Int
  /\ Outcomes \subseteq {"succeeded", "pending", "failed", "requires_action"}
  /\ Foreign \subseteq 1 .. Paid
  /\ Faults \subseteq {"crash", "lookup", "lost_answer"}

VARIABLES
  refunds,      \* table Refund: primary key -> row or NoRow
  amount,       \* its column amount_cents
  refunded,     \* ContractPayment.refunded_cents
  declaration,  \* Declaration.status
  intent,       \* the payment has a stripe_payment_intent_id
  worker,       \* what each process is doing
  seen,         \* refunded cents each process has read
  remote,       \* Stripe: the refund created under the row's key, or "none"
  answer,       \* Stripe: the stored response of the row's key, or "none"
  foreign,      \* Stripe: cents refunded in the dashboard
  refundEvents, \* Stripe: refund.* events sent, <<row, status>>
  chargeEvents  \* Stripe: charge.refunded events sent, the total they carry

database == <<refunds, amount, refunded, declaration, intent>>
stripe   == <<remote, answer, foreign, refundEvents, chargeEvents>>
vars     == <<database, worker, seen, stripe>>

Rows     == 1 .. MaxRow
Accepted == {"pending", "requires_action", "succeeded"}
Open     == {"pending", "requested", "requires_action"}
Final    == {"succeeded", "cancelled"}
Status   == Open \cup Final \cup {"failed"}
Codes    == {"", "error", "refund_failed", "payment_reference_missing"}
Steps    == {"idle", "lookup", "save", "row", "retry", "cancel", "fresh",
             "mark", "call", "store", "complete"}

RefundRow == [status : Status, code : Codes, accepted : BOOLEAN]
Fresh     == [status |-> "pending", code |-> "", accepted |-> FALSE]

ASSUME NoRowAssumption == NoRow \notin Rows /\ NoRow \notin RefundRow

\* `resumed`: the process is inside _perform_withdrawal; `row`: the refund it
\* works on; `result`: Stripe's answer.
Process(step, resumed, row) ==
  [step |-> step, resumed |-> resumed, row |-> row, result |-> "none"]
Idle == Process("idle", FALSE, NoRow)

Exists(r)  == refunds[r] # NoRow
Existing   == {r \in Rows : Exists(r)}
Live       == {r \in Rows : Exists(r) /\ refunds[r].status \notin Final}
MinOf(a, b) == IF a < b THEN a ELSE b
MaxOf(a, b) == IF a > b THEN a ELSE b

AmountOf(set) == MapThenSumSet(LAMBDA r : amount[r], set)

Ours == AmountOf({r \in Existing : remote[r] \in Accepted})

\* Charge.amount_refunded: pending refunds count, failed ones do not
AmountRefunded == foreign + Ours

TypeOK ==
  /\ refunds \in [Rows -> RefundRow \cup {NoRow}]
  /\ amount \in [Rows -> 0 .. Paid]
  /\ refunded \in Nat
  /\ declaration \in {"accepted", "effective"}
  /\ intent \in BOOLEAN
  /\ worker \in [Workers ->
       [step : Steps, resumed : BOOLEAN, row : Rows \cup {NoRow},
        result : {"none", "error"} \cup Outcomes]]
  /\ seen \in [Workers -> Nat]
  /\ remote \in [Rows -> Outcomes \cup {"none", "succeeded", "failed"}]
  /\ answer \in [Rows -> Outcomes \cup {"none"}]
  /\ foreign \in Nat
  /\ refundEvents \subseteq Rows \X (Accepted \cup {"failed"})
  /\ chargeEvents \subseteq 0 .. Paid

\* apply_withdrawal has committed: the contract is withdrawn and the
\* declaration accepted, no refund row exists yet.
Init ==
  /\ refunds = [r \in Rows |-> NoRow]
  /\ amount = [r \in Rows |-> 0]
  /\ refunded = 0
  /\ declaration = "accepted"
  /\ intent \in BOOLEAN
  /\ worker = [w \in Workers |-> Idle]
  /\ seen = [w \in Workers |-> 0]
  /\ remote = [r \in Rows |-> "none"]
  /\ answer = [r \in Rows |-> "none"]
  /\ foreign = 0
  /\ refundEvents = {}
  /\ chargeEvents = {}

At(w, step) == worker[w].step = step
Goto(w, step) == worker' = [worker EXCEPT ![w].step = step]
Take(w, step, r) ==
  worker' = [worker EXCEPT ![w] = Process(step, worker[w].resumed, r)]
Answered(w, result) ==
  worker' = [worker EXCEPT ![w] =
    [step |-> "store", resumed |-> @.resumed, row |-> @.row, result |-> result]]
Return(w) ==
  worker' = [worker EXCEPT ![w] =
    IF @.resumed THEN Process("complete", TRUE, NoRow) ELSE Idle]
Abort(w) == worker' = [worker EXCEPT ![w] = Idle]

\* mutant: without the unique index
BugNoIndex(r, status) == FALSE
\* the partial unique index: one open row per payment
IndexRefuses(r, status) ==
  status \in Open /\ \E q \in Existing \ {r} : refunds[q].status \in Open

-----------------------------------------------------------------------------
(* _perform_withdrawal *)

\* on_commit of apply_withdrawal, or resume_withdrawals of the batch command;
\* stopping future charges may fail, which leaves everything for the next run
BeginWithdrawal(w) ==
  /\ At(w, "idle")
  /\ declaration = "accepted"
  /\ worker' = [worker EXCEPT ![w] = Process("lookup", TRUE, NoRow)]
  /\ seen' = [seen EXCEPT ![w] = refunded]
  /\ UNCHANGED <<database, stripe>>

\* _stripe_refunded_cents: the larger of the row read before and Stripe's total
LookUpBalance(w) ==
  /\ At(w, "lookup")
  /\ Goto(w, "save")
  /\ seen' = [seen EXCEPT ![w] = IF intent THEN MaxOf(@, AmountRefunded) ELSE @]
  /\ UNCHANGED <<database, stripe>>

\* refund_balance_lookup_failed: the payment is skipped
LookUpFails(w) ==
  /\ "lookup" \in Faults
  /\ At(w, "lookup")
  /\ intent
  /\ Return(w)
  /\ UNCHANGED <<database, seen, stripe>>

\* payment.save of an instance read before the call to Stripe
SaveBalance(w) ==
  /\ At(w, "save")
  /\ refunded' = seen[w]
  /\ Goto(w, "row")
  /\ UNCHANGED <<refunds, amount, declaration, intent, seen, stripe>>

\* _refund_row: the row still open for this declaration, or a new one for what
\* the caller believes is left
RefundRowFor(w, cents, next) ==
  \/ /\ cents = 0
     /\ Return(w)
     /\ UNCHANGED <<refunds, amount>>
  \/ /\ cents > 0
     /\ \E r \in Live :
          /\ \A q \in Live : r <= q
          /\ Take(w, next, r)
     /\ UNCHANGED <<refunds, amount>>
  \/ /\ cents > 0
     /\ Live = {}
     /\ \E r \in Rows :
          /\ Existing = 1 .. (r - 1)
          /\ refunds' = [refunds EXCEPT ![r] = Fresh]
          /\ amount' = [amount EXCEPT ![r] = cents]
          /\ Take(w, next, r)

Left(w) == MaxOf(0, Paid - seen[w])

CreateRefund(w) ==
  /\ At(w, "row")
  /\ RefundRowFor(w, IF Decision = NoDecision THEN Left(w)
                     ELSE MinOf(Left(w), Decision), "retry")
  /\ UNCHANGED <<refunded, declaration, intent, seen, stripe>>

\* mutant: effective as soon as no row is open
BugCompleteWhenNothingOpen(w) ==
  /\ At(w, "complete")
  /\ declaration' = IF Live = {} THEN "effective" ELSE declaration
  /\ Abort(w)
  /\ UNCHANGED <<refunds, amount, refunded, intent, seen, stripe>>

\* the tail of _perform_withdrawal, with the payment read again
CompleteWithdrawal(w) ==
  /\ At(w, "complete")
  /\ declaration' =
       IF (IF Decision = NoDecision THEN refunded >= Paid ELSE Live = {})
       THEN "effective" ELSE declaration
  /\ Abort(w)
  /\ UNCHANGED <<refunds, amount, refunded, intent, seen, stripe>>

-----------------------------------------------------------------------------
(* retry_refund and process_refund *)

\* the batch command picks a refund that is still open or failed
BeginRetry(w) ==
  /\ At(w, "idle")
  /\ \E r \in Live :
       worker' = [worker EXCEPT ![w] = Process("retry", FALSE, r)]
  /\ UNCHANGED <<database, seen, stripe>>

\* mutants: replace what may still be refunded, never replace
BugAnyFailure(r)   == refunds[r].status = "failed"
BugNeverReplace(r) == FALSE

DefinitelyFailed(r) ==
  refunds[r].status = "failed" /\ refunds[r].code = "refund_failed"

\* the row and its payment are read without a lock
ReadRefund(w) ==
  /\ At(w, "retry")
  /\ Goto(w, IF DefinitelyFailed(worker[w].row) THEN "cancel" ELSE "mark")
  /\ seen' = [seen EXCEPT ![w] = refunded]
  /\ UNCHANGED <<database, stripe>>

\* the failed row is closed under its lock, after a second look
CancelRefund(w) ==
  LET r == worker[w].row IN
  /\ At(w, "cancel")
  /\ IF DefinitelyFailed(r)
     THEN /\ refunds' = [refunds EXCEPT ![r].status = "cancelled"]
          /\ Goto(w, "fresh")
     ELSE Return(w) /\ UNCHANGED refunds
  /\ UNCHANGED <<amount, refunded, declaration, intent, seen, stripe>>

\* ... and replaced by a fresh row of at most the same amount
FreshRefund(w) ==
  /\ At(w, "fresh")
  /\ RefundRowFor(w, MinOf(Left(w), amount[worker[w].row]), "mark")
  /\ UNCHANGED <<refunded, declaration, intent, seen, stripe>>

\* process_refund, first transaction
MarkPending(w) ==
  LET r == worker[w].row IN
  /\ At(w, "mark")
  /\ \/ /\ refunds[r].status \in Final
        /\ Return(w)
        /\ UNCHANGED refunds
     \/ /\ refunds[r].status \notin Final
        /\ IndexRefuses(r, "pending")
        /\ Abort(w)
        /\ UNCHANGED refunds
     \/ /\ refunds[r].status \notin Final
        /\ ~ IndexRefuses(r, "pending")
        /\ refunds' = [refunds EXCEPT ![r].status = "pending", ![r].code = ""]
        /\ Goto(w, IF intent THEN "call" ELSE "store")
  /\ UNCHANGED <<amount, refunded, declaration, intent, seen, stripe>>

\* a payment without a payment intent cannot be refunded at Stripe
ReferenceMissing(w) ==
  LET r == worker[w].row IN
  /\ At(w, "store")
  /\ ~ intent
  /\ refunds' = IF refunds[r].status = "succeeded" THEN refunds
                ELSE [refunds EXCEPT ![r].status = "failed",
                        ![r].code = "payment_reference_missing"]
  /\ Return(w)
  /\ UNCHANGED <<amount, refunded, declaration, intent, seen, stripe>>

\* Refund.create raises: nothing reached Stripe, Stripe refuses the amount, or
\* the repeated answer is lost
CallFails(w) ==
  /\ At(w, "call")
  /\ Answered(w, "error")
  /\ UNCHANGED <<database, seen, stripe>>

\* Stripe knows the idempotency key and repeats its first answer
CallReplays(w) ==
  LET r == worker[w].row IN
  /\ At(w, "call")
  /\ answer[r] # "none"
  /\ Answered(w, answer[r])
  /\ UNCHANGED <<database, seen, stripe>>

\* Stripe accepts a new refund; the answer may get lost on the way back
CallCreates(w) ==
  LET r == worker[w].row IN
  /\ At(w, "call")
  /\ answer[r] = "none"
  /\ amount[r] <= Paid - AmountRefunded
  /\ \E status \in Outcomes, result \in Outcomes \cup {"error"} :
       /\ \/ result = status
          \/ result = "error" /\ "lost_answer" \in Faults
       /\ remote' = [remote EXCEPT ![r] = status]
       /\ answer' = [answer EXCEPT ![r] = status]
       /\ refundEvents' = refundEvents \cup {<<r, status>>}
       /\ chargeEvents' = IF status = "failed" THEN chargeEvents
            ELSE chargeEvents \cup {AmountRefunded + amount[r]}
       /\ Answered(w, result)
  /\ UNCHANGED <<database, seen, foreign>>

\* mutants: store Stripe's word as it is, take anything but a failure for success
BugVerbatim(status)   == status
BugOptimistic(status) == IF status = "failed" THEN "failed" ELSE "succeeded"

LocalStatus(status) ==
  CASE status = "succeeded"       -> "succeeded"
    [] status = "failed"          -> "failed"
    [] status = "requires_action" -> "requires_action"
    [] status = "error"           -> "pending"
    [] OTHER                      -> "requested"

FailureCode(status) == IF status = "failed" THEN "refund_failed" ELSE ""

\* process_refund, second transaction: the only guard is "not yet succeeded"
StoreResult(w) ==
  LET r == worker[w].row
      result == worker[w].result
      next == LocalStatus(result)
  IN
  /\ At(w, "store")
  /\ intent
  /\ \/ /\ refunds[r].status = "succeeded"
        /\ Return(w)
        /\ UNCHANGED <<refunds, refunded>>
     \/ /\ refunds[r].status # "succeeded"
        /\ IndexRefuses(r, next)
        /\ Abort(w)
        /\ UNCHANGED <<refunds, refunded>>
     \/ /\ refunds[r].status # "succeeded"
        /\ ~ IndexRefuses(r, next)
        /\ refunded' = refunded + IF next = "succeeded" THEN amount[r] ELSE 0
        /\ refunds' = [refunds EXCEPT ![r].status = next,
             ![r].accepted = @ \/ result # "error",
             ![r].code = IF result = "error" THEN "error" ELSE FailureCode(next)]
        /\ Return(w)
  /\ UNCHANGED <<amount, declaration, intent, seen, stripe>>

\* the process is killed between two steps, or stopping the subscription failed
Crash(w) ==
  /\ "crash" \in Faults
  /\ ~ At(w, "idle")
  /\ Abort(w)
  /\ UNCHANGED <<database, seen, stripe>>

-----------------------------------------------------------------------------
(* Webhooks *)

\* mutant: a late event unsettles a row that succeeded
BugUnsettles(row, status) ==
  IF row.status = "cancelled" THEN row
  ELSE [row EXCEPT !.status = LocalStatus(status), !.accepted = TRUE,
                   !.code = FailureCode(LocalStatus(status))]

\* the row after complete_contract_refund has seen a refund in this status
Completed(row, status) ==
  LET next == LocalStatus(status) IN
  IF \/ row.status \in Final
     \/ row.status = "failed" /\ next \in {"requested", "requires_action"}
  THEN row
  ELSE [row EXCEPT !.status = next, !.accepted = TRUE, !.code = FailureCode(next)]

\* rows the new table marks succeeded and the old one did not
NewlySucceeded(table) ==
  {r \in Existing : table[r].status = "succeeded" /\ refunds[r].status # "succeeded"}

\* refund.created, refund.updated and refund.failed, delivered at least once
DeliverRefund(e) ==
  LET table == [refunds EXCEPT ![e[1]] = Completed(@, e[2])] IN
  /\ e \in refundEvents
  /\ refunds' = table
  /\ refunded' = refunded + AmountOf(NewlySucceeded(table))
  /\ UNCHANGED <<amount, declaration, intent, worker, seen, stripe>>

\* charge.refunded: complete our rows from Stripe's list when one is open, then
\* reconcile_provider_refunds with the total the event carries
ChargeEvent ==
  /\ \E total \in chargeEvents :
       LET table == [r \in Rows |->
             IF Live # {} /\ Exists(r) /\ remote[r] # "none"
             THEN Completed(refunds[r], remote[r]) ELSE refunds[r]]
           counted == refunded + AmountOf(NewlySucceeded(table))
           openOurs == AmountOf({r \in Existing :
                         table[r].status \in Open /\ table[r].accepted})
       IN
       /\ refunds' = table
       /\ refunded' = MaxOf(counted, MinOf(Paid, total - openOurs))
  /\ UNCHANGED <<amount, declaration, intent, worker, seen, stripe>>

-----------------------------------------------------------------------------
(* Stripe on its own *)

Settle(r) ==
  /\ remote[r] \in {"pending", "requires_action"}
  /\ \E status \in {"succeeded", "failed"} :
       /\ remote' = [remote EXCEPT ![r] = status]
       /\ refundEvents' = refundEvents \cup {<<r, status>>}
  /\ UNCHANGED <<database, worker, seen, answer, foreign, chargeEvents>>

DashboardRefund ==
  /\ intent
  /\ \E cents \in Foreign :
       /\ AmountRefunded + cents <= Paid
       /\ foreign' = foreign + cents
       /\ chargeEvents' = chargeEvents \cup {AmountRefunded + cents}
  /\ UNCHANGED <<database, worker, seen, remote, answer, refundEvents>>

-----------------------------------------------------------------------------
Work(w) ==
  \/ BeginWithdrawal(w) \/ LookUpBalance(w) \/ LookUpFails(w) \/ SaveBalance(w)
  \/ CreateRefund(w) \/ CompleteWithdrawal(w)
  \/ BeginRetry(w) \/ ReadRefund(w) \/ CancelRefund(w) \/ FreshRefund(w)
  \/ MarkPending(w) \/ ReferenceMissing(w)
  \/ CallFails(w) \/ CallReplays(w) \/ CallCreates(w) \/ StoreResult(w)
  \/ Crash(w)

Next ==
  \/ \E w \in Workers : Work(w)
  \/ \E e \in refundEvents : DeliverRefund(e)
  \/ ChargeEvent
  \/ \E r \in Rows : Settle(r)
  \/ DashboardRefund

Spec == Init /\ [][Next]_vars

\* every step of a run already under way that does not depend on luck
Proceed(w) ==
  \/ SaveBalance(w) \/ CreateRefund(w) \/ CompleteWithdrawal(w) \/ ReadRefund(w)
  \/ CancelRefund(w) \/ FreshRefund(w) \/ MarkPending(w) \/ ReferenceMissing(w)
  \/ StoreResult(w)

\* The batch command keeps running, a call to Stripe made again and again
\* succeeds in the end, Stripe settles what it accepted and delivers the event.
Fairness ==
  /\ \A w \in Workers :
       /\ WF_vars(Proceed(w))
       /\ SF_vars(BeginWithdrawal(w)) /\ SF_vars(BeginRetry(w))
       /\ SF_vars(LookUpBalance(w))
       /\ WF_vars(CallFails(w)) /\ SF_vars(CallCreates(w) \/ CallReplays(w))
  /\ \A r \in Rows : WF_vars(Settle(r))
  /\ \A r \in Rows, status \in {"succeeded", "failed"} :
       SF_vars(DeliverRefund(<<r, status>>))

FairSpec == Spec /\ Fairness

-----------------------------------------------------------------------------
(* What the customer and the books rely on *)

\* what the withdrawal has to pay back
Owed == IF Decision = NoDecision THEN Paid ELSE Decision

\* Stripe never holds more refunds of ours than the withdrawal has to pay back:
\* retries, fresh rows and a second process never refund the same money twice.
NoDoubleRefund == Ours <= Owed

\* The books never show more refunded than was paid: no refund is counted both
\* from Stripe's running total and from its own event.
BooksNeverExceedPayment == refunded <= Paid

\* The declaration becomes effective only once Stripe has the owed refund.
EffectiveMeansRefunded == declaration = "effective" => AmountRefunded >= Owed

\* A row is succeeded only on Stripe's word.
SucceededOnStripesWord ==
  \A r \in Existing : refunds[r].status = "succeeded" => remote[r] = "succeeded"

\* A row is replaced by a fresh one only when Stripe holds no live refund of it.
ReplacedOnlyWhenFailed ==
  \A r \in Existing : refunds[r].status = "cancelled" => remote[r] = "failed"

\* One payment never has two rows that are still being requested.
OneOpenRow ==
  \A q, r \in Existing :
    refunds[q].status \in Open /\ refunds[r].status \in Open => q = r

\* A succeeded row is settled: no late answer, event or retry changes it.
SucceededStaysSucceeded ==
  [][\A r \in Rows : Exists(r) /\ refunds[r].status = "succeeded"
       => refunds'[r] = refunds[r]]_vars

\* The withdrawal of a payment that can be refunded is paid back in the end,
\* however often single refunds fail (unless the bound MaxRow is used up).
WithdrawalIsPaid == intent ~> (AmountRefunded >= Owed \/ Existing = Rows)

-----------------------------------------------------------------------------
(* The strengthening that makes the last two row invariants inductive: every   *)
(* definite answer a process or an event still carries is Stripe's final word. *)

Definite == {"succeeded", "failed"}
Holding  == {"retry", "cancel", "fresh", "mark", "call", "store"}

RowsTypeOK ==
  /\ refunds \in [Rows -> RefundRow \cup {NoRow}]
  /\ intent \in BOOLEAN
  /\ worker \in [Workers ->
       [step : Steps, resumed : BOOLEAN, row : Rows \cup {NoRow},
        result : {"none", "error"} \cup Outcomes]]
  /\ remote \in [Rows -> Accepted \cup {"none", "failed"}]
  /\ answer \in [Rows -> Outcomes \cup {"none"}]
  /\ refundEvents \subseteq Rows \X (Accepted \cup {"failed"})

WorkersHoldRows ==
  \A w \in Workers :
    /\ worker[w].step \in Holding => worker[w].row \in Existing
    /\ worker[w].step # "store" => worker[w].result = "none"
    /\ worker[w].result \in Definite => remote[worker[w].row] = worker[w].result

StripeKnowsRows ==
  /\ \A r \in Rows :
       /\ remote[r] # "none" => Exists(r)
       /\ answer[r] = "none" <=> remote[r] = "none"
       /\ answer[r] \in Definite => remote[r] = answer[r]
  /\ \A e \in refundEvents :
       /\ remote[e[1]] # "none"
       /\ e[2] \in Definite => remote[e[1]] = e[2]

RowsFollowStripe ==
  \A r \in Existing :
    /\ refunds[r].status = "succeeded" => remote[r] = "succeeded"
    /\ refunds[r].status = "cancelled" => remote[r] = "failed"
    /\ refunds[r].code = "refund_failed" => remote[r] = "failed"

StripesWord == RowsTypeOK /\ WorkersHoldRows /\ StripeKnowsRows /\ RowsFollowStripe

-----------------------------------------------------------------------------
(* The strengthening behind EffectiveMeansRefunded, where Stripe decides every *)
(* refund at once: either no refund of ours has gone through, and nothing in   *)
(* the books or in a process's hands exceeds what the dashboard gave back, or  *)
(* one refund has, and it was large enough.                                    *)

Untouched ==
  /\ \A r \in Rows : remote[r] # "succeeded"
  /\ refunded <= foreign
  /\ \A w \in Workers : seen[w] <= foreign
  /\ \A total \in chargeEvents : total <= foreign
  /\ \A r \in Existing : amount[r] + foreign >= Owed
  /\ declaration = "effective" => foreign >= Owed

PaidBack == \E r \in Existing : remote[r] = "succeeded" /\ amount[r] + foreign >= Owed

\* A partial refund is complete when no row is open: nobody else may then be
\* between closing a failed row and opening the fresh one.
NobodyBetweenRows ==
  \A w \in Workers :
    /\ worker[w].step \in Holding \ {"fresh"} => refunds[worker[w].row].status # "cancelled"
    /\ At(w, "complete") => Live # {} \/ foreign >= Owed

AllOrNothing ==
  \/ Untouched /\ (Decision = NoDecision \/ NobodyBetweenRows)
  \/ PaidBack
=============================================================================
