---------------------------- MODULE Refunds_proofs ----------------------------
(***************************************************************************)
(* Whatever the number of processes, rows, crashes and lost answers, the    *)
(* status of a refund row never contradicts Stripe, a payment has one open  *)
(* row, a succeeded row stays, no amount leaves its bounds, and, where      *)
(* Stripe decides at once, a declaration is effective only when paid back.  *)
(***************************************************************************)
EXTENDS Refunds, FiniteSetTheorems, WellFoundedInduction, TLAPS

\* At first no row claims anything of Stripe.
LEMMA InitWord == Init => StripesWord
<1> SUFFICES ASSUME Init PROVE StripesWord
  OBVIOUS
<1>1. \A r \in Rows : refunds[r] = NoRow
  BY DEF Init
<1>2. RowsTypeOK
  BY DEF Init, RowsTypeOK, Idle, Process, Steps
<1>3. WorkersHoldRows
  BY DEF Init, WorkersHoldRows, Idle, Process, Holding, Definite
<1>4. StripeKnowsRows
  BY DEF Init, StripeKnowsRows, Definite
<1>5. RowsFollowStripe
  BY <1>1 DEF RowsFollowStripe, Existing, Exists
<1> QED
  BY <1>2, <1>3, <1>4, <1>5 DEF StripesWord

\* A step that moves one process and leaves the rows and Stripe alone.
LEMMA MoveKeepsWord ==
  ASSUME StripesWord,
         NEW w \in Workers, NEW STATE x,
         x \in [step : Steps, resumed : BOOLEAN, row : Rows \cup {NoRow},
                result : {"none", "error"} \cup Outcomes],
         worker' = [worker EXCEPT ![w] = x],
         UNCHANGED <<refunds, intent, remote, answer, refundEvents>>,
         x.step \in Holding => x.row \in Existing,
         x.step # "store" => x.result = "none",
         x.result \in Definite => remote[x.row] = x.result
  PROVE  StripesWord'
<1>1. RowsTypeOK'
  BY DEF StripesWord, RowsTypeOK
<1>2. WorkersHoldRows'
  BY DEF StripesWord, RowsTypeOK, WorkersHoldRows, Existing, Exists
<1>3. StripeKnowsRows'
  BY DEF StripesWord, StripeKnowsRows, Exists
<1>4. RowsFollowStripe'
  BY DEF StripesWord, RowsFollowStripe, Existing, Exists
<1> QED
  BY <1>1, <1>2, <1>3, <1>4 DEF StripesWord

\* A process that gives up carries no answer of Stripe either.
LEMMA ReturnKeepsWord ==
  ASSUME StripesWord, NEW w \in Workers, Return(w) \/ Abort(w),
         UNCHANGED <<refunds, intent, remote, answer, refundEvents>>
  PROVE  StripesWord'
<1>1. CASE worker' = [worker EXCEPT ![w] = Process("idle", FALSE, NoRow)]
  BY <1>1, MoveKeepsWord DEF Process, Steps, Holding, Definite
<1>2. CASE worker' = [worker EXCEPT ![w] = Process("complete", TRUE, NoRow)]
  BY <1>2, MoveKeepsWord DEF Process, Steps, Holding, Definite
<1> QED
  BY <1>1, <1>2 DEF Return, Abort, Idle

\* A process that only moves on keeps its row and its answer.
LEMMA GotoKeepsWord ==
  ASSUME StripesWord, NEW w \in Workers, NEW STATE step, step \in Steps \ {"store"},
         worker[w].step # "store",
         Goto(w, step),
         UNCHANGED <<refunds, intent, remote, answer, refundEvents>>,
         step \in Holding => worker[w].row \in Existing
  PROVE  StripesWord'
<1>1. RowsTypeOK'
  BY DEF StripesWord, RowsTypeOK, Goto
<1>2. WorkersHoldRows'
  BY DEF StripesWord, RowsTypeOK, WorkersHoldRows, Existing, Exists, Goto
<1>3. StripeKnowsRows'
  BY DEF StripesWord, StripeKnowsRows, Exists
<1>4. RowsFollowStripe'
  BY DEF StripesWord, RowsFollowStripe, Existing, Exists
<1> QED
  BY <1>1, <1>2, <1>3, <1>4 DEF StripesWord

\* A step on the table: rows stay rows, and what they say follows Stripe.
LEMMA TableKeepsWord ==
  ASSUME StripesWord,
         refunds' \in [Rows -> RefundRow \cup {NoRow}],
         \A r \in Rows : Exists(r) => Exists(r)',
         RowsFollowStripe',
         UNCHANGED <<intent, worker, remote, answer, refundEvents>>
  PROVE  StripesWord'
<1>1. RowsTypeOK'
  BY DEF StripesWord, RowsTypeOK
<1>2. WorkersHoldRows'
  BY DEF StripesWord, WorkersHoldRows, Existing
<1>3. StripeKnowsRows'
  BY DEF StripesWord, StripeKnowsRows
<1> QED
  BY <1>1, <1>2, <1>3 DEF StripesWord

\* Rows found by _refund_row or created for what is left.
LEMMA RefundRowForKeepsWord ==
  ASSUME StripesWord, NEW w \in Workers, NEW cents, NEW next \in {"retry", "mark"},
         worker[w].step \in {"row", "fresh"}, RefundRowFor(w, cents, next),
         UNCHANGED <<intent, remote, answer, refundEvents>>
  PROVE  StripesWord'
<1> USE RefundsAssumption, NoRowAssumption
<1>1. CASE Return(w) /\ UNCHANGED refunds
  BY <1>1, ReturnKeepsWord
<1>2. ASSUME NEW r \in Live, UNCHANGED refunds,
             Take(w, next, r)
      PROVE  StripesWord'
  <2>1. r \in Existing /\ r \in Rows
    BY DEF Live, Existing
  <2>2. RowsTypeOK'
    BY <1>2, <2>1 DEF StripesWord, RowsTypeOK, Steps, Take, Process
  <2>3. WorkersHoldRows'
    BY <1>2, <2>1
    DEF StripesWord, RowsTypeOK, WorkersHoldRows, Existing, Exists, Definite, Take, Process
  <2>4. StripeKnowsRows' /\ RowsFollowStripe'
    BY <1>2 DEF StripesWord, StripeKnowsRows, RowsFollowStripe, Existing, Exists
  <2> QED
    BY <2>2, <2>3, <2>4 DEF StripesWord
<1>3. ASSUME NEW r \in Rows, Existing = 1 .. (r - 1),
             refunds' = [refunds EXCEPT ![r] = Fresh],
             Take(w, next, r)
      PROVE  StripesWord'
  <2>1. ~ Exists(r)
    BY <1>3 DEF Existing, Rows
  <2>0. Fresh \in RefundRow
    BY DEF Fresh, RefundRow, Status, Open, Codes
  <2>2. Fresh \in RefundRow /\ Fresh # NoRow
    BY <2>0
  <2>3. RowsTypeOK'
    BY <1>3, <2>2 DEF StripesWord, RowsTypeOK, Steps, Take, Process
  <2>4. \A q \in Rows : Exists(q) => Exists(q)' /\ refunds'[q] = refunds[q]
    BY <1>3, <2>1 DEF StripesWord, RowsTypeOK, Exists
  <2>5. WorkersHoldRows'
    BY <1>3, <2>2, <2>4
    DEF StripesWord, RowsTypeOK, WorkersHoldRows, Existing, Exists, Definite, Take, Process
  <2>6. StripeKnowsRows'
    BY <2>4 DEF StripesWord, StripeKnowsRows
  <2>7. RowsFollowStripe'
    BY <1>3, <2>4 DEF StripesWord, RowsTypeOK, RowsFollowStripe, Existing, Exists, Fresh
  <2> QED
    BY <2>3, <2>5, <2>6, <2>7 DEF StripesWord
<1> QED
  BY <1>1, <1>2, <1>3 DEF RefundRowFor

\* An update of one row that keeps it in step with Stripe.
LEMMA RowUpdateFollowsStripe ==
  ASSUME StripesWord, NEW r \in Existing, NEW STATE row, row \in RefundRow,
         refunds' = [refunds EXCEPT ![r] = row],
         UNCHANGED remote,
         row.status = "succeeded" => remote[r] = "succeeded",
         row.status = "cancelled" => remote[r] = "failed",
         row.code = "refund_failed" => remote[r] = "failed"
  PROVE  /\ refunds' \in [Rows -> RefundRow \cup {NoRow}]
         /\ \A q \in Rows : Exists(q) => Exists(q)'
         /\ RowsFollowStripe'
<1> USE RefundsAssumption, NoRowAssumption
<1>1. row # NoRow
  OBVIOUS
<1>2. r \in Rows
  BY DEF Existing
<1> QED
  BY <1>1, <1>2 DEF StripesWord, RowsTypeOK, RowsFollowStripe, Existing, Exists

\* complete_contract_refund: what an event or Stripe's list says is true of
\* Stripe, so the row it produces follows Stripe.
LEMMA CompletedFollowsStripe ==
  ASSUME StripesWord, NEW r \in Existing, NEW status \in Accepted \cup {"failed"},
         status \in Definite => remote[r] = status
  PROVE  /\ Completed(refunds[r], status) \in RefundRow
         /\ LET row == Completed(refunds[r], status) IN
              /\ row.status = "succeeded" => remote[r] = "succeeded"
              /\ row.status = "cancelled" => remote[r] = "failed"
              /\ row.code = "refund_failed" => remote[r] = "failed"
<1>1. refunds[r] \in RefundRow
  BY DEF StripesWord, RowsTypeOK, Existing, Exists
<1>2. LocalStatus(status) \in Status
  BY DEF LocalStatus, Status, Open, Final, Accepted
<1>3. FailureCode(LocalStatus(status)) \in Codes
  BY DEF FailureCode, Codes
<1>4. /\ LocalStatus(status) = "succeeded" => status = "succeeded"
      /\ LocalStatus(status) = "failed" => status = "failed"
      /\ LocalStatus(status) # "cancelled"
  BY DEF LocalStatus, Accepted
<1> QED
  BY <1>1, <1>2, <1>3, <1>4
  DEF StripesWord, RowsFollowStripe, Completed, RefundRow, Definite, FailureCode

-----------------------------------------------------------------------------
(* One lemma per group of actions. *)

\* The steps of _perform_withdrawal keep the invariant.
LEMMA WithdrawalKeepsWord ==
  ASSUME StripesWord, NEW w \in Workers,
         \/ BeginWithdrawal(w) \/ LookUpBalance(w) \/ LookUpFails(w)
         \/ SaveBalance(w) \/ CreateRefund(w) \/ CompleteWithdrawal(w)
  PROVE  StripesWord'
<1> USE DEF At, database, stripe
<1>1. CASE BeginWithdrawal(w)
  BY <1>1, MoveKeepsWord DEF BeginWithdrawal, Process, Steps, Holding, Definite
<1>2. CASE LookUpBalance(w)
  BY <1>2, GotoKeepsWord DEF LookUpBalance, Steps, Holding
<1>3. CASE LookUpFails(w)
  BY <1>3, ReturnKeepsWord DEF LookUpFails
<1>4. CASE SaveBalance(w)
  BY <1>4, GotoKeepsWord DEF SaveBalance, Steps, Holding
<1>5. CASE CreateRefund(w)
  BY <1>5, RefundRowForKeepsWord DEF CreateRefund
<1>6. CASE CompleteWithdrawal(w)
  BY <1>6, ReturnKeepsWord DEF CompleteWithdrawal
<1> QED
  BY <1>1, <1>2, <1>3, <1>4, <1>5, <1>6

\* So do the steps of retry_refund.
LEMMA RetryKeepsWord ==
  ASSUME StripesWord, NEW w \in Workers,
         BeginRetry(w) \/ ReadRefund(w) \/ CancelRefund(w) \/ FreshRefund(w)
  PROVE  StripesWord'
<1> USE DEF At, database, stripe
<1>1. CASE BeginRetry(w)
  <2>1. PICK r \in Live : worker' = [worker EXCEPT ![w] = Process("retry", FALSE, r)]
    BY <1>1 DEF BeginRetry
  <2>2. r \in Existing /\ r \in Rows
    BY DEF Live, Existing
  <2> QED
    BY <1>1, <2>1, <2>2, MoveKeepsWord
    DEF BeginRetry, Process, Steps, Holding, Definite
<1>2. CASE ReadRefund(w)
  <2>1. worker[w].row \in Existing
    BY <1>2 DEF ReadRefund, StripesWord, WorkersHoldRows, Holding
  <2> QED
    BY <1>2, <2>1, GotoKeepsWord DEF ReadRefund, Steps, Holding
<1>3. CASE CancelRefund(w)
  <2> DEFINE r == worker[w].row
  <2>1. r \in Existing
    BY <1>3 DEF CancelRefund, StripesWord, WorkersHoldRows, Holding
  <2>2. CASE DefinitelyFailed(r)
    <3> DEFINE row == [refunds[r] EXCEPT !.status = "cancelled"]
    <3>1. refunds[r] \in RefundRow /\ remote[r] = "failed"
      BY <2>1, <2>2 DEF StripesWord, RowsTypeOK, RowsFollowStripe, Existing, Exists,
                        DefinitelyFailed
    <3>2. row \in RefundRow /\ row.status = "cancelled" /\ row.code = refunds[r].code
      BY <3>1 DEF RefundRow, Status, Final
    <3>3. refunds' = [refunds EXCEPT ![r] = row] /\ Goto(w, "fresh")
      BY <1>3, <2>2 DEF CancelRefund
    <3>4. /\ refunds' \in [Rows -> RefundRow \cup {NoRow}]
          /\ \A q \in Rows : Exists(q) => Exists(q)'
          /\ RowsFollowStripe'
      <4> HIDE DEF row
      <4>1. UNCHANGED remote
        BY <1>3 DEF CancelRefund
      <4>2. row \in RefundRow /\ row.status # "succeeded"
        BY <3>2
      <4> QED
        BY <2>1, <3>1, <3>3, <4>1, <4>2, RowUpdateFollowsStripe
    <3>5. RowsTypeOK'
      BY <1>3, <3>3, <3>4 DEF StripesWord, RowsTypeOK, CancelRefund, Goto, Steps
    <3>6. WorkersHoldRows'
      BY <1>3, <2>1, <3>3, <3>4
      DEF StripesWord, RowsTypeOK, WorkersHoldRows, CancelRefund, Goto, Existing, Holding
    <3>7. StripeKnowsRows'
      BY <1>3, <3>4 DEF StripesWord, StripeKnowsRows, CancelRefund
    <3> QED
      BY <3>4, <3>5, <3>6, <3>7 DEF StripesWord
  <2>3. CASE ~ DefinitelyFailed(r)
    BY <1>3, <2>3, ReturnKeepsWord DEF CancelRefund
  <2> QED
    BY <2>2, <2>3
<1>4. CASE FreshRefund(w)
  BY <1>4, RefundRowForKeepsWord DEF FreshRefund
<1> QED
  BY <1>1, <1>2, <1>3, <1>4

\* A step of a process that rewrites the row it holds.
LEMMA HeldRowKeepsWord ==
  ASSUME StripesWord, NEW w \in Workers, NEW STATE row, row \in RefundRow,
         worker[w].row \in Existing,
         refunds' = [refunds EXCEPT ![worker[w].row] = row],
         UNCHANGED <<intent, remote, answer, refundEvents>>,
         row.status = "succeeded" => remote[worker[w].row] = "succeeded",
         row.status = "cancelled" => remote[worker[w].row] = "failed",
         row.code = "refund_failed" => remote[worker[w].row] = "failed",
         \/ Return(w)
         \/ worker[w].step # "store" /\ (Goto(w, "call") \/ Goto(w, "store"))
  PROVE  StripesWord'
<1>1. /\ refunds' \in [Rows -> RefundRow \cup {NoRow}]
      /\ \A q \in Rows : Exists(q) => Exists(q)'
      /\ RowsFollowStripe'
  BY RowUpdateFollowsStripe
<1>2. \/ worker' = [worker EXCEPT ![w] = Process("idle", FALSE, NoRow)]
      \/ worker' = [worker EXCEPT ![w] = Process("complete", TRUE, NoRow)]
      \/ /\ worker[w].step # "store"
         /\ \E step \in {"call", "store"} : worker' = [worker EXCEPT ![w].step = step]
  BY DEF Return, Goto, Idle
<1>3. RowsTypeOK'
  <2>1. worker' \in [Workers ->
          [step : Steps, resumed : BOOLEAN, row : Rows \cup {NoRow},
           result : {"none", "error"} \cup Outcomes]]
    <3>1. CASE worker' = [worker EXCEPT ![w] = Process("idle", FALSE, NoRow)]
      BY <3>1 DEF StripesWord, RowsTypeOK, Steps, Process
    <3>2. CASE worker' = [worker EXCEPT ![w] = Process("complete", TRUE, NoRow)]
      BY <3>2 DEF StripesWord, RowsTypeOK, Steps, Process
    <3>3. ASSUME NEW step \in {"call", "store"},
                 worker' = [worker EXCEPT ![w].step = step]
          PROVE  <2>1
      BY <3>3 DEF StripesWord, RowsTypeOK, Steps
    <3> QED
      BY <1>2, <3>1, <3>2, <3>3
  <2> QED
    BY <1>1, <2>1 DEF StripesWord, RowsTypeOK
<1>4. WorkersHoldRows'
  BY <1>1, <1>2
  DEF StripesWord, RowsTypeOK, WorkersHoldRows, Existing, Holding, Process, Definite
<1>5. StripeKnowsRows'
  BY <1>1 DEF StripesWord, StripeKnowsRows
<1> QED
  BY <1>1, <1>3, <1>4, <1>5 DEF StripesWord

\* So do the database steps of process_refund.
LEMMA ProcessKeepsWord ==
  ASSUME StripesWord, NEW w \in Workers,
         MarkPending(w) \/ ReferenceMissing(w) \/ StoreResult(w)
  PROVE  StripesWord'
<1> USE DEF At, database, stripe
<1> DEFINE r == worker[w].row
<1>1. r \in Existing /\ refunds[r] \in RefundRow
  BY DEF MarkPending, ReferenceMissing, StoreResult, StripesWord, RowsTypeOK,
         WorkersHoldRows, Holding, Existing, Exists
<1>2. CASE MarkPending(w)
  <2>1. CASE UNCHANGED refunds
    <3>1. Return(w) \/ Abort(w) \/ refunds[r].status \notin Final
      BY <1>2 DEF MarkPending
    <3>2. CASE Return(w) \/ Abort(w)
      BY <1>2, <2>1, <3>2, ReturnKeepsWord DEF MarkPending
    <3>3. CASE ~ (Return(w) \/ Abort(w))
      <4>1. Goto(w, IF intent THEN "call" ELSE "store")
        BY <1>2, <3>3 DEF MarkPending
      <4>2. refunds' = [refunds EXCEPT ![r] = refunds[r]]
        BY <2>1 DEF StripesWord, RowsTypeOK
      <4> QED
        BY <1>1, <1>2, <3>3, <4>1, <4>2, HeldRowKeepsWord
        DEF MarkPending, StripesWord, RowsFollowStripe
    <3> QED
      BY <3>2, <3>3
  <2>2. CASE ~ UNCHANGED refunds
    <3> DEFINE row == [refunds[r] EXCEPT !.status = "pending", !.code = ""]
    <3>1. /\ refunds' = [refunds EXCEPT ![r] = row]
          /\ Goto(w, IF intent THEN "call" ELSE "store")
          /\ UNCHANGED <<intent, remote, answer, refundEvents>>
      BY <1>2, <2>2 DEF MarkPending
    <3>2. row \in RefundRow /\ row.status = "pending" /\ row.code = ""
      BY <1>1 DEF RefundRow, Status, Open, Codes
    <3>3. worker[w].step # "store"
      BY <1>2 DEF MarkPending
    <3> HIDE DEF row
    <3> QED
      BY <1>1, <3>1, <3>2, <3>3, HeldRowKeepsWord
  <2> QED
    BY <2>1, <2>2
<1>3. CASE ReferenceMissing(w)
  <2>1. CASE refunds[r].status = "succeeded"
    BY <1>3, <2>1, ReturnKeepsWord DEF ReferenceMissing
  <2>2. CASE refunds[r].status # "succeeded"
    <3> DEFINE row == [refunds[r] EXCEPT !.status = "failed",
                                         !.code = "payment_reference_missing"]
    <3>1. /\ refunds' = [refunds EXCEPT ![r] = row]
          /\ Return(w)
          /\ UNCHANGED <<intent, remote, answer, refundEvents>>
      BY <1>3, <2>2 DEF ReferenceMissing
    <3>2. /\ row \in RefundRow
          /\ row.status = "failed" /\ row.code = "payment_reference_missing"
      BY <1>1 DEF RefundRow, Status, Codes
    <3> HIDE DEF row
    <3> QED
      BY <1>1, <3>1, <3>2, HeldRowKeepsWord
  <2> QED
    BY <2>1, <2>2
<1>4. CASE StoreResult(w)
  <2> DEFINE result == worker[w].result
             next == LocalStatus(result)
             code == IF result = "error" THEN "error" ELSE FailureCode(next)
             row == [refunds[r] EXCEPT !.status = next,
                       !.accepted = @ \/ result # "error", !.code = code]
  <2>1. CASE UNCHANGED refunds /\ (Return(w) \/ Abort(w))
    BY <1>4, <2>1, ReturnKeepsWord DEF StoreResult
  <2>2. CASE ~ (UNCHANGED refunds /\ (Return(w) \/ Abort(w)))
    <3>1. /\ refunds' = [refunds EXCEPT ![r] = row]
          /\ Return(w)
          /\ UNCHANGED <<intent, remote, answer, refundEvents>>
      BY <1>4, <2>2 DEF StoreResult
    <3>2. next \in Status /\ code \in Codes
      BY DEF LocalStatus, FailureCode, Status, Open, Final, Codes
    <3>3. row \in RefundRow /\ row.status = next /\ row.code = code
      BY <1>1, <3>2 DEF RefundRow
    <3>4. /\ next = "succeeded" => remote[r] = "succeeded"
          /\ next # "cancelled"
          /\ code = "refund_failed" => remote[r] = "failed"
      BY DEF LocalStatus, FailureCode, StripesWord, WorkersHoldRows, Definite
    <3> HIDE DEF row, next, code
    <3> QED
      BY <1>1, <3>1, <3>3, <3>4, HeldRowKeepsWord
  <2> QED
    BY <2>1, <2>2
<1> QED
  BY <1>2, <1>3, <1>4

\* So do its calls of Stripe, whatever becomes of their answers.
LEMMA CallKeepsWord ==
  ASSUME StripesWord, NEW w \in Workers,
         CallFails(w) \/ CallReplays(w) \/ CallCreates(w)
  PROVE  StripesWord'
<1> USE DEF At, database, stripe
<1> DEFINE r == worker[w].row
           x(result) == [step |-> "store", resumed |-> worker[w].resumed,
                         row |-> r, result |-> result]
<1>1. /\ r \in Existing
      /\ worker[w].resumed \in BOOLEAN
      /\ worker[w].row \in Rows \cup {NoRow}
  BY DEF CallFails, CallReplays, CallCreates, StripesWord, RowsTypeOK, WorkersHoldRows,
         Holding
<1>2. CASE CallFails(w)
  <2>1. worker' = [worker EXCEPT ![w] = x("error")]
    BY <1>2 DEF CallFails, Answered
  <2> QED
    BY <1>1, <1>2, <2>1, MoveKeepsWord DEF CallFails, Steps, Definite
<1>3. CASE CallReplays(w)
  <2>1. worker' = [worker EXCEPT ![w] = x(answer[r])]
    BY <1>3 DEF CallReplays, Answered
  <2>2. answer[r] \in Outcomes /\ (answer[r] \in Definite => remote[r] = answer[r])
    BY <1>1, <1>3 DEF CallReplays, StripesWord, RowsTypeOK, StripeKnowsRows, Existing
  <2> QED
    BY <1>1, <1>3, <2>1, <2>2, MoveKeepsWord DEF CallReplays, Steps
<1>4. CASE CallCreates(w)
  <2>1. PICK status \in Outcomes, result \in Outcomes \cup {"error"} :
          /\ result = status \/ result = "error"
          /\ remote' = [remote EXCEPT ![r] = status]
          /\ answer' = [answer EXCEPT ![r] = status]
          /\ refundEvents' = refundEvents \cup {<<r, status>>}
          /\ worker' = [worker EXCEPT ![w] = x(result)]
          /\ UNCHANGED <<refunds, intent>>
    BY <1>4 DEF CallCreates, Answered
  <2>2. /\ status \in Accepted \cup {"failed"}
        /\ r \in Rows /\ answer[r] = "none" /\ remote[r] = "none"
    BY <1>1, <1>4, RefundsAssumption
    DEF CallCreates, Accepted, Existing, StripesWord, StripeKnowsRows
  <2>3. RowsTypeOK'
    <3>1. refundEvents' \subseteq Rows \X (Accepted \cup {"failed"})
      BY <2>1, <2>2 DEF StripesWord, RowsTypeOK
    <3>2. x(result) \in [step : Steps, resumed : BOOLEAN, row : Rows \cup {NoRow},
                         result : {"none", "error"} \cup Outcomes]
      BY <1>1, <2>1 DEF Steps
    <3> HIDE DEF x
    <3> QED
      BY <2>1, <2>2, <3>1, <3>2 DEF StripesWord, RowsTypeOK
  <2>4. \A v \in Workers \ {w} : worker'[v] = worker[v]
    BY <2>1 DEF StripesWord, RowsTypeOK
  <2>5. worker'[w] = x(result)
    BY <2>1 DEF StripesWord, RowsTypeOK
  <2>6. remote'[r] = status /\ \A q \in Rows \ {r} : remote'[q] = remote[q]
    BY <2>1, <2>2 DEF StripesWord, RowsTypeOK
  <2>7. WorkersHoldRows'
    <3> SUFFICES ASSUME NEW v \in Workers
        PROVE  /\ worker'[v].step \in Holding => worker'[v].row \in Existing'
               /\ worker'[v].step # "store" => worker'[v].result = "none"
               /\ worker'[v].result \in Definite
                    => remote'[worker'[v].row] = worker'[v].result
      BY DEF WorkersHoldRows
    <3>1. Existing' = Existing
      BY <2>1 DEF Existing, Exists
    <3>2. CASE v = w
      BY <1>1, <2>1, <2>5, <2>6, <3>1, <3>2 DEF Definite
    <3>3. CASE v # w
      <4>1. worker[v].result \in Definite => worker[v].row \in Rows
        BY DEF StripesWord, WorkersHoldRows, Holding, Existing, Definite
      <4> QED
        BY <2>2, <2>4, <2>6, <3>1, <3>3, <4>1 DEF StripesWord, WorkersHoldRows, Definite
    <3> QED
      BY <3>2, <3>3
  <2>8. StripeKnowsRows'
    <3>1. \A q \in Rows : Exists(q)' <=> Exists(q)
      BY <2>1 DEF Exists
    <3>2. answer'[r] = status /\ \A q \in Rows \ {r} : answer'[q] = answer[q]
      BY <2>1, <2>2 DEF StripesWord, RowsTypeOK
    <3>3. Exists(r) /\ status # "none"
      BY <1>1, <2>2 DEF Existing, Accepted
    <3>4. ASSUME NEW q \in Rows
          PROVE  /\ remote'[q] # "none" => Exists(q)'
                 /\ answer'[q] = "none" <=> remote'[q] = "none"
                 /\ answer'[q] \in Definite => remote'[q] = answer'[q]
      BY <2>6, <3>1, <3>2, <3>3 DEF StripesWord, StripeKnowsRows
    <3>5. ASSUME NEW e \in refundEvents'
          PROVE  remote'[e[1]] # "none" /\ (e[2] \in Definite => remote'[e[1]] = e[2])
      <4>1. CASE e = <<r, status>>
        BY <2>6, <3>3, <4>1
      <4>2. CASE e \in refundEvents
        <5>1. e[1] \in Rows
          BY <4>2 DEF StripesWord, RowsTypeOK
        <5>2. remote[e[1]] # "none" /\ (e[2] \in Definite => remote[e[1]] = e[2])
          BY <4>2 DEF StripesWord, StripeKnowsRows
        <5> QED
          BY <2>2, <2>6, <5>1, <5>2
      <4> QED
        BY <2>1, <4>1, <4>2
    <3> QED
      BY <3>4, <3>5 DEF StripeKnowsRows
  <2>9. RowsFollowStripe'
    <3>1. Existing' = Existing /\ UNCHANGED refunds
      BY <2>1 DEF Existing, Exists
    <3>2. /\ refunds[r].status # "succeeded" /\ refunds[r].status # "cancelled"
          /\ refunds[r].code # "refund_failed"
      BY <1>1, <2>2 DEF StripesWord, RowsFollowStripe
    <3> QED
      BY <2>2, <2>6, <3>1, <3>2 DEF StripesWord, RowsFollowStripe, Existing
  <2> QED
    BY <2>3, <2>7, <2>8, <2>9 DEF StripesWord
<1> QED
  BY <1>2, <1>3, <1>4

\* So does a refund event, however late or often it is delivered.
LEMMA DeliverKeepsWord ==
  ASSUME StripesWord, NEW e \in refundEvents, DeliverRefund(e)
  PROVE  StripesWord'
<1> DEFINE row == Completed(refunds[e[1]], e[2])
<1>1. /\ e[1] \in Existing
      /\ e[2] \in Accepted \cup {"failed"}
      /\ e[2] \in Definite => remote[e[1]] = e[2]
  BY DEF StripesWord, RowsTypeOK, StripeKnowsRows, Existing
<1>2. refunds' = [refunds EXCEPT ![e[1]] = row] /\ UNCHANGED <<worker, stripe, intent>>
  BY DEF DeliverRefund
<1>3. /\ row \in RefundRow
      /\ row.status = "succeeded" => remote[e[1]] = "succeeded"
      /\ row.status = "cancelled" => remote[e[1]] = "failed"
      /\ row.code = "refund_failed" => remote[e[1]] = "failed"
  BY <1>1, CompletedFollowsStripe
<1> HIDE DEF row
<1>4. /\ refunds' \in [Rows -> RefundRow \cup {NoRow}]
      /\ \A q \in Rows : Exists(q) => Exists(q)'
      /\ RowsFollowStripe'
  BY <1>1, <1>2, <1>3, RowUpdateFollowsStripe DEF stripe
<1> QED
  BY <1>2, <1>4, TableKeepsWord DEF stripe

\* So does a charge.refunded event.
LEMMA ChargeKeepsWord ==
  ASSUME StripesWord, ChargeEvent
  PROVE  StripesWord'
<1> DEFINE row(r) == IF Live # {} /\ Exists(r) /\ remote[r] # "none"
                     THEN Completed(refunds[r], remote[r]) ELSE refunds[r]
<1>1. refunds' = [r \in Rows |-> row(r)] /\ UNCHANGED <<worker, stripe, intent>>
  BY DEF ChargeEvent
<1>2. ASSUME NEW r \in Existing
      PROVE  /\ row(r) \in RefundRow
             /\ row(r).status = "succeeded" => remote[r] = "succeeded"
             /\ row(r).status = "cancelled" => remote[r] = "failed"
             /\ row(r).code = "refund_failed" => remote[r] = "failed"
  <2>1. CASE remote[r] # "none"
    <3>1. remote[r] \in Accepted \cup {"failed"}
      BY <2>1 DEF StripesWord, RowsTypeOK, Existing
    <3>2. CASE row(r) = Completed(refunds[r], remote[r])
      BY <3>1, <3>2, CompletedFollowsStripe
    <3>3. CASE row(r) = refunds[r]
      BY <3>3 DEF StripesWord, RowsTypeOK, RowsFollowStripe, Existing, Exists
    <3> QED
      BY <3>2, <3>3
  <2>2. CASE remote[r] = "none"
    BY <2>2 DEF StripesWord, RowsTypeOK, RowsFollowStripe, Existing, Exists
  <2> QED
    BY <2>1, <2>2
<1>3. \A r \in Rows : ~ Exists(r) => row(r) = NoRow
  BY DEF Exists
<1> HIDE DEF row
<1>4. \A r \in Rows : Exists(r)' <=> Exists(r)
  BY <1>1, <1>2, <1>3, NoRowAssumption DEF Exists, Existing
<1>5. refunds' \in [Rows -> RefundRow \cup {NoRow}]
  BY <1>1, <1>2, <1>3 DEF Existing
<1>6. RowsFollowStripe'
  BY <1>1, <1>2, <1>4 DEF RowsFollowStripe, Existing, stripe
<1> QED
  BY <1>1, <1>4, <1>5, <1>6, TableKeepsWord DEF stripe

\* Stripe changes its mind only about refunds that are still under way.
LEMMA StripeKeepsWord ==
  ASSUME StripesWord, DashboardRefund \/ \E r \in Rows : Settle(r)
  PROVE  StripesWord'
<1> USE DEF database
<1>1. CASE DashboardRefund
  <2>1. refunds' \in [Rows -> RefundRow \cup {NoRow}] /\ UNCHANGED refunds
    BY <1>1 DEF DashboardRefund, StripesWord, RowsTypeOK
  <2>2. RowsFollowStripe'
    BY <1>1 DEF DashboardRefund, StripesWord, RowsFollowStripe, Existing, Exists
  <2> QED
    BY <1>1, <2>1, <2>2, TableKeepsWord DEF DashboardRefund, Exists
<1>2. ASSUME NEW r \in Rows, Settle(r) PROVE StripesWord'
  <2>1. PICK status \in Definite :
          /\ remote[r] \in {"pending", "requires_action"}
          /\ remote' = [remote EXCEPT ![r] = status]
          /\ refundEvents' = refundEvents \cup {<<r, status>>}
          /\ UNCHANGED <<refunds, intent, worker, answer>>
    BY <1>2 DEF Settle, Definite
  <2>2. remote'[r] = status /\ \A q \in Rows \ {r} : remote'[q] = remote[q]
    BY <2>1 DEF StripesWord, RowsTypeOK
  <2>3. RowsTypeOK'
    BY <2>1 DEF StripesWord, RowsTypeOK, Accepted, Definite
  <2>4. WorkersHoldRows'
    <3>1. \A v \in Workers : worker[v].result \in Definite => worker[v].row \in Rows
      BY DEF StripesWord, WorkersHoldRows, Holding, Existing, Definite
    <3> QED
      BY <2>1, <2>2, <3>1 DEF StripesWord, WorkersHoldRows, Existing, Exists, Definite
  <2>5. StripeKnowsRows'
    <3>1. ASSUME NEW q \in Rows
          PROVE  /\ remote'[q] # "none" => Exists(q)'
                 /\ answer'[q] = "none" <=> remote'[q] = "none"
                 /\ answer'[q] \in Definite => remote'[q] = answer'[q]
      BY <2>1, <2>2 DEF StripesWord, StripeKnowsRows, Exists, Definite
    <3>2. ASSUME NEW e \in refundEvents'
          PROVE  remote'[e[1]] # "none" /\ (e[2] \in Definite => remote'[e[1]] = e[2])
      <4>1. CASE e = <<r, status>>
        BY <2>2, <4>1 DEF Definite
      <4>2. CASE e \in refundEvents
        <5>1. e[1] \in Rows
          BY <4>2 DEF StripesWord, RowsTypeOK
        <5>2. remote[e[1]] # "none" /\ (e[2] \in Definite => remote[e[1]] = e[2])
          BY <4>2 DEF StripesWord, StripeKnowsRows
        <5> QED
          BY <2>1, <2>2, <5>1, <5>2 DEF Definite
      <4> QED
        BY <2>1, <4>1, <4>2
    <3> QED
      BY <3>1, <3>2 DEF StripeKnowsRows
  <2>6. RowsFollowStripe'
    BY <2>1, <2>2 DEF StripesWord, RowsFollowStripe, Existing, Exists
  <2> QED
    BY <2>3, <2>4, <2>5, <2>6 DEF StripesWord
<1> QED
  BY <1>1, <1>2

\* The invariant is inductive.
LEMMA StepKeepsWord == StripesWord /\ [Next]_vars => StripesWord'
<1> SUFFICES ASSUME StripesWord, [Next]_vars PROVE StripesWord'
  OBVIOUS
<1>1. ASSUME NEW w \in Workers, Work(w) PROVE StripesWord'
  <2>1. CASE Crash(w)
    BY <2>1, ReturnKeepsWord DEF Crash, database, stripe
  <2> QED
    BY <1>1, <2>1, WithdrawalKeepsWord, RetryKeepsWord, ProcessKeepsWord, CallKeepsWord
    DEF Work
<1>2. ASSUME NEW e \in refundEvents, DeliverRefund(e) PROVE StripesWord'
  BY <1>2, DeliverKeepsWord
<1>3. CASE ChargeEvent
  BY <1>3, ChargeKeepsWord
<1>4. CASE DashboardRefund \/ \E r \in Rows : Settle(r)
  BY <1>4, StripeKeepsWord
<1>5. CASE UNCHANGED vars
  BY <1>5 DEF vars, database, stripe, StripesWord, RowsTypeOK, WorkersHoldRows,
              StripeKnowsRows, RowsFollowStripe, Existing, Exists
<1> QED
  BY <1>1, <1>2, <1>3, <1>4, <1>5 DEF Next

\* The inductive invariant: rows, answers in flight and events all agree with
\* Stripe's final word (process_refund, retry_refund, complete_contract_refund).
THEOREM WordIsKept == Spec => []StripesWord
<1> QED
  BY InitWord, StepKeepsWord, PTL DEF Spec

\* A refund row is `succeeded` only on Stripe's word, for every number of
\* processes, rows and faults.
THEOREM SucceededIsTrue == Spec => []SucceededOnStripesWord
<1>1. StripesWord => SucceededOnStripesWord
  BY DEF StripesWord, RowsFollowStripe, SucceededOnStripesWord
<1> QED
  BY <1>1, WordIsKept, PTL

\* retry_refund replaces a row only when Stripe refused the refund for good, so
\* a fresh row never stands beside a live refund of the row it replaces.
THEOREM ReplacementIsSafe == Spec => []ReplacedOnlyWhenFailed
<1>1. StripesWord => ReplacedOnlyWhenFailed
  BY DEF StripesWord, RowsFollowStripe, ReplacedOnlyWhenFailed
<1> QED
  BY <1>1, WordIsKept, PTL

-----------------------------------------------------------------------------
(* What a single step does to the rows. *)

\* A row that is being requested: the rows the partial unique index counts.
OpenRows == {r \in Existing : refunds[r].status \in Open}

\* A step after which only rows are open that were open before.
LEMMA NoRowOpens ==
  ASSUME OneOpenRow, OpenRows' \subseteq OpenRows
  PROVE  OneOpenRow'
BY DEF OneOpenRow, OpenRows

\* A step that opens one row while no other is open.
LEMMA OneRowOpens ==
  ASSUME NEW r, OpenRows \subseteq {r}, OpenRows' \subseteq {r}
  PROVE  OneOpenRow'
BY DEF OneOpenRow, OpenRows

\* One row is rewritten: only it can have been opened.
LEMMA RewrittenRow ==
  ASSUME StripesWord, NEW r \in Rows, NEW row,
         refunds' = [refunds EXCEPT ![r] = row]
  PROVE  /\ OpenRows' \subseteq OpenRows \cup {r}
         /\ row.status \notin Open => OpenRows' \subseteq OpenRows
BY DEF StripesWord, RowsTypeOK, OpenRows, Existing, Exists

\* Where the index does not refuse, no other row is open.
LEMMA IndexAdmits ==
  ASSUME NEW r, NEW status \in Open, ~ IndexRefuses(r, status)
  PROVE  OpenRows \subseteq {r}
BY DEF IndexRefuses, OpenRows

\* _refund_row opens a row only when no row is live.
LEMMA RefundRowForOpensOne ==
  ASSUME StripesWord, OneOpenRow, NEW w \in Workers, NEW cents, NEW next,
         RefundRowFor(w, cents, next)
  PROVE  OneOpenRow'
<1>1. CASE UNCHANGED refunds
  BY <1>1, NoRowOpens DEF OpenRows, Existing, Exists
<1>2. CASE \E r \in Rows : Live = {} /\ refunds' = [refunds EXCEPT ![r] = Fresh]
  <2>1. PICK r \in Rows : Live = {} /\ refunds' = [refunds EXCEPT ![r] = Fresh]
    BY <1>2
  <2>2. OpenRows = {}
    BY <2>1 DEF Live, OpenRows, Existing, Open, Final
  <2>3. OpenRows' \subseteq {r}
    BY <2>1, <2>2, RewrittenRow
  <2> QED
    BY <2>2, <2>3, OneRowOpens
<1> QED
  BY <1>1, <1>2 DEF RefundRowFor

\* complete_contract_refund opens no row: a failed or settled row stays closed.
LEMMA CompletedOpensNone ==
  ASSUME NEW row \in RefundRow, NEW status \in Accepted \cup {"failed"}
  PROVE  Completed(row, status).status \in Open => row.status \in Open
<1>1. LocalStatus(status) \in {"succeeded", "failed", "requires_action", "requested"}
  BY DEF LocalStatus, Accepted
<1>2. row.status \in Status
  BY DEF RefundRow
<1>3. CASE Completed(row, status) = row
  BY <1>3
<1>4. CASE Completed(row, status) # row
  <2>1. ~ (row.status \in Final)
    BY <1>4 DEF Completed
  <2>2. ~ (row.status = "failed" /\ LocalStatus(status) \in {"requested", "requires_action"})
    BY <1>4 DEF Completed
  <2>3. Completed(row, status).status = LocalStatus(status)
    BY <2>1, <2>2 DEF Completed, RefundRow
  <2> QED
    BY <1>1, <1>2, <2>1, <2>2, <2>3 DEF Status, Open, Final
<1> QED
  BY <1>3, <1>4

\* The steps of a process keep one open row: those that open one look first.
LEMMA WorkKeepsOneOpen ==
  ASSUME StripesWord, OneOpenRow, NEW w \in Workers, Work(w)
  PROVE  OneOpenRow'
<1> USE DEF At, database, stripe
<1> DEFINE r == worker[w].row
<1>1. CASE UNCHANGED refunds
  BY <1>1, NoRowOpens DEF OpenRows, Existing, Exists
<1>2. CASE CreateRefund(w) \/ FreshRefund(w)
  BY <1>2, RefundRowForOpensOne DEF CreateRefund, FreshRefund
<1>3. ASSUME CancelRefund(w) \/ MarkPending(w) \/ ReferenceMissing(w) \/ StoreResult(w)
      PROVE  r \in Rows
  BY <1>3 DEF CancelRefund, MarkPending, ReferenceMissing, StoreResult, StripesWord,
              WorkersHoldRows, Holding, Existing
<1>4. CASE CancelRefund(w) /\ ~ UNCHANGED refunds
  <2>1. refunds' = [refunds EXCEPT ![r] = [refunds[r] EXCEPT !.status = "cancelled"]]
    BY <1>4 DEF CancelRefund
  <2>2. [refunds[r] EXCEPT !.status = "cancelled"].status \notin Open
    BY <1>3, <1>4
    DEF CancelRefund, StripesWord, RowsTypeOK, WorkersHoldRows, Holding, Existing, Exists,
        RefundRow, Open
  <2> QED
    BY <1>3, <1>4, <2>1, <2>2, RewrittenRow, NoRowOpens
<1>5. CASE MarkPending(w) /\ ~ UNCHANGED refunds
  <2>1. /\ ~ IndexRefuses(r, "pending")
        /\ refunds' = [refunds EXCEPT ![r] =
             [refunds[r] EXCEPT !.status = "pending", !.code = ""]]
    BY <1>5 DEF MarkPending
  <2>2. OpenRows \subseteq {r}
    BY <2>1, IndexAdmits DEF Open
  <2>3. OpenRows' \subseteq OpenRows \cup {r}
    BY <1>3, <1>5, <2>1, RewrittenRow
  <2> QED
    BY <2>2, <2>3, OneRowOpens
<1>6. CASE ReferenceMissing(w) /\ ~ UNCHANGED refunds
  <2> DEFINE row == [refunds[r] EXCEPT !.status = "failed",
                                       !.code = "payment_reference_missing"]
  <2>1. refunds' = [refunds EXCEPT ![r] = row]
    BY <1>6 DEF ReferenceMissing
  <2>2. row.status \notin Open
    BY <1>3, <1>6
    DEF ReferenceMissing, StripesWord, RowsTypeOK, WorkersHoldRows, Holding, Existing,
        Exists, RefundRow, Open
  <2> HIDE DEF row
  <2> QED
    BY <1>3, <1>6, <2>1, <2>2, RewrittenRow, NoRowOpens
<1>7. CASE StoreResult(w) /\ ~ UNCHANGED refunds
  <2> DEFINE next == LocalStatus(worker[w].result)
             code == IF worker[w].result = "error" THEN "error" ELSE FailureCode(next)
             row == [refunds[r] EXCEPT !.status = next,
                       !.accepted = @ \/ worker[w].result # "error", !.code = code]
  <2>1. /\ ~ IndexRefuses(r, next)
        /\ refunds' = [refunds EXCEPT ![r] = row]
    BY <1>7 DEF StoreResult
  <2>2. row.status = next
    BY <1>3, <1>7
    DEF StoreResult, StripesWord, RowsTypeOK, WorkersHoldRows, Holding, Existing, Exists,
        RefundRow
  <2> HIDE DEF row, next
  <2>3. CASE next \in Open
    <3>1. OpenRows \subseteq {r}
      BY <2>1, <2>3, IndexAdmits
    <3>2. OpenRows' \subseteq OpenRows \cup {r}
      BY <1>3, <1>7, <2>1, RewrittenRow
    <3> QED
      BY <3>1, <3>2, OneRowOpens
  <2>4. CASE next \notin Open
    BY <1>3, <1>7, <2>1, <2>2, <2>4, RewrittenRow, NoRowOpens
  <2> QED
    BY <2>3, <2>4
<1>8. \/ UNCHANGED refunds \/ CreateRefund(w) \/ FreshRefund(w) \/ CancelRefund(w)
      \/ MarkPending(w) \/ ReferenceMissing(w) \/ StoreResult(w)
  BY DEF Work, BeginWithdrawal, LookUpBalance, LookUpFails, SaveBalance,
         CompleteWithdrawal, BeginRetry, ReadRefund, CallFails, CallReplays, CallCreates,
         Crash
<1> QED
  BY <1>1, <1>2, <1>4, <1>5, <1>6, <1>7, <1>8

\* Webhooks open no row, whatever they carry.
LEMMA EventsOpenNone ==
  ASSUME StripesWord, OneOpenRow, ChargeEvent \/ \E e \in refundEvents : DeliverRefund(e)
  PROVE  OneOpenRow'
<1> SUFFICES ASSUME NEW q \in OpenRows' PROVE q \in OpenRows
  BY NoRowOpens
<1>1. q \in Rows /\ refunds'[q] # NoRow /\ refunds'[q].status \in Open
  BY DEF OpenRows, Existing, Exists
<1>2. \/ refunds'[q] = refunds[q]
      \/ /\ q \in Existing
         /\ \E status \in Accepted \cup {"failed"} :
              refunds'[q] = Completed(refunds[q], status)
  <2>1. CASE ChargeEvent
    BY <1>1, <2>1 DEF ChargeEvent, StripesWord, RowsTypeOK, Existing
  <2>2. ASSUME NEW e \in refundEvents, DeliverRefund(e) PROVE <1>2
    <3>1. e[1] \in Existing /\ e[2] \in Accepted \cup {"failed"}
      BY DEF StripesWord, RowsTypeOK, StripeKnowsRows, Existing
    <3>2. refunds' = [refunds EXCEPT ![e[1]] = Completed(refunds[e[1]], e[2])]
      BY <2>2 DEF DeliverRefund
    <3> QED
      BY <1>1, <3>1, <3>2 DEF StripesWord, RowsTypeOK
  <2> QED
    BY <2>1, <2>2
<1>3. CASE refunds'[q] = refunds[q]
  BY <1>1, <1>3 DEF OpenRows, Existing, Exists
<1>4. ASSUME q \in Existing, NEW status \in Accepted \cup {"failed"},
             refunds'[q] = Completed(refunds[q], status)
      PROVE  q \in OpenRows
  <2>1. refunds[q] \in RefundRow
    BY <1>4 DEF StripesWord, RowsTypeOK, Existing, Exists
  <2> QED
    BY <1>1, <1>4, <2>1, CompletedOpensNone DEF OpenRows
<1> QED
  BY <1>2, <1>3, <1>4

\* One payment never has two rows that are being requested, however many
\* processes run _refund_row and process_refund beside each other: the partial
\* unique index refuses the second, and nothing else opens a row.
THEOREM OneRowIsOpen == Spec => []OneOpenRow
<1>1. Init => OneOpenRow
  BY DEF Init, OneOpenRow, Existing, Exists
<1>2. StripesWord /\ OneOpenRow /\ [Next]_vars => OneOpenRow'
  <2> SUFFICES ASSUME StripesWord, OneOpenRow, [Next]_vars PROVE OneOpenRow'
    OBVIOUS
  <2>1. CASE UNCHANGED refunds
    BY <2>1, NoRowOpens DEF OpenRows, Existing, Exists
  <2>2. \/ UNCHANGED refunds
        \/ \E w \in Workers : Work(w)
        \/ ChargeEvent
        \/ \E e \in refundEvents : DeliverRefund(e)
    BY DEF Next, vars, database, Settle, DashboardRefund
  <2> QED
    BY <2>1, <2>2, WorkKeepsOneOpen, EventsOpenNone
<1> QED
  BY <1>1, <1>2, WordIsKept, PTL DEF Spec

-----------------------------------------------------------------------------
(* A settled row stays as it is. *)

Settled(r) == Exists(r) /\ refunds[r].status = "succeeded"

\* A new row takes a key that is not in use; no step of a process rewrites a
\* row that has succeeded.
LEMMA WorkKeepsSettled ==
  ASSUME StripesWord, NEW w \in Workers, Work(w), NEW q \in Rows, Settled(q)
  PROVE  refunds'[q] = refunds[q]
<1> USE DEF At, database, stripe
<1> DEFINE r == worker[w].row
<1>1. CASE UNCHANGED refunds
  BY <1>1
<1>2. ASSUME NEW cents, NEW next, RefundRowFor(w, cents, next)
      PROVE  refunds'[q] = refunds[q]
  <2>1. CASE UNCHANGED refunds
    BY <2>1
  <2>2. ASSUME NEW p \in Rows, Existing = 1 .. (p - 1),
               refunds' = [refunds EXCEPT ![p] = Fresh]
        PROVE  refunds'[q] = refunds[q]
    <3>1. p \notin Existing /\ q \in Existing
      BY <2>2, RefundsAssumption DEF Existing, Rows, Settled
    <3> QED
      BY <2>2, <3>1
  <2> QED
    BY <1>2, <2>1, <2>2 DEF RefundRowFor
<1>3. CASE CreateRefund(w) \/ FreshRefund(w)
  BY <1>2, <1>3 DEF CreateRefund, FreshRefund
<1>4. \A row : r # q => [refunds EXCEPT ![r] = row][q] = refunds[q]
  BY DEF StripesWord, RowsTypeOK
<1>5. CASE CancelRefund(w) \/ MarkPending(w)
  <2>1. r = q => UNCHANGED refunds
    BY <1>5 DEF CancelRefund, MarkPending, DefinitelyFailed, Final, Settled
  <2>2. UNCHANGED refunds \/ \E row : refunds' = [refunds EXCEPT ![r] = row]
    BY <1>5 DEF CancelRefund, MarkPending
  <2> QED
    BY <1>4, <2>1, <2>2
<1>6. CASE ReferenceMissing(w) \/ StoreResult(w)
  <2>1. r = q => UNCHANGED refunds
    BY <1>6 DEF ReferenceMissing, StoreResult, Settled
  <2>2. UNCHANGED refunds \/ \E row : refunds' = [refunds EXCEPT ![r] = row]
    BY <1>6 DEF ReferenceMissing, StoreResult
  <2> QED
    BY <1>4, <2>1, <2>2
<1>7. \/ UNCHANGED refunds \/ CreateRefund(w) \/ FreshRefund(w) \/ CancelRefund(w)
      \/ MarkPending(w) \/ ReferenceMissing(w) \/ StoreResult(w)
  BY DEF Work, BeginWithdrawal, LookUpBalance, LookUpFails, SaveBalance,
         CompleteWithdrawal, BeginRetry, ReadRefund, CallFails, CallReplays, CallCreates,
         Crash
<1> QED
  BY <1>1, <1>3, <1>5, <1>6, <1>7

\* Neither does a webhook: complete_contract_refund returns early for it.
LEMMA EventsKeepSettled ==
  ASSUME StripesWord, ChargeEvent \/ \E e \in refundEvents : DeliverRefund(e),
         NEW q \in Rows, Settled(q)
  PROVE  refunds'[q] = refunds[q]
<1>1. CASE ChargeEvent
  BY <1>1 DEF ChargeEvent, Completed, Final, Settled
<1>2. ASSUME NEW e \in refundEvents, DeliverRefund(e) PROVE refunds'[q] = refunds[q]
  BY <1>2 DEF DeliverRefund, Completed, Final, Settled, StripesWord, RowsTypeOK
<1> QED
  BY <1>1, <1>2

\* A late answer of Stripe, a second delivery or a retry that read the row
\* before never changes a row that has succeeded (process_refund's second look,
\* complete_contract_refund's early return).
THEOREM SettledStaysSettled == Spec => SucceededStaysSucceeded
<1>1. StripesWord /\ [Next]_vars
        => [\A r \in Rows : Exists(r) /\ refunds[r].status = "succeeded"
              => refunds'[r] = refunds[r]]_vars
  <2> SUFFICES ASSUME StripesWord, [Next]_vars, NEW r \in Rows, Settled(r)
               PROVE  refunds'[r] = refunds[r]
    BY DEF Settled
  <2>1. \/ UNCHANGED refunds
        \/ \E w \in Workers : Work(w)
        \/ ChargeEvent
        \/ \E e \in refundEvents : DeliverRefund(e)
    BY DEF Next, vars, database, Settle, DashboardRefund
  <2> QED
    BY <2>1, WorkKeepsSettled, EventsKeepSettled
<1> QED
  BY <1>1, WordIsKept, PTL DEF Spec, SucceededStaysSucceeded

-----------------------------------------------------------------------------
(* Sums.  The sum of MapThenSumSet is the number of its units, the pairs of *)
(* an element and one of the numbers up to its value, so that what is known *)
(* of finite sets carries over to it; induction over the subsets of a finite *)
(* set is used as the existence of minimal ones.                            *)

Sum(f, S) == MapThenSumSet(LAMBDA x : f[x], S)

Units(f, S) == {u \in S \X Nat : u[2] \in 1 .. f[u[1]]}

\* Among sets of subsets of a finite set there is a smallest one: what has no
\* smallest counterexample has none.
LEMMA MinimalSubset ==
  ASSUME NEW S, IsFiniteSet(S), NEW Bad \in SUBSET SUBSET S, Bad # {}
  PROVE  \E T \in Bad : \A U \in Bad : U \subseteq T => U = T
<1>1. IsWellFoundedOn(StrictSubsetOrdering(S), SUBSET S)
  BY FS_StrictSubsetOrderingWellFounded, FS_FiniteSubsetsOfFinite
<1>2. \E T \in Bad : \A U \in Bad : ~ (<<U, T>> \in StrictSubsetOrdering(S))
  BY <1>1, WFMin
<1> QED BY <1>2 DEF StrictSubsetOrdering

\* The units of one element are as many as its value.
LEMMA UnitsOfOne ==
  ASSUME NEW f, NEW x, f[x] \in Nat
  PROVE  /\ IsFiniteSet(Units(f, {x}))
         /\ Cardinality(Units(f, {x})) = f[x]
<1>1. Units(f, {x}) = {x} \X (1 .. f[x])
  <2>1. ASSUME NEW u \in {x} \X Nat
        PROVE  u \in Units(f, {x}) <=> u \in {x} \X (1 .. f[x])
    BY <2>1 DEF Units
  <2>2. {x} \X (1 .. f[x]) \subseteq {x} \X Nat
    OBVIOUS
  <2> QED BY <2>1, <2>2 DEF Units
<1>2. IsFiniteSet({x}) /\ Cardinality({x}) = 1
  BY FS_Singleton
<1>3. IsFiniteSet(1 .. f[x]) /\ Cardinality(1 .. f[x]) = f[x]
  <2>1. 1 \in Int /\ f[x] \in Int
    OBVIOUS
  <2>2. IsFiniteSet(1 .. f[x])
        /\ Cardinality(1 .. f[x]) = IF 1 > f[x] THEN 0 ELSE f[x] - 1 + 1
    BY <2>1, FS_Interval
  <2> QED BY <2>2
<1>4. /\ IsFiniteSet({x} \X (1 .. f[x]))
      /\ Cardinality({x} \X (1 .. f[x])) = 1 * f[x]
  BY <1>2, <1>3, FS_Product, ZenonT(60)
<1>5. 1 * f[x] = f[x]
  OBVIOUS
<1> QED BY <1>1, <1>4, <1>5

\* Taking out one element takes out its units.
LEMMA UnitsRemove ==
  ASSUME NEW f, NEW S, NEW x \in S, f[x] \in Nat, IsFiniteSet(Units(f, S \ {x}))
  PROVE  /\ IsFiniteSet(Units(f, S))
         /\ Cardinality(Units(f, S)) = f[x] + Cardinality(Units(f, S \ {x}))
<1> DEFINE Rest == Units(f, S \ {x})
<1>1. Units(f, S) = Units(f, {x}) \cup Rest
  BY DEF Units
<1>2. Units(f, {x}) \cap Rest = {}
  BY DEF Units
<1>3. /\ IsFiniteSet(Units(f, {x})) /\ Cardinality(Units(f, {x})) = f[x]
  BY UnitsOfOne
<1>4. /\ IsFiniteSet(Units(f, {x}) \cup Rest)
      /\ Cardinality(Units(f, {x}) \cup Rest) =
           Cardinality(Units(f, {x})) + Cardinality(Rest) - Cardinality(Units(f, {x}) \cap Rest)
  BY <1>3, FS_Union
<1>5. Cardinality(Units(f, {x}) \cap Rest) = 0
  BY <1>2, FS_EmptySet
<1>6. Cardinality(Rest) \in Nat
  BY FS_CardinalityType
<1> QED BY <1>1, <1>3, <1>4, <1>5, <1>6

\* The units of finitely many naturals are finitely many.
LEMMA UnitsFinite ==
  ASSUME NEW S, IsFiniteSet(S), NEW f, \A x \in S : f[x] \in Nat
  PROVE  \A T \in SUBSET S : IsFiniteSet(Units(f, T))
<1> DEFINE Bad == {T \in SUBSET S : ~ IsFiniteSet(Units(f, T))}
<1> SUFFICES ASSUME Bad # {} PROVE FALSE
  OBVIOUS
<1>1. PICK T \in Bad : \A U \in Bad : U \subseteq T => U = T
  <2>1. Bad \in SUBSET SUBSET S
    OBVIOUS
  <2> HIDE DEF Bad
  <2> QED BY <2>1, MinimalSubset
<1>2. CASE T = {}
  <2>1. Units(f, T) = {}
    BY <1>2 DEF Units
  <2> QED BY <2>1, FS_EmptySet
<1>3. CASE T # {}
  <2>1. PICK x \in T : TRUE
    BY <1>3
  <2>2. IsFiniteSet(Units(f, T \ {x}))
    BY <1>1, <2>1
  <2> QED BY <2>1, <2>2, UnitsRemove
<1> QED BY <1>2, <1>3

\* The function that MapThenSumSet recurses over counts the units.
LEMMA SumCountsUnits ==
  ASSUME NEW S, IsFiniteSet(S), NEW f, \A x \in S : f[x] \in Nat
  PROVE  Sum(f, S) = Cardinality(Units(f, S))
<1> DEFINE Some(s) == CHOOSE x \in s : TRUE
           Step(g, s) == IF s = {} THEN 0 ELSE f[Some(s)] + g[s \ {Some(s)}]
           iter == CHOOSE g : g = [s \in SUBSET S |-> Step(g, s)]
           count == [s \in SUBSET S |-> Cardinality(Units(f, s))]
<1>1. Sum(f, S) = iter[S]
  BY DEF Sum, MapThenSumSet, MapThenFoldSet
<1>2. ASSUME NEW s \in SUBSET S, s # {}
      PROVE  /\ Some(s) \in s
             /\ count[s] = f[Some(s)] + count[s \ {Some(s)}]
  <2>1. Some(s) \in s
    BY <1>2
  <2>2. IsFiniteSet(Units(f, s \ {Some(s)}))
    BY UnitsFinite
  <2>3. Cardinality(Units(f, s)) = f[Some(s)] + Cardinality(Units(f, s \ {Some(s)}))
    <3> HIDE DEF Some
    <3> QED BY <2>1, <2>2, UnitsRemove
  <2> QED BY <2>1, <2>3
<1>3. count[{}] = 0
  <2>1. Units(f, {}) = {}
    BY DEF Units
  <2> QED BY <2>1, FS_EmptySet
<1>4. count = [s \in SUBSET S |-> Step(count, s)]
  <2>1. \A s \in SUBSET S : count[s] = Step(count, s)
    <3> HIDE DEF count, Some
    <3> QED BY <1>2, <1>3
  <2> HIDE DEF Step
  <2> QED BY <2>1
<1>5. iter = [s \in SUBSET S |-> Step(iter, s)]
  <2> HIDE DEF count, Step
  <2> QED BY <1>4
<1>6. \A s \in SUBSET S : iter[s] = count[s]
  <2> DEFINE Bad == {s \in SUBSET S : iter[s] # count[s]}
  <2> HIDE DEF iter, count
  <2> SUFFICES ASSUME Bad # {} PROVE FALSE
    OBVIOUS
  <2>1. PICK s \in Bad : \A u \in Bad : u \subseteq s => u = s
    <3>1. Bad \in SUBSET SUBSET S
      OBVIOUS
    <3> HIDE DEF Bad
    <3> QED BY <3>1, MinimalSubset
  <2>2. iter[s] = Step(iter, s)
    <3> HIDE DEF Step
    <3> QED BY <1>5
  <2>3. CASE s = {}
    BY <2>2, <2>3, <1>3
  <2>4. CASE s # {}
    <3>1. Some(s) \in s /\ count[s] = f[Some(s)] + count[s \ {Some(s)}]
      BY <1>2, <2>4
    <3> HIDE DEF Some
    <3>2. iter[s \ {Some(s)}] = count[s \ {Some(s)}]
      BY <2>1, <3>1
    <3> QED BY <2>2, <2>4, <3>1, <3>2
  <2> QED BY <2>3, <2>4
<1> QED BY <1>1, <1>6

\* A sum of naturals is a natural.
LEMMA SumNatural ==
  ASSUME NEW S, IsFiniteSet(S), NEW f, \A x \in S : f[x] \in Nat
  PROVE  Sum(f, S) \in Nat
BY SumCountsUnits, UnitsFinite, FS_CardinalityType

-----------------------------------------------------------------------------
(* Types, with the amounts: every total is a natural number. *)

Amounts ==
  /\ amount \in [Rows -> 0 .. Paid]
  /\ refunded \in Nat
  /\ declaration \in {"accepted", "effective"}
  /\ seen \in [Workers -> Nat]
  /\ remote \in [Rows -> Outcomes \cup {"none", "succeeded", "failed"}]
  /\ foreign \in Nat
  /\ chargeEvents \subseteq 0 .. Paid

\* What rows of the table add up to is a natural number.
LEMMA AmountsAddUp ==
  ASSUME amount \in [Rows -> 0 .. Paid], NEW S \in SUBSET Rows
  PROVE  AmountOf(S) \in Nat
<1>1. Paid \in Nat /\ MaxRow \in Int /\ 1 \in Int
  BY RefundsAssumption
<1>2. IsFiniteSet(S)
  <2>1. IsFiniteSet(1 .. MaxRow)
    BY <1>1, FS_Interval
  <2> QED
    BY <2>1, FS_Subset DEF Rows
<1>3. \A r \in S : amount[r] \in Nat
  BY <1>1
<1>4. AmountOf(S) = Sum(amount, S)
  BY DEF AmountOf, Sum
<1> QED
  BY <1>2, <1>3, <1>4, SumNatural

\* What Stripe shows as refunded is one too.
LEMMA RefundedIsNatural ==
  ASSUME Amounts
  PROVE  AmountRefunded \in Nat
<1>1. Ours \in Nat
  BY AmountsAddUp DEF Amounts, Ours, Existing
<1> QED
  BY <1>1 DEF Amounts, AmountRefunded

\* _refund_row stores at most what the caller believes is left.
LEMMA RefundRowForKeepsAmounts ==
  ASSUME Amounts, NEW w \in Workers, NEW cents \in 0 .. Paid, NEW next,
         RefundRowFor(w, cents, next)
  PROVE  amount' \in [Rows -> 0 .. Paid]
BY DEF Amounts, RefundRowFor

\* The steps of a process keep the types of the amounts.
LEMMA WorkKeepsAmounts ==
  ASSUME StripesWord, Amounts, NEW w \in Workers, Work(w)
  PROVE  Amounts'
<1> USE DEF At, database, stripe
<1>0. /\ Paid \in Nat \ {0}
      /\ Decision \in 0 .. Paid \/ Decision = NoDecision
      /\ Left(w) \in 0 .. Paid
  BY RefundsAssumption DEF Left, MaxOf, Amounts
<1>1. CASE UNCHANGED <<amount, refunded, declaration, seen, remote, foreign, chargeEvents>>
  BY <1>1 DEF Amounts
<1>2. CASE BeginWithdrawal(w) \/ ReadRefund(w)
  BY <1>2 DEF BeginWithdrawal, ReadRefund, Amounts
<1>3. CASE LookUpBalance(w)
  BY <1>3, RefundedIsNatural DEF LookUpBalance, Amounts, MaxOf
<1>4. CASE SaveBalance(w)
  BY <1>4 DEF SaveBalance, Amounts
<1>5. CASE CreateRefund(w)
  <2> DEFINE cents == IF Decision = NoDecision THEN Left(w) ELSE MinOf(Left(w), Decision)
  <2>1. cents \in 0 .. Paid
    BY <1>0 DEF MinOf
  <2>2. RefundRowFor(w, cents, "retry")
    BY <1>5 DEF CreateRefund
  <2> HIDE DEF cents
  <2>3. amount' \in [Rows -> 0 .. Paid]
    BY <2>1, <2>2, RefundRowForKeepsAmounts
  <2> QED
    BY <1>5, <2>3 DEF CreateRefund, Amounts
<1>6. CASE FreshRefund(w)
  <2> DEFINE cents == MinOf(Left(w), amount[worker[w].row])
  <2>1. worker[w].row \in Rows
    BY <1>6 DEF FreshRefund, StripesWord, WorkersHoldRows, Holding, Existing
  <2>2. cents \in 0 .. Paid
    BY <1>0, <2>1 DEF MinOf, Amounts
  <2>3. RefundRowFor(w, cents, "mark")
    BY <1>6 DEF FreshRefund
  <2> HIDE DEF cents
  <2>4. amount' \in [Rows -> 0 .. Paid]
    BY <2>2, <2>3, RefundRowForKeepsAmounts
  <2> QED
    BY <1>6, <2>4 DEF FreshRefund, Amounts
<1>7. CASE CompleteWithdrawal(w)
  BY <1>7 DEF CompleteWithdrawal, Amounts
<1>8. CASE StoreResult(w)
  <2>1. amount[worker[w].row] \in Nat
    BY <1>0, <1>8 DEF StoreResult, StripesWord, WorkersHoldRows, Holding, Existing, Amounts
  <2>2. refunded' \in Nat
    BY <1>8, <2>1 DEF StoreResult, Amounts
  <2> QED
    BY <1>8, <2>2 DEF StoreResult, Amounts
<1>9. CASE CallCreates(w)
  <2>1. PICK r \in Rows, status \in Outcomes :
          /\ amount[r] <= Paid - AmountRefunded
          /\ remote' = [remote EXCEPT ![r] = status]
          /\ \/ chargeEvents' = chargeEvents
             \/ chargeEvents' = chargeEvents \cup {AmountRefunded + amount[r]}
    BY <1>9 DEF CallCreates, StripesWord, WorkersHoldRows, Holding, Existing
  <2>2. AmountRefunded \in Nat /\ amount[r] \in 0 .. Paid
    BY RefundedIsNatural DEF Amounts
  <2>3. AmountRefunded + amount[r] \in 0 .. Paid
    BY <1>0, <2>1, <2>2
  <2> HIDE DEF AmountRefunded
  <2>4. UNCHANGED <<amount, refunded, declaration, seen, foreign>>
    BY <1>9 DEF CallCreates
  <2> QED
    BY <2>1, <2>3, <2>4 DEF Amounts
<1> QED
  BY <1>1, <1>2, <1>3, <1>4, <1>5, <1>6, <1>7, <1>8, <1>9
  DEF Work, LookUpFails, BeginRetry, CancelRefund, MarkPending, ReferenceMissing,
      CallFails, CallReplays, Crash

\* So do the webhooks, which count what newly succeeded.
LEMMA EventsKeepAmounts ==
  ASSUME Amounts, ChargeEvent \/ \E e \in refundEvents : DeliverRefund(e)
  PROVE  Amounts'
<1>1. \A table : AmountOf(NewlySucceeded(table)) \in Nat
  BY AmountsAddUp DEF Amounts, NewlySucceeded, Existing
<1>2. refunded' \in Nat
  <2>1. CASE ChargeEvent
    <3>0. PICK total \in chargeEvents : \E table :
            refunded' = MaxOf(refunded + AmountOf(NewlySucceeded(table)),
                              MinOf(Paid, total - AmountOf({r \in Existing :
                                table[r].status \in Open /\ table[r].accepted})))
      BY <2>1 DEF ChargeEvent
    <3>1. PICK table :
            refunded' = MaxOf(refunded + AmountOf(NewlySucceeded(table)),
                              MinOf(Paid, total - AmountOf({r \in Existing :
                                table[r].status \in Open /\ table[r].accepted})))
      BY <3>0
    <3> DEFINE ours == AmountOf({r \in Existing :
                         table[r].status \in Open /\ table[r].accepted})
               new == AmountOf(NewlySucceeded(table))
    <3>2. ours \in Nat /\ new \in Nat
      BY <1>1, AmountsAddUp DEF Amounts, Existing
    <3>3. refunded' = MaxOf(refunded + new, MinOf(Paid, total - ours))
      BY <3>1
    <3> HIDE DEF ours, new
    <3>4. total \in Nat /\ Paid \in Nat /\ refunded \in Nat
      BY RefundsAssumption DEF Amounts
    <3>5. MinOf(Paid, total - ours) \in Int
      BY <3>2, <3>4 DEF MinOf
    <3> QED
      BY <3>2, <3>3, <3>4, <3>5 DEF MaxOf
  <2>2. ASSUME NEW e \in refundEvents, DeliverRefund(e) PROVE refunded' \in Nat
    <3>1. PICK table : refunded' = refunded + AmountOf(NewlySucceeded(table))
      BY <2>2 DEF DeliverRefund
    <3> QED
      BY <1>1, <3>1 DEF Amounts
  <2> QED
    BY <2>1, <2>2
<1>3. UNCHANGED <<amount, declaration, seen, stripe>>
  BY DEF ChargeEvent, DeliverRefund
<1> QED
  BY <1>2, <1>3 DEF Amounts, stripe

\* So does Stripe on its own: it refunds no more than was paid.
LEMMA StripeKeepsAmounts ==
  ASSUME Amounts, DashboardRefund \/ \E r \in Rows : Settle(r)
  PROVE  Amounts'
<1> USE DEF database
<1>1. CASE DashboardRefund
  <2>1. PICK cents \in Foreign :
          /\ AmountRefunded + cents <= Paid
          /\ foreign' = foreign + cents
          /\ chargeEvents' = chargeEvents \cup {AmountRefunded + cents}
    BY <1>1 DEF DashboardRefund
  <2>2. AmountRefunded \in Nat /\ cents \in Nat /\ Paid \in Nat
    BY RefundedIsNatural, RefundsAssumption
  <2> HIDE DEF AmountRefunded
  <2>3. UNCHANGED <<amount, refunded, declaration, seen, remote>>
    BY <1>1 DEF DashboardRefund
  <2> QED
    BY <2>1, <2>2, <2>3 DEF Amounts
<1>2. ASSUME NEW r \in Rows, Settle(r) PROVE Amounts'
  BY <1>2 DEF Settle, Amounts
<1> QED
  BY <1>1, <1>2

\* Every column and every total has its type: amounts never turn negative and no
\* charge.refunded event carries more than was paid.
THEOREM RefundsTyped == Spec => []TypeOK
<1>1. Init => Amounts
  BY RefundsAssumption DEF Init, Amounts
<1>2. StripesWord /\ Amounts /\ [Next]_vars => Amounts'
  <2> SUFFICES ASSUME StripesWord, Amounts, [Next]_vars PROVE Amounts'
    OBVIOUS
  <2>1. CASE UNCHANGED vars
    BY <2>1 DEF vars, database, stripe, Amounts
  <2> QED
    BY <2>1, WorkKeepsAmounts, EventsKeepAmounts, StripeKeepsAmounts DEF Next
<1>3. StripesWord /\ Amounts => TypeOK
  BY DEF StripesWord, RowsTypeOK, Amounts, TypeOK
<1> QED
  BY <1>1, <1>2, <1>3, WordIsKept, PTL DEF Spec

-----------------------------------------------------------------------------
(* What "effective" means, where Stripe decides every refund at once. *)

\* Stripe gives a new refund its final status with the answer.
Decided == Outcomes \subseteq Definite

\* Nothing adds up to nothing, and a sum is at least each of its terms.
LEMMA SumBounds ==
  ASSUME amount \in [Rows -> 0 .. Paid], NEW S \in SUBSET Rows
  PROVE  /\ S = {} => AmountOf(S) = 0
         /\ \A r \in S : AmountOf(S) >= amount[r]
<1>1. Paid \in Nat /\ MaxRow \in Int /\ 1 \in Int
  BY RefundsAssumption
<1>2. IsFiniteSet(S)
  <2>1. IsFiniteSet(1 .. MaxRow)
    BY <1>1, FS_Interval
  <2> QED
    BY <2>1, FS_Subset DEF Rows
<1>3. \A r \in S : amount[r] \in Nat
  BY <1>1
<1>4. AmountOf(S) = Cardinality(Units(amount, S))
  <2>1. AmountOf(S) = Sum(amount, S)
    BY DEF AmountOf, Sum
  <2> QED
    BY <1>2, <1>3, <2>1, SumCountsUnits
<1>5. S = {} => AmountOf(S) = 0
  <2>1. Units(amount, {}) = {}
    BY DEF Units
  <2> QED
    BY <1>4, <2>1, FS_EmptySet
<1>6. ASSUME NEW r \in S PROVE AmountOf(S) >= amount[r]
  <2>1. IsFiniteSet(Units(amount, S \ {r}))
    BY <1>2, <1>3, UnitsFinite
  <2>2. Cardinality(Units(amount, S)) = amount[r] + Cardinality(Units(amount, S \ {r}))
    BY <1>3, <2>1, UnitsRemove
  <2>3. Cardinality(Units(amount, S \ {r})) \in Nat
    BY <2>1, FS_CardinalityType
  <2> QED
    BY <1>3, <1>4, <2>2, <2>3
<1> QED
  BY <1>5, <1>6

\* While no refund of ours has gone through, Stripe shows the dashboard's.
LEMMA UntouchedShowsForeign ==
  ASSUME Decided, StripesWord, Amounts, \A r \in Rows : remote[r] # "succeeded"
  PROVE  AmountRefunded = foreign
<1>1. \A r \in Existing : remote[r] \notin Accepted
  BY DEF Decided, StripesWord, RowsTypeOK, StripeKnowsRows, Amounts, Existing, Accepted,
         Definite
<1>2. {r \in Existing : remote[r] \in Accepted} = {}
  BY <1>1
<1>3. Ours = 0
  BY <1>2, SumBounds DEF Ours, Amounts
<1> QED
  BY <1>3 DEF AmountRefunded, Amounts

\* Either way, what the declaration says is what Stripe holds.
LEMMA AllOrNothingMeansRefunded ==
  ASSUME Decided, StripesWord, Amounts, AllOrNothing
  PROVE  EffectiveMeansRefunded
<1>1. CASE Untouched
  BY <1>1, UntouchedShowsForeign DEF Untouched, EffectiveMeansRefunded
<1>2. CASE PaidBack
  <2> DEFINE S == {q \in Existing : remote[q] \in Accepted}
  <2>1. PICK r \in Existing : remote[r] = "succeeded" /\ amount[r] + foreign >= Owed
    BY <1>2 DEF PaidBack
  <2>2. r \in S /\ S \in SUBSET Rows
    BY <2>1 DEF Accepted, Existing
  <2>3. AmountOf(S) >= amount[r] /\ AmountOf(S) \in Nat
    BY <2>2, SumBounds, AmountsAddUp DEF Amounts
  <2>4. AmountRefunded = foreign + AmountOf(S)
    BY DEF AmountRefunded, Ours
  <2>5. amount[r] \in Nat /\ foreign \in Nat /\ Owed \in Nat
    BY <2>2, RefundsAssumption DEF Amounts, Owed
  <2> QED
    BY <2>1, <2>3, <2>4, <2>5 DEF EffectiveMeansRefunded
<1> QED
  BY <1>1, <1>2 DEF AllOrNothing

\* A refund that has gone through stays: nothing takes it back, no row is rewritten
\* in its amount and the dashboard's refunds only grow.
LEMMA PaidBackStays ==
  ASSUME StripesWord, Amounts, PaidBack, [Next]_vars
  PROVE  PaidBack'
<1> USE DEF database, stripe
<1>1. PICK r \in Existing : remote[r] = "succeeded" /\ amount[r] + foreign >= Owed
  BY DEF PaidBack
<1>2. r \in Rows
  BY DEF Existing
<1>3. remote'[r] = "succeeded"
  <2>1. ASSUME NEW w \in Workers, CallCreates(w) PROVE remote'[r] = "succeeded"
    <3>1. \E status : remote' = [remote EXCEPT ![worker[w].row] = status]
      BY <2>1 DEF CallCreates
    <3>2. worker[w].row \in Existing /\ answer[worker[w].row] = "none"
      BY <2>1 DEF CallCreates, At, StripesWord, WorkersHoldRows, Holding
    <3>3. remote[worker[w].row] = "none"
      BY <3>2 DEF StripesWord, StripeKnowsRows, Existing
    <3> QED
      BY <1>1, <1>2, <3>1, <3>3 DEF StripesWord, RowsTypeOK
  <2>2. ASSUME NEW q \in Rows, Settle(q) PROVE remote'[r] = "succeeded"
    BY <1>1, <1>2, <2>2 DEF Settle, StripesWord, RowsTypeOK
  <2>3. \/ \E w \in Workers : CallCreates(w)
        \/ \E q \in Rows : Settle(q)
        \/ UNCHANGED remote
    BY DEF Next, vars, Work, BeginWithdrawal, LookUpBalance, LookUpFails, SaveBalance,
           CreateRefund, CompleteWithdrawal, BeginRetry, ReadRefund, CancelRefund,
           FreshRefund, MarkPending, ReferenceMissing, CallFails, CallReplays,
           StoreResult, Crash, DeliverRefund, ChargeEvent, DashboardRefund
  <2> QED
    BY <1>1, <2>1, <2>2, <2>3
<1>4. r \in Existing'
  <2>1. StripesWord'
    BY StepKeepsWord
  <2> QED
    BY <1>2, <1>3, <2>1 DEF StripesWord, StripeKnowsRows, Existing
<1>5. amount'[r] = amount[r]
  <2>1. ASSUME NEW w \in Workers, NEW cents, NEW next, RefundRowFor(w, cents, next)
        PROVE  amount'[r] = amount[r]
    <3>1. ASSUME NEW q \in Rows, Existing = 1 .. (q - 1), amount' = [amount EXCEPT ![q] = cents]
          PROVE  amount'[r] = amount[r]
      <4>1. q # r
        BY <1>1, <3>1, RefundsAssumption DEF Existing, Rows
      <4> QED
        BY <1>2, <3>1, <4>1 DEF Amounts
    <3> QED
      BY <2>1, <3>1 DEF RefundRowFor
  <2>2. \/ \E w \in Workers : CreateRefund(w) \/ FreshRefund(w)
        \/ UNCHANGED amount
    BY DEF Next, vars, Work, BeginWithdrawal, LookUpBalance, LookUpFails, SaveBalance,
           CompleteWithdrawal, BeginRetry, ReadRefund, CancelRefund,
           MarkPending, ReferenceMissing, CallFails, CallReplays, CallCreates,
           StoreResult, Crash, DeliverRefund, ChargeEvent, Settle, DashboardRefund
  <2> QED
    BY <2>1, <2>2 DEF CreateRefund, FreshRefund
<1>6. foreign' >= foreign /\ foreign \in Nat /\ foreign' \in Nat
  <2>1. UNCHANGED foreign \/ \E cents \in Foreign : foreign' = foreign + cents
    BY DEF Next, vars, Work, BeginWithdrawal, LookUpBalance, LookUpFails, SaveBalance,
           CreateRefund, CompleteWithdrawal, BeginRetry, ReadRefund, CancelRefund,
           FreshRefund, MarkPending, ReferenceMissing, CallFails, CallReplays, CallCreates,
           StoreResult, Crash, DeliverRefund, ChargeEvent, Settle, DashboardRefund
  <2> QED
    BY <2>1, RefundsAssumption DEF Amounts
<1>7. amount[r] + foreign' >= Owed
  <2>1. amount[r] \in Nat /\ Owed \in Nat
    BY <1>2, RefundsAssumption DEF Amounts, Owed
  <2> QED
    BY <1>1, <1>6, <2>1
<1> QED
  BY <1>3, <1>4, <1>5, <1>7 DEF PaidBack, Owed

\* What a process believes is left covers what is owed, as long as it has read
\* no more than the dashboard's refunds.
LEMMA LeftCoversOwed ==
  ASSUME Amounts, Untouched, NEW w \in Workers
  PROVE  /\ Left(w) \in Nat
         /\ Left(w) + foreign >= Owed
         /\ Decision # NoDecision => MinOf(Left(w), Decision) + foreign >= Owed
         /\ \A r \in Existing : MinOf(Left(w), amount[r]) + foreign >= Owed
<1>1. /\ Paid \in Nat /\ Owed \in Nat /\ Owed <= Paid
      /\ Decision # NoDecision => Decision \in Nat /\ Owed = Decision
  BY RefundsAssumption DEF Owed
<1>2. seen[w] \in Nat /\ foreign \in Nat /\ seen[w] <= foreign
  BY DEF Amounts, Untouched
<1>3. Left(w) \in Nat /\ Left(w) + foreign >= Paid
  BY <1>1, <1>2 DEF Left, MaxOf
<1>4. ASSUME NEW r \in Existing PROVE amount[r] \in Nat /\ amount[r] + foreign >= Owed
  BY RefundsAssumption DEF Amounts, Untouched, Existing
<1> HIDE DEF Left, Owed
<1>5. ASSUME Decision # NoDecision PROVE MinOf(Left(w), Decision) + foreign >= Owed
  BY <1>1, <1>2, <1>3, <1>5 DEF MinOf
<1>6. ASSUME NEW r \in Existing PROVE MinOf(Left(w), amount[r]) + foreign >= Owed
  BY <1>1, <1>2, <1>3, <1>4 DEF MinOf
<1> QED
  BY <1>1, <1>2, <1>3, <1>5, <1>6

\* Two processes never meet between two rows, and Stripe is always reachable.
Sequential == "lookup" \notin Faults /\ \A v, w \in Workers : v = w

\* A new row covers what is owed.
LEMMA RefundRowForLeavesUntouched ==
  ASSUME StripesWord, Amounts, Untouched, NEW w \in Workers, NEW cents \in Nat, NEW next,
         RefundRowFor(w, cents, next), cents + foreign >= Owed,
         UNCHANGED <<declaration, seen, refunded, remote, foreign, chargeEvents>>
  PROVE  Untouched'
<1>1. ASSUME NEW q \in Existing' PROVE amount'[q] + foreign >= Owed
  <2>1. CASE UNCHANGED <<refunds, amount>>
    BY <2>1 DEF Untouched, Existing, Exists
  <2>2. ASSUME NEW r \in Rows, refunds' = [refunds EXCEPT ![r] = Fresh],
               amount' = [amount EXCEPT ![r] = cents]
        PROVE  amount'[q] + foreign >= Owed
    <3>1. q \in Rows
      BY DEF Existing
    <3>2. CASE q = r
      BY <2>2, <3>2 DEF Amounts
    <3>3. CASE q # r
      BY <2>2, <3>1, <3>3 DEF Untouched, Existing, Exists, Amounts, StripesWord, RowsTypeOK
    <3> QED
      BY <3>2, <3>3
  <2> QED
    BY <2>1, <2>2 DEF RefundRowFor
<1> QED
  BY <1>1 DEF Untouched, Owed

\* A step of a process leaves everything untouched, unless Stripe accepts a refund
\* of ours: then it is large enough.
LEMMA WorkLeavesUntouched ==
  ASSUME Decided, StripesWord, Amounts, Untouched,
         Decision = NoDecision \/ NobodyBetweenRows,
         NEW w \in Workers, Work(w)
  PROVE  Untouched' \/ PaidBack'
<1> USE DEF At, database, stripe
<1> DEFINE r == worker[w].row
<1>0. /\ Paid \in Nat /\ Owed \in Nat /\ Owed <= Paid
      /\ foreign \in Nat /\ refunded \in Nat /\ seen[w] \in Nat
  BY RefundsAssumption DEF Owed, Amounts
<1>1. CASE UNCHANGED <<refunds, amount, refunded, declaration, seen, remote, foreign, chargeEvents>>
  BY <1>1 DEF Untouched, Existing, Exists, Owed
<1>2. CASE BeginWithdrawal(w) \/ ReadRefund(w) \/ LookUpBalance(w)
  <2>1. seen'[w] <= foreign
    <3>1. CASE BeginWithdrawal(w) \/ ReadRefund(w)
      BY <3>1 DEF BeginWithdrawal, ReadRefund, Untouched, Amounts
    <3>2. CASE LookUpBalance(w)
      <4>1. AmountRefunded = foreign
        BY UntouchedShowsForeign DEF Untouched
      <4>2. seen'[w] = IF intent THEN MaxOf(seen[w], foreign) ELSE seen[w]
        BY <3>2, <4>1 DEF LookUpBalance, Amounts
      <4> QED
        BY <1>0, <4>2 DEF MaxOf, Untouched
    <3> QED
      BY <1>2, <3>1, <3>2
  <2>2. \A v \in Workers \ {w} : seen'[v] = seen[v]
    BY <1>2 DEF BeginWithdrawal, ReadRefund, LookUpBalance, Amounts
  <2>3. UNCHANGED <<refunds, amount, refunded, declaration, remote, foreign, chargeEvents>>
    BY <1>2 DEF BeginWithdrawal, ReadRefund, LookUpBalance
  <2> QED
    BY <2>1, <2>2, <2>3 DEF Untouched, Existing, Exists, Owed
<1>3. CASE SaveBalance(w)
  BY <1>3 DEF SaveBalance, Untouched, Existing, Exists, Owed
<1>4. CASE CreateRefund(w)
  <2> DEFINE cents == IF Decision = NoDecision THEN Left(w) ELSE MinOf(Left(w), Decision)
  <2>1. Left(w) \in Nat /\ cents + foreign >= Owed
    BY LeftCoversOwed
  <2>2. cents \in Nat
    BY <2>1, RefundsAssumption DEF MinOf
  <2>3. RefundRowFor(w, cents, "retry")
    BY <1>4 DEF CreateRefund
  <2> HIDE DEF cents
  <2> QED
    BY <1>4, <2>1, <2>2, <2>3, RefundRowForLeavesUntouched DEF CreateRefund
<1>5. CASE FreshRefund(w)
  <2> DEFINE cents == MinOf(Left(w), amount[r])
  <2>1. r \in Existing /\ amount[r] \in Nat
    BY <1>5, <1>0 DEF FreshRefund, StripesWord, WorkersHoldRows, Holding, Existing, Amounts
  <2>2. cents \in Nat /\ cents + foreign >= Owed
    BY <2>1, LeftCoversOwed DEF MinOf
  <2>3. RefundRowFor(w, cents, "mark")
    BY <1>5 DEF FreshRefund
  <2> HIDE DEF cents
  <2> QED
    BY <1>5, <2>2, <2>3, RefundRowForLeavesUntouched DEF FreshRefund
<1>6. CASE CompleteWithdrawal(w)
  <2>1. declaration' = "effective" => foreign >= Owed
    <3>1. CASE Decision = NoDecision
      BY <1>0, <1>6, <3>1 DEF CompleteWithdrawal, Untouched
    <3>2. CASE Decision # NoDecision
      BY <1>6, <3>2 DEF CompleteWithdrawal, Untouched, NobodyBetweenRows
    <3> QED
      BY <3>1, <3>2
  <2> QED
    BY <1>6, <2>1 DEF CompleteWithdrawal, Untouched, Existing, Exists, Owed
<1>7. CASE CancelRefund(w) \/ MarkPending(w) \/ ReferenceMissing(w) \/ StoreResult(w)
  <2>1. r \in Existing
    BY <1>7 DEF CancelRefund, MarkPending, ReferenceMissing, StoreResult, StripesWord,
                WorkersHoldRows, Holding
  <2>2. refunded' = refunded
    <3>1. CASE StoreResult(w)
      <4>1. worker[w].result # "succeeded"
        BY <2>1 DEF Untouched, StripesWord, WorkersHoldRows, Definite, Existing
      <4>2. LocalStatus(worker[w].result) # "succeeded"
        BY <4>1 DEF LocalStatus
      <4> QED
        BY <1>0, <3>1, <4>2 DEF StoreResult
    <3> QED
      BY <1>7, <3>1 DEF CancelRefund, MarkPending, ReferenceMissing
  <2>3. \A q \in Existing' : q \in Existing
    BY <1>7, <2>1 DEF CancelRefund, MarkPending, ReferenceMissing, StoreResult, StripesWord,
                RowsTypeOK, Existing, Exists
  <2>4. UNCHANGED <<amount, declaration, seen, remote, foreign, chargeEvents>>
    BY <1>7 DEF CancelRefund, MarkPending, ReferenceMissing, StoreResult
  <2> QED
    BY <2>2, <2>3, <2>4 DEF Untouched, Owed
<1>8. CASE CallCreates(w)
  <2>0. UNCHANGED <<refunds, amount, refunded, declaration, seen, foreign>>
    BY <1>8 DEF CallCreates
  <2>1. r \in Existing /\ r \in Rows
    BY <1>8 DEF CallCreates, StripesWord, WorkersHoldRows, Holding, Existing
  <2>2. PICK status \in Outcomes :
          /\ remote' = [remote EXCEPT ![r] = status]
          /\ status = "failed" => chargeEvents' = chargeEvents
    BY <1>8 DEF CallCreates
  <2>3. status \in Definite
    BY DEF Decided
  <2>4. CASE status = "succeeded"
    BY <2>0, <2>1, <2>2, <2>4 DEF Untouched, PaidBack, Existing, Exists, Owed, Amounts
  <2>5. CASE status = "failed"
    BY <2>0, <2>1, <2>2, <2>5 DEF Untouched, Existing, Exists, Owed, Amounts
  <2> QED
    BY <2>3, <2>4, <2>5 DEF Definite
<1> QED
  BY <1>1, <1>2, <1>3, <1>4, <1>5, <1>6, <1>7, <1>8
  DEF Work, LookUpFails, BeginRetry, CallFails, CallReplays, Crash

\* A webhook finds nothing of ours that succeeded: it counts at most what the
\* dashboard gave back.
LEMMA EventsLeaveUntouched ==
  ASSUME Decided, StripesWord, Amounts, Untouched,
         ChargeEvent \/ \E e \in refundEvents : DeliverRefund(e)
  PROVE  Untouched'
<1>0. /\ Paid \in Nat /\ foreign \in Nat /\ refunded \in Nat
      /\ \A total \in chargeEvents : total \in Nat /\ total <= foreign
  BY RefundsAssumption DEF Amounts, Untouched
<1>1. ASSUME NEW r \in Existing, NEW status \in Accepted \cup {"failed"},
             status \in Definite => remote[r] = status
      PROVE  Completed(refunds[r], status).status # "succeeded"
  <2>1. remote[r] # "succeeded"
    BY DEF Untouched, Existing
  <2> QED
    BY <1>1, <2>1, CompletedFollowsStripe
<1>2. ASSUME NEW table, \A r \in Existing : table[r].status # "succeeded"
      PROVE  AmountOf(NewlySucceeded(table)) = 0
  <2>1. NewlySucceeded(table) = {}
    BY <1>2 DEF NewlySucceeded
  <2> QED
    BY <2>1, SumBounds DEF Amounts
<1>3. \A r \in Existing : refunds[r].status # "succeeded"
  BY DEF Untouched, StripesWord, RowsFollowStripe, Existing
<1>4. refunded' <= foreign
  <2>1. CASE ChargeEvent
    <3> DEFINE table == [r \in Rows |->
                 IF Live # {} /\ Exists(r) /\ remote[r] # "none"
                 THEN Completed(refunds[r], remote[r]) ELSE refunds[r]]
               ours == AmountOf({r \in Existing :
                         table[r].status \in Open /\ table[r].accepted})
               new == AmountOf(NewlySucceeded(table))
    <3>1. PICK total \in chargeEvents :
            refunded' = MaxOf(refunded + new, MinOf(Paid, total - ours))
      BY <2>1 DEF ChargeEvent
    <3>2. \A r \in Existing : table[r].status # "succeeded"
      <4> SUFFICES ASSUME NEW r \in Existing PROVE table[r].status # "succeeded"
        OBVIOUS
      <4>1. r \in Rows
        BY DEF Existing
      <4>2. remote[r] # "none" => remote[r] \in Accepted \cup {"failed"}
        BY <4>1 DEF StripesWord, RowsTypeOK
      <4>3. CASE remote[r] # "none"
        BY <1>1, <1>3, <4>1, <4>2, <4>3
      <4>4. CASE remote[r] = "none"
        BY <1>3, <4>1, <4>4
      <4> QED
        BY <4>3, <4>4
    <3>3. ours \in Nat
      BY AmountsAddUp DEF Amounts, Existing
    <3> HIDE DEF table
    <3>4. new = 0
      BY <1>2, <3>2
    <3> HIDE DEF ours, new
    <3> QED
      BY <1>0, <3>1, <3>3, <3>4 DEF MaxOf, MinOf, Untouched
  <2>2. ASSUME NEW e \in refundEvents, DeliverRefund(e) PROVE refunded' <= foreign
    <3> DEFINE table == [refunds EXCEPT ![e[1]] = Completed(@, e[2])]
    <3>1. refunded' = refunded + AmountOf(NewlySucceeded(table))
      BY <2>2 DEF DeliverRefund
    <3>2. e[1] \in Existing /\ e[2] \in Accepted \cup {"failed"}
          /\ (e[2] \in Definite => remote[e[1]] = e[2])
      BY DEF StripesWord, RowsTypeOK, StripeKnowsRows, Existing
    <3>3. \A r \in Existing : table[r].status # "succeeded"
      BY <1>1, <1>3, <3>2 DEF StripesWord, RowsTypeOK, Existing
    <3> HIDE DEF table
    <3>4. AmountOf(NewlySucceeded(table)) = 0
      BY <1>2, <3>3
    <3> QED
      BY <1>0, <3>1, <3>4 DEF Untouched
  <2> QED
    BY <2>1, <2>2
<1>5. \A q \in Existing' : q \in Existing
  <2>1. CASE ChargeEvent
    BY <2>1 DEF ChargeEvent, Existing, Exists
  <2>2. ASSUME NEW e \in refundEvents, DeliverRefund(e), NEW q \in Existing'
        PROVE  q \in Existing
    <3>1. e[1] \in Existing
      BY DEF StripesWord, RowsTypeOK, StripeKnowsRows, Existing
    <3> QED
      BY <2>2, <3>1 DEF DeliverRefund, Existing, Exists, StripesWord, RowsTypeOK
  <2> QED
    BY <2>1, <2>2
<1>6. UNCHANGED <<amount, declaration, seen, remote, foreign, chargeEvents>>
  BY DEF ChargeEvent, DeliverRefund, stripe
<1> QED
  BY <1>4, <1>5, <1>6 DEF Untouched, Owed

\* Stripe has nothing to settle; the dashboard adds to what may be seen.
LEMMA StripeLeavesUntouched ==
  ASSUME Decided, StripesWord, Amounts, Untouched,
         DashboardRefund \/ \E r \in Rows : Settle(r)
  PROVE  Untouched'
<1>1. CASE DashboardRefund
  <2>1. PICK cents \in Foreign :
          foreign' = foreign + cents /\ chargeEvents' = chargeEvents \cup {foreign'}
    BY <1>1, UntouchedShowsForeign DEF DashboardRefund, Untouched
  <2>2. cents \in Nat /\ Owed \in Nat /\ foreign \in Nat /\ refunded \in Nat
        /\ (\A w \in Workers : seen[w] \in Nat)
        /\ (\A total \in chargeEvents : total \in Nat)
        /\ (\A r \in Rows : amount[r] \in Nat)
    BY RefundsAssumption DEF Amounts, Owed
  <2>3. UNCHANGED <<refunds, amount, refunded, declaration, seen, remote>>
    BY <1>1 DEF DashboardRefund, database
  <2> QED
    BY <2>1, <2>2, <2>3 DEF Untouched, Existing, Exists, Owed
<1>2. ASSUME NEW r \in Rows, Settle(r) PROVE FALSE
  BY <1>2 DEF Settle, Decided, Amounts, Definite
<1> QED
  BY <1>1, <1>2

\* While nothing has gone through, a row that is not closed is live.
LEMMA UntouchedRowIsLive ==
  ASSUME StripesWord, Untouched, NEW r \in Existing, refunds[r].status # "cancelled"
  PROVE  r \in Live
BY DEF StripesWord, RowsFollowStripe, Untouched, Live, Existing, Final

\* A single process never leaves a withdrawal between a closed row and its fresh one.
LEMMA WorkStaysBetweenRows ==
  ASSUME Sequential, StripesWord, StripesWord', Amounts, Untouched, Untouched',
         Decision # NoDecision, NobodyBetweenRows, NEW w \in Workers, Work(w)
  PROVE  NobodyBetweenRows'
<1> USE DEF At, database, stripe
<1> DEFINE r == worker[w].row
<1>0. /\ worker \in [Workers -> [step : Steps, resumed : BOOLEAN, row : Rows \cup {NoRow},
                                 result : {"none", "error"} \cup Outcomes]]
      /\ worker[w].step \in Holding => r \in Existing
      /\ refunds \in [Rows -> RefundRow \cup {NoRow}]
  BY DEF StripesWord, RowsTypeOK, WorkersHoldRows
<1>1. SUFFICES /\ worker'[w].step \in Holding \ {"fresh"}
                    => refunds'[worker'[w].row].status # "cancelled"
               /\ worker'[w].step = "complete" => Live' # {} \/ foreign' >= Owed
  BY DEF Sequential, NobodyBetweenRows, Owed
<1>2. Return(w) \/ Abort(w) => worker'[w].step \in {"idle", "complete"}
  BY <1>0 DEF Return, Abort, Idle, Process
<1>3. Abort(w) => worker'[w].step = "idle"
  BY <1>0 DEF Abort, Idle, Process
<1>4. CASE BeginWithdrawal(w) \/ LookUpBalance(w) \/ SaveBalance(w)
  BY <1>0, <1>4 DEF BeginWithdrawal, LookUpBalance, SaveBalance, Goto, Process, Holding
<1>5. CASE LookUpFails(w)
  BY <1>5 DEF LookUpFails, Sequential
<1>6. CASE CompleteWithdrawal(w) \/ Crash(w)
  BY <1>3, <1>6 DEF CompleteWithdrawal, Crash, Holding
<1>7. CASE BeginRetry(w)
  <2>1. PICK q \in Live : worker' = [worker EXCEPT ![w] = Process("retry", FALSE, q)]
    BY <1>7 DEF BeginRetry
  <2> QED
    BY <1>0, <1>7, <2>1 DEF BeginRetry, Process, Live, Final
<1>8. CASE ReadRefund(w) \/ CallFails(w) \/ CallReplays(w) \/ CallCreates(w)
  <2>1. worker[w].step \in Holding \ {"fresh"}
    BY <1>8 DEF ReadRefund, CallFails, CallReplays, CallCreates, Holding
  <2>2. worker'[w].row = r /\ worker'[w].step # "complete"
    BY <1>0, <1>8 DEF ReadRefund, CallFails, CallReplays, CallCreates, Goto, Answered
  <2>3. UNCHANGED refunds
    BY <1>8 DEF ReadRefund, CallFails, CallReplays, CallCreates
  <2> QED
    BY <2>1, <2>2, <2>3 DEF NobodyBetweenRows
<1>9. ASSUME NEW cents \in Nat, NEW next \in {"retry", "mark"}, RefundRowFor(w, cents, next),
             cents + foreign >= Owed, UNCHANGED foreign
      PROVE  /\ worker'[w].step \in Holding \ {"fresh"}
                  => refunds'[worker'[w].row].status # "cancelled"
             /\ worker'[w].step = "complete" => Live' # {} \/ foreign' >= Owed
  <2>1. CASE cents = 0
    <3>1. Return(w)
      BY <1>9, <2>1, RefundsAssumption DEF RefundRowFor
    <3>2. foreign >= Owed
      BY <1>9, <2>1, RefundsAssumption DEF Owed, Amounts
    <3> QED
      BY <1>2, <1>9, <3>1, <3>2 DEF Holding
  <2>2. CASE cents # 0
    <3>1. \E q \in Rows : Take(w, next, q) /\ refunds'[q].status # "cancelled"
      <4>1. CASE \E q \in Live : Take(w, next, q) /\ UNCHANGED refunds
        BY <4>1 DEF Live, Existing, Final
      <4>2. ASSUME NEW q \in Rows, Take(w, next, q), refunds' = [refunds EXCEPT ![q] = Fresh]
            PROVE  refunds'[q].status # "cancelled"
        BY <1>0, <4>2 DEF Fresh
      <4>3. \/ \E q \in Live : Take(w, next, q) /\ UNCHANGED refunds
            \/ \E q \in Rows : Take(w, next, q) /\ refunds' = [refunds EXCEPT ![q] = Fresh]
        BY <1>9, <2>2 DEF RefundRowFor
      <4> QED
        BY <4>1, <4>2, <4>3
    <3> QED
      BY <1>0, <3>1 DEF Take, Process
  <2> QED
    BY <2>1, <2>2
<1>10. CASE CreateRefund(w)
  <2> DEFINE cents == IF Decision = NoDecision THEN Left(w) ELSE MinOf(Left(w), Decision)
  <2>1. Left(w) \in Nat /\ cents + foreign >= Owed
    BY LeftCoversOwed
  <2>2. cents \in Nat
    BY <2>1, RefundsAssumption DEF MinOf
  <2>3. RefundRowFor(w, cents, "retry") /\ UNCHANGED foreign
    BY <1>10 DEF CreateRefund
  <2> HIDE DEF cents
  <2> QED
    BY <1>9, <2>1, <2>2, <2>3
<1>11. CASE FreshRefund(w)
  <2> DEFINE cents == MinOf(Left(w), amount[r])
  <2>1. r \in Existing /\ amount[r] \in Nat
    BY <1>0, <1>11, RefundsAssumption DEF FreshRefund, Holding, Existing, Amounts
  <2>2. cents \in Nat /\ cents + foreign >= Owed
    BY <2>1, LeftCoversOwed DEF MinOf
  <2>3. RefundRowFor(w, cents, "mark") /\ UNCHANGED foreign
    BY <1>11 DEF FreshRefund
  <2> HIDE DEF cents
  <2> QED
    BY <1>9, <2>2, <2>3
<1>12. CASE CancelRefund(w)
  <2>1. r \in Existing /\ refunds[r].status # "cancelled"
    BY <1>0, <1>12 DEF CancelRefund, NobodyBetweenRows, Holding
  <2>2. CASE DefinitelyFailed(r)
    <3>1. worker'[w].step = "fresh"
      BY <1>0, <1>12, <2>2 DEF CancelRefund, Goto
    <3> QED
      BY <3>1
  <2>3. CASE ~ DefinitelyFailed(r)
    <3>1. Return(w) /\ UNCHANGED refunds
      BY <1>12, <2>3 DEF CancelRefund
    <3>2. r \in Live
      BY <2>1, UntouchedRowIsLive
    <3>3. Live' = Live
      BY <3>1 DEF Live, Existing, Exists
    <3> QED
      BY <1>2, <3>1, <3>2, <3>3 DEF Holding
  <2> QED
    BY <2>2, <2>3
<1>13. CASE MarkPending(w)
  <2>1. r \in Live
    BY <1>0, <1>13, UntouchedRowIsLive DEF MarkPending, NobodyBetweenRows, Holding
  <2>2. \/ Abort(w)
        \/ /\ refunds' = [refunds EXCEPT ![r].status = "pending", ![r].code = ""]
           /\ Goto(w, IF intent THEN "call" ELSE "store")
    BY <1>13, <2>1 DEF MarkPending, Live
  <2>3. r \in Rows /\ refunds[r] \in RefundRow
    BY <1>0, <2>1 DEF Live, Existing, Exists
  <2>4. CASE Abort(w)
    BY <1>3, <2>4 DEF Holding
  <2>5. CASE ~ Abort(w)
    <3>1. /\ refunds' = [refunds EXCEPT ![r].status = "pending", ![r].code = ""]
          /\ worker' = [worker EXCEPT ![w].step = IF intent THEN "call" ELSE "store"]
      BY <2>2, <2>5 DEF Goto
    <3>2. refunds'[r].status = "pending"
      BY <1>0, <2>3, <3>1 DEF RefundRow
    <3>3. worker'[w].row = r /\ worker'[w].step \in {"call", "store"}
      BY <1>0, <3>1
    <3> QED
      BY <3>2, <3>3
  <2> QED
    BY <2>4, <2>5
<1>14. CASE ReferenceMissing(w) \/ StoreResult(w)
  <2>1. r \in Existing /\ refunds[r].status \notin {"succeeded", "cancelled"}
    BY <1>0, <1>14, UntouchedRowIsLive
    DEF ReferenceMissing, StoreResult, NobodyBetweenRows, Holding, Live, Final
  <2>2. r \in Rows /\ refunds[r] \in RefundRow
    BY <1>0, <2>1 DEF Existing, Exists
  <2>3. Abort(w) \/ (Return(w) /\ refunds'[r].status # "cancelled" /\ r \in Existing')
    <3>1. \A status : LocalStatus(status) # "cancelled"
      BY DEF LocalStatus
    <3>2. CASE ReferenceMissing(w)
      <4>1. refunds'[r].status = "failed" /\ Return(w)
        BY <1>0, <2>1, <2>2, <3>2 DEF ReferenceMissing, RefundRow
      <4>2. r \in Existing'
        BY <1>0, <2>1, <2>2, <3>2, NoRowAssumption
        DEF ReferenceMissing, RefundRow, Existing, Exists, Status, Codes
      <4> QED
        BY <4>1, <4>2
    <3>3. CASE StoreResult(w)
      <4> DEFINE next == LocalStatus(worker[w].result)
                 code == IF worker[w].result = "error" THEN "error" ELSE FailureCode(next)
                 row == [refunds[r] EXCEPT !.status = next,
                           !.accepted = @ \/ worker[w].result # "error", !.code = code]
      <4>1. Abort(w) \/ (Return(w) /\ refunds' = [refunds EXCEPT ![r] = row])
        BY <2>1, <3>3 DEF StoreResult
      <4>2. next \in Status /\ code \in Codes
        BY DEF LocalStatus, FailureCode, Status, Open, Final, Codes
      <4>3. row \in RefundRow /\ row.status = next
        BY <2>2, <4>2 DEF RefundRow
      <4>4. row # NoRow /\ row.status # "cancelled"
        BY <3>1, <4>3, NoRowAssumption
      <4> HIDE DEF row
      <4> QED
        BY <1>0, <2>2, <4>1, <4>4 DEF Existing, Exists
    <3> QED
      BY <1>14, <3>2, <3>3
  <2>4. CASE Abort(w)
    BY <1>3, <2>4 DEF Holding
  <2>5. CASE Return(w) /\ refunds'[r].status # "cancelled" /\ r \in Existing'
    <3>1. refunds'[r].status # "succeeded"
      BY <2>2, <2>5 DEF StripesWord, RowsFollowStripe, Untouched
    <3>2. r \in Existing' /\ refunds'[r].status \notin Final
      BY <2>5, <3>1 DEF Final
    <3>3. r \in Live'
      BY <3>2 DEF Live, Existing
    <3> QED
      BY <1>2, <2>5, <3>3 DEF Holding
  <2> QED
    BY <2>3, <2>4, <2>5
<1> QED
  BY <1>4, <1>5, <1>6, <1>7, <1>8, <1>10, <1>11, <1>12, <1>13, <1>14 DEF Work

\* So do webhooks, which close no row, and Stripe on its own.
LEMMA EventsStayBetweenRows ==
  ASSUME StripesWord, StripesWord', Amounts, Untouched, Untouched', NobodyBetweenRows,
         \/ ChargeEvent \/ DashboardRefund
         \/ \E e \in refundEvents : DeliverRefund(e)
         \/ \E r \in Rows : Settle(r)
  PROVE  NobodyBetweenRows'
<1>0. /\ UNCHANGED worker
      /\ foreign' >= foreign /\ foreign \in Nat /\ foreign' \in Nat /\ Owed \in Nat
  <2>1. UNCHANGED worker
    BY DEF ChargeEvent, DeliverRefund, DashboardRefund, Settle
  <2>2. UNCHANGED foreign \/ \E cents \in Foreign : foreign' = foreign + cents
    BY DEF ChargeEvent, DeliverRefund, DashboardRefund, Settle, stripe
  <2> QED
    BY <2>1, <2>2, RefundsAssumption DEF Amounts, Owed
<1>1. ASSUME NEW r \in Existing, refunds[r].status # "cancelled"
      PROVE  r \in Existing' /\ refunds'[r].status # "cancelled"
  <2>0. r \in Rows /\ refunds[r] \in RefundRow
    BY DEF StripesWord, RowsTypeOK, Existing, Exists
  <2>1. ASSUME NEW status PROVE Completed(refunds[r], status).status # "cancelled"
    <3>1. LocalStatus(status) # "cancelled"
      BY DEF LocalStatus
    <3> QED
      BY <1>1, <2>0, <3>1 DEF Completed, RefundRow
  <2>2. ASSUME NEW status \in Accepted \cup {"failed"}
        PROVE  Completed(refunds[r], status) \in RefundRow
    <3>1. LocalStatus(status) \in Status /\ FailureCode(LocalStatus(status)) \in Codes
      BY DEF LocalStatus, FailureCode, Status, Open, Final, Codes, Accepted
    <3> QED
      BY <2>0, <3>1 DEF Completed, RefundRow
  <2>3. \/ refunds'[r] = refunds[r]
        \/ \E status \in Accepted \cup {"failed"} : refunds'[r] = Completed(refunds[r], status)
    <3>1. CASE ChargeEvent
      <4>1. remote[r] # "none" => remote[r] \in Accepted \cup {"failed"}
        BY <2>0 DEF StripesWord, RowsTypeOK
      <4>2. \/ refunds'[r] = refunds[r]
            \/ remote[r] # "none" /\ refunds'[r] = Completed(refunds[r], remote[r])
        BY <2>0, <3>1 DEF ChargeEvent
      <4> QED
        BY <4>1, <4>2
    <3>2. ASSUME NEW e \in refundEvents, DeliverRefund(e) PROVE <2>3
      <4>1. e[2] \in Accepted \cup {"failed"}
        BY DEF StripesWord, RowsTypeOK
      <4>2. \/ refunds'[r] = refunds[r]
            \/ refunds'[r] = Completed(refunds[r], e[2])
        BY <2>0, <3>2 DEF DeliverRefund, StripesWord, RowsTypeOK
      <4> QED
        BY <4>1, <4>2
    <3> QED
      BY <3>1, <3>2 DEF DashboardRefund, Settle, database
  <2>4. refunds'[r] \in RefundRow /\ refunds'[r].status # "cancelled"
    BY <1>1, <2>0, <2>1, <2>2, <2>3
  <2> QED
    BY <2>0, <2>4, NoRowAssumption DEF Existing, Exists
<1>2. Live # {} => Live' # {}
  <2> SUFFICES ASSUME NEW r \in Live PROVE r \in Live'
    OBVIOUS
  <2>1. r \in Existing /\ refunds[r].status # "cancelled"
    BY DEF Live, Existing, Final
  <2>2. r \in Existing' /\ refunds'[r].status # "cancelled"
    BY <1>1, <2>1
  <2>3. refunds'[r].status # "succeeded"
    BY <2>2 DEF StripesWord, RowsFollowStripe, Untouched, Existing
  <2> QED
    BY <2>2, <2>3 DEF Live, Existing, Final
<1>3. ASSUME NEW w \in Workers
      PROVE  /\ worker[w].step \in Holding \ {"fresh"}
                  => refunds'[worker[w].row].status # "cancelled"
             /\ At(w, "complete") => Live' # {} \/ foreign' >= Owed
  <2>1. worker[w].step \in Holding => worker[w].row \in Existing
    BY DEF StripesWord, WorkersHoldRows
  <2> QED
    BY <1>0, <1>1, <1>2, <2>1 DEF NobodyBetweenRows
<1> QED
  BY <1>0, <1>3 DEF NobodyBetweenRows, At, Owed

\* Nothing has gone through, or enough has: an invariant of every run in which
\* Stripe decides at once and, for a partial refund, one process works alone and
\* reaches Stripe.
LEMMA StepKeepsAllOrNothing ==
  ASSUME Decided, Decision = NoDecision \/ Sequential,
         StripesWord, Amounts, AllOrNothing, [Next]_vars
  PROVE  AllOrNothing'
<1>1. CASE PaidBack
  BY <1>1, PaidBackStays DEF AllOrNothing
<1>2. CASE Untouched /\ (Decision = NoDecision \/ NobodyBetweenRows)
  <2>1. Untouched' \/ PaidBack'
    <3>1. CASE UNCHANGED vars
      BY <1>2, <3>1 DEF vars, database, stripe, Untouched, Existing, Exists, Owed
    <3> QED
      BY <1>2, <3>1, WorkLeavesUntouched, EventsLeaveUntouched, StripeLeavesUntouched DEF Next
  <2>2. ASSUME Decision # NoDecision, Untouched' PROVE NobodyBetweenRows'
    <3>1. StripesWord'
      BY StepKeepsWord
    <3>2. CASE UNCHANGED vars
      BY <1>2, <2>2, <3>2
      DEF vars, database, stripe, NobodyBetweenRows, Live, Exists, At, Owed
    <3> QED
      BY <1>2, <2>2, <3>1, <3>2, WorkStaysBetweenRows, EventsStayBetweenRows DEF Next
  <2> QED
    BY <2>1, <2>2 DEF AllOrNothing
<1> QED
  BY <1>1, <1>2 DEF AllOrNothing

\* The declaration becomes effective only once Stripe has given back what is owed,
\* whatever crashes, answers are lost or refunds are made in the dashboard: for a
\* full refund with any number of processes, for a partial one with a single
\* process that can look the payment up.
THEOREM EffectiveIsRefunded ==
  ASSUME Decided, Decision = NoDecision \/ Sequential
  PROVE  Spec => []EffectiveMeansRefunded
<1>1. Init => Amounts /\ AllOrNothing
  <2> SUFFICES ASSUME Init PROVE Amounts /\ AllOrNothing
    OBVIOUS
  <2>1. Amounts
    BY RefundsAssumption DEF Init, Amounts
  <2>2. Existing = {}
    BY DEF Init, Existing, Exists
  <2>3. Untouched
    BY <2>2 DEF Init, Untouched
  <2>4. NobodyBetweenRows
    BY DEF Init, NobodyBetweenRows, Idle, Process, Holding, At
  <2> QED
    BY <2>1, <2>3, <2>4 DEF AllOrNothing
<1>2. StripesWord /\ Amounts /\ AllOrNothing /\ [Next]_vars => Amounts' /\ AllOrNothing'
  <2> SUFFICES ASSUME StripesWord, Amounts, AllOrNothing, [Next]_vars
               PROVE  Amounts' /\ AllOrNothing'
    OBVIOUS
  <2>1. CASE UNCHANGED vars
    BY <2>1, StepKeepsAllOrNothing DEF vars, database, stripe, Amounts
  <2> QED
    BY <2>1, WorkKeepsAmounts, EventsKeepAmounts, StripeKeepsAmounts, StepKeepsAllOrNothing
    DEF Next
<1>3. StripesWord /\ Amounts /\ AllOrNothing => EffectiveMeansRefunded
  BY AllOrNothingMeansRefunded
<1> QED
  BY <1>1, <1>2, <1>3, WordIsKept, PTL DEF Spec
===============================================================================
