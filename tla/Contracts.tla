------------------------------ MODULE Contracts ------------------------------
(***************************************************************************)
(* An annual contract with a monthly continuation (billing/contracts.py,   *)
(* stripe_service.py): the subscription schedule that turns the year into  *)
(* months, the customer's cancellation and withdrawal, the transition      *)
(* guard, the daily batch, and the webhooks that write Stripe's word into  *)
(* the local subscription.                                                 *)
(*                                                                         *)
(* Time is counted in billing periods: period 1 is the paid year, every    *)
(* later one a month. Stripe starts the next period only after the events  *)
(* of the last one were delivered and the daily batch has had its way:     *)
(* both retry for weeks.                                                   *)
(***************************************************************************)
EXTENDS Integers, FiniteSets

CONSTANTS
  Workers,     \* requests, webhooks and batch runs under way at once
  MaxPeriod,   \* bound: billing periods
  Faults,      \* what may happen, see below
  NoEvent

ASSUME ContractsAssumption ==
  /\ MaxPeriod \in Nat \ {0}
  /\ Faults \subseteq
       {"crash",            \* a process ends between two steps
        "provider",         \* a call to Stripe fails
        "unpaid",           \* an invoice is not paid
        "cancel_over",      \* a withdrawn or ended contract is cancelled: nothing refuses it
        "later_end",        \* a cancellation asks for a later end than this period's
        "stale_row",        \* a job runs between another's read of the contract and its save
        "late_webhook",     \* a job reads a subscription row that lacks the period Stripe is in
        "read_committed"}   \* a withdrawal runs between a webhook's check and its write

VARIABLES
  contract,      \* Contract row
  sub,           \* Subscription row
  cancellation,  \* Declaration of kind cancellation
  withdrawal,    \* status of the Declaration of kind withdrawal
  granted,       \* periods whose allowance was granted
  live,          \* those whose grant still has tokens
  worker,        \* what each process is doing
  clock,         \* the billing period it is
  remote,        \* Stripe: the subscription and its schedule
  paid,          \* Stripe: periods whose invoice was paid
  events         \* Stripe: events not yet processed

rows   == <<contract, sub, cancellation, withdrawal, granted, live>>
stripe == <<clock, remote, paid, events>>
vars   == <<rows, worker, stripe>>

Periods == 1 .. MaxPeriod

ContractRow ==
  [status   : {"active", "cancellation_scheduled", "withdrawn", "ended"},
   phase    : {"initial", "continuation"},
   schedule : {"pending", "created", "failed", "cancelled", "released"},
   attached : BOOLEAN,            \* stripe_schedule_id is set
   until    : 0 .. MaxPeriod]     \* cancel_effective_at: the end of this period
SubscriptionRow ==
  [status : {"active", "past_due", "canceled"},
   period : 0 .. MaxPeriod,       \* current_period_end: the end of this period, or past
   ending : BOOLEAN]              \* cancel_at_period_end
Snapshot ==
  [status : {"active", "past_due", "canceled"}, period : Periods,
   price : {"annual", "monthly"}, ending : BOOLEAN]
Event == [kind : {"updated", "deleted", "paid", "failed", "listed"}, of : Snapshot]
ASSUME NoEventAssumption == NoEvent \notin Event

Remote ==
  [of : Snapshot, due : BOOLEAN,
   schedule : {"none", "attached", "release", "cancel", "released"}]

Steps == {"idle", "write", "create", "modify", "latest", "cut", "undo", "keep",
          "fail", "cancel", "scheduled", "review", "accept", "stop", "stopped", "revoke",
          "guarded"}

\* `seen`: the contract row the process has read; `event`: what it handles;
\* `until`: the end of a cancellation
Worker == [step : Steps, seen : ContractRow, event : Event \cup {NoEvent},
           until : 0 .. MaxPeriod]

Bought == [status |-> "active", phase |-> "initial", schedule |-> "pending",
           attached |-> FALSE, until |-> 0]
Idle == [step |-> "idle", seen |-> Bought, event |-> NoEvent, until |-> 0]

TypeOK ==
  /\ contract \in ContractRow
  /\ sub \in SubscriptionRow
  /\ cancellation \in [status : {"none", "received", "needs_review", "scheduled",
                                 "effective"}, until : 0 .. MaxPeriod]
  /\ withdrawal \in {"none", "received", "needs_review", "accepted", "effective"}
  /\ granted \subseteq Periods
  /\ live \subseteq granted
  /\ worker \in [Workers -> Worker]
  /\ clock \in Periods
  /\ remote \in Remote
  /\ paid \subseteq Periods
  /\ events \subseteq Event

\* the paid checkout has been processed: purchase, contract, first allowance
Init ==
  /\ contract = Bought
  /\ sub = [status |-> "active", period |-> 1, ending |-> FALSE]
  /\ cancellation = [status |-> "none", until |-> 0]
  /\ withdrawal = "none"
  /\ granted = {1}
  /\ live = {1}
  /\ worker = [w \in Workers |-> Idle]
  /\ clock = 1
  /\ remote = [of |-> [status |-> "active", period |-> 1, price |-> "annual",
                       ending |-> FALSE],
               due |-> FALSE, schedule |-> "none"]
  /\ paid = {1}
  /\ events = {}

At(w, step)   == worker[w].step = step
Goto(w, step) == worker' = [worker EXCEPT ![w].step = step]
Leave(w)      == worker' = [worker EXCEPT ![w] = Idle]
Start(w, step) == worker' = [worker EXCEPT ![w] = [Idle EXCEPT !.step = step]]
Reading(w, step) ==
  worker' = [worker EXCEPT ![w] = [Idle EXCEPT !.step = step, !.seen = contract]]

\* a job holds a row it has read and will save
Holding(w) == worker[w].step \in {"cancel", "scheduled", "review", "guarded"}
Fresh(w)   == "stale_row" \in Faults \/ \A v \in Workers \ {w} : ~ Holding(v)
Free(w)    == At(w, "idle") /\ Fresh(w)
\* the subscription row shows the period Stripe is in, or no event will change that
Pending == (events \cup {worker[w].event : w \in Workers}) \ {NoEvent}
Current == "late_webhook" \in Faults \/ \A e \in Pending : e.of.period <= sub.period
\* nothing locks a withdrawal out of a webhook: the purchase it locks is not one yet
Undisturbed == "read_committed" \in Faults \/ \A w \in Workers : ~ At(w, "write")

-----------------------------------------------------------------------------
(* Stripe *)

Managed  == {"attached", "release", "cancel"}
Canceled == remote.of.status = "canceled"
ProviderMayFail == "provider" \in Faults

Emitting(kind, of) == events' = events \cup {[kind |-> kind, of |-> of]}

\* the subscription changes and Stripe says so
Change(of, schedule) ==
  /\ remote' = [remote EXCEPT !.of = of, !.schedule = schedule]
  /\ IF of = remote.of THEN UNCHANGED events
     ELSE Emitting(IF of.status = "canceled" THEN "deleted" ELSE "updated", of)
  /\ UNCHANGED <<clock, paid>>

\* Subscription.modify(cancel_at_period_end)
EndAtPeriodEnd ==
  ~ Canceled /\ Change([remote.of EXCEPT !.ending = TRUE], remote.schedule)

CancelNow ==
  Change([remote.of EXCEPT !.status = "canceled"],
         IF remote.schedule \in Managed THEN "released" ELSE remote.schedule)

\* SubscriptionSchedule.modify: both phases and release, or phase 1 and cancel
PhasesOpen ==
  ~ Canceled /\ remote.schedule \in Managed /\ remote.of.price = "annual"

ModifyPhases(schedule) ==
  PhasesOpen /\ Change([remote.of EXCEPT !.ending = FALSE], schedule)

-----------------------------------------------------------------------------
(* create_continuation_schedule: on_commit of the purchase, or the batch *)

Unscheduled == contract.schedule \in {"pending", "failed"}

ScheduleSteps == {"create", "modify", "latest", "cut", "undo", "keep", "fail"}

BeginSchedule(w) ==
  /\ Free(w)
  /\ Unscheduled
  /\ "stale_row" \in Faults \/ \A v \in Workers : worker[v].step \notin ScheduleSteps
  /\ Start(w, "create")
  /\ UNCHANGED <<rows, stripe>>

\* the idempotency key returns the schedule an earlier attempt created
CreateSchedule(w) ==
  /\ At(w, "create") /\ Fresh(w)
  /\ \/ /\ remote.schedule # "none" \/ ~ Canceled
        /\ Change(remote.of,
                  IF remote.schedule = "none" THEN "attached" ELSE remote.schedule)
        /\ Goto(w, "modify")
     \/ /\ ProviderMayFail \/ (remote.schedule = "none" /\ Canceled)
        /\ Goto(w, "fail")
        /\ UNCHANGED stripe
  /\ UNCHANGED rows

\* the answer to a change Stripe made may be lost
ModifySchedule(w) ==
  /\ At(w, "modify") /\ Fresh(w)
  /\ \/ ModifyPhases("release") /\ Goto(w, "latest")
     \/ ProviderMayFail /\ ModifyPhases("release") /\ Goto(w, "fail")
     \/ /\ ProviderMayFail \/ ~ PhasesOpen
        /\ Goto(w, "fail")
        /\ UNCHANGED stripe
  /\ UNCHANGED rows

BugLatest(w) ==
  /\ At(w, "latest") /\ Fresh(w)
  /\ Goto(w, IF contract.status = "withdrawn" THEN "undo" ELSE "keep")
  /\ UNCHANGED <<rows, stripe>>
\* the contract is read again after the calls
LatestContract(w) ==
  /\ At(w, "latest") /\ Fresh(w)
  /\ Goto(w, CASE contract.status = "withdrawn" -> "undo"
               [] contract.status = "cancellation_scheduled" /\ contract.until <= 1 -> "cut"
               [] OTHER -> "keep")
  /\ UNCHANGED <<rows, stripe>>

StoreSchedule(status) ==
  /\ contract' = [contract EXCEPT !.schedule = status, !.attached = TRUE]
  /\ UNCHANGED <<sub, cancellation, withdrawal, granted, live>>

\* withdrawn meanwhile: release and cancel, whatever Stripe says
UndoSchedule(w) ==
  /\ At(w, "undo") /\ Fresh(w)
  /\ CancelNow \/ (ProviderMayFail /\ UNCHANGED stripe)
  /\ StoreSchedule("cancelled")
  /\ Leave(w)

\* cancelled meanwhile: the schedule ends with the year
CutSchedule(w) ==
  /\ At(w, "cut") /\ Fresh(w)
  /\ \/ ModifyPhases("cancel") /\ StoreSchedule("created")
     \/ /\ ProviderMayFail \/ ~ PhasesOpen
        /\ UNCHANGED stripe
        /\ StoreSchedule("failed")
  /\ Leave(w)

KeepSchedule(w) ==
  /\ At(w, "keep") /\ Fresh(w)
  /\ StoreSchedule("created")
  /\ Leave(w)
  /\ UNCHANGED stripe

FailSchedule(w) ==
  /\ At(w, "fail") /\ Fresh(w)
  /\ contract' = [contract EXCEPT !.schedule = "failed"]
  /\ Leave(w)
  /\ UNCHANGED <<sub, cancellation, withdrawal, granted, live, stripe>>

-----------------------------------------------------------------------------
(* Cancellation *)

\* create_owner_declaration, or the operator's decision on a queued one: the
\* contract is read and its lock given back
BeginCancellation(w) ==
  /\ Free(w)
  /\ "cancel_over" \in Faults \/ contract.status \in {"active", "cancellation_scheduled"}
  /\ cancellation.status \in {"none", "received", "needs_review"}
  /\ cancellation' = [cancellation EXCEPT !.status = "received"]
  /\ Reading(w, "cancel")
  /\ UNCHANGED <<contract, sub, withdrawal, granted, live, stripe>>

BugConfirming(w, until) ==
  worker' = [worker EXCEPT ![w] = [Idle EXCEPT !.step = "scheduled", !.until = until + 1]]
Confirming(w, until) ==
  worker' = [worker EXCEPT ![w] = [Idle EXCEPT !.step = "scheduled", !.until = until]]

\* apply_cancellation: a later end waits, the end of this period goes to Stripe
CancelAtStripe(w) ==
  LET seen  == worker[w].seen
      phase == seen.phase = "initial" /\ seen.attached /\ seen.schedule = "created"
  IN
  /\ At(w, "cancel") /\ Fresh(w) /\ Current
  /\ \/ "later_end" \in Faults /\ \E until \in (sub.period + 1) .. MaxPeriod :
          /\ Confirming(w, until)
          /\ UNCHANGED <<sub, stripe>>
     \/ /\ IF phase THEN ModifyPhases("cancel") ELSE EndAtPeriodEnd
        /\ sub' = [sub EXCEPT !.ending = TRUE]
        /\ Confirming(w, sub.period)
     \/ /\ ProviderMayFail \/ (IF phase THEN ~ PhasesOpen ELSE Canceled)
        /\ Start(w, "review")
        /\ UNCHANGED <<sub, stripe>>
  /\ UNCHANGED <<contract, cancellation, withdrawal, granted, live>>

\* saved whatever the contract has become since it was read
StoreCancellation(w) ==
  LET until == worker[w].until IN
  /\ At(w, "scheduled") /\ Fresh(w)
  /\ cancellation' = [status |-> "scheduled", until |-> until]
  /\ contract' = [contract EXCEPT !.status = "cancellation_scheduled", !.until = until]
  /\ Leave(w)
  /\ UNCHANGED <<sub, withdrawal, granted, live, stripe>>

ReviewCancellation(w) ==
  /\ At(w, "review") /\ Fresh(w)
  /\ cancellation' = [cancellation EXCEPT !.status = "needs_review"]
  /\ Leave(w)
  /\ UNCHANGED <<contract, sub, withdrawal, granted, live, stripe>>

-----------------------------------------------------------------------------
(* billing_process_declarations: schedules and withdrawals first, then ends   *)
(* that are due, then contracts that still have no schedule                 *)

ToResume == withdrawal = "accepted" /\ contract.status = "withdrawn"
Resumed == ToResume => ProviderMayFail \/ (sub.status = "canceled" /\ live = {})

Batch ==
  /\ Current
  /\ "stale_row" \in Faults \/ \A w \in Workers : ~ Holding(w)

\* apply_due_cancellations: the period is over, or Stripe has ended it
Over == sub.status = "canceled" \/ sub.period < clock

EndDue ==
  /\ Batch /\ Resumed
  /\ cancellation.status = "scheduled"
  /\ Over
  /\ cancellation' = [cancellation EXCEPT !.status = "effective"]
  /\ sub' = [sub EXCEPT !.status = "canceled",
                        !.ending = sub.status = "canceled" /\ sub.ending]
  /\ contract' = [contract EXCEPT !.status = "ended"]
  /\ UNCHANGED <<withdrawal, granted, live, worker, stripe>>

\* a later end is the end of this period now
DueNow ==
  /\ cancellation.status = "scheduled"
  /\ sub.status # "canceled"
  /\ sub.period = clock
  /\ sub.period >= cancellation.until
  /\ ~ (sub.ending /\ contract.until = sub.period)

ApplyDue ==
  /\ Batch /\ Resumed
  /\ DueNow
  /\ EndAtPeriodEnd
  /\ sub' = [sub EXCEPT !.ending = TRUE]
  /\ cancellation' = [cancellation EXCEPT !.until = sub.period]
  /\ contract' = [contract EXCEPT !.until = sub.period]
  /\ UNCHANGED <<withdrawal, granted, live, worker>>

\* run_transition_guard, in the last days of the year
InGuard == contract.status = "active" /\ contract.phase = "initial" /\ clock = 1

DoubtSchedule ==
  /\ Batch /\ InGuard
  /\ contract.schedule = "created"
  /\ ProviderMayFail \/ remote.schedule \notin Managed
  /\ contract' = [contract EXCEPT !.schedule = "failed"]
  /\ UNCHANGED <<sub, cancellation, withdrawal, granted, live, worker, stripe>>

BugToGuard == InGuard /\ contract.schedule = "pending"
ToGuard == InGuard /\ Unscheduled

BeginGuard(w) ==
  /\ Free(w) /\ ToGuard
  /\ EndAtPeriodEnd
  /\ Start(w, "guarded")
  /\ UNCHANGED rows

StoreGuard(w) ==
  /\ At(w, "guarded") /\ Fresh(w)
  /\ contract' = [contract EXCEPT !.status = "cancellation_scheduled", !.until = sub.period]
  /\ sub' = [sub EXCEPT !.ending = TRUE]
  /\ Leave(w)
  /\ UNCHANGED <<cancellation, withdrawal, granted, live, stripe>>

-----------------------------------------------------------------------------
(* Withdrawal *)

\* the declaration is committed first; an open one is returned instead
BeginWithdrawal(w) ==
  /\ Free(w)
  /\ withdrawal \in {"none", "needs_review"}
  /\ withdrawal' = "received"
  /\ Reading(w, "accept")
  /\ UNCHANGED <<contract, sub, cancellation, granted, live, stripe>>

\* of the row it reads, the stop uses whether a schedule is attached
Stopping(w) ==
  worker' = [worker EXCEPT ![w] = [Idle EXCEPT !.step = "stop",
                                               !.seen.attached = contract.attached]]

Accept(w) ==
  /\ withdrawal' = "accepted"
  /\ contract' = [contract EXCEPT !.status = "withdrawn"]
  /\ Stopping(w)

\* apply_withdrawal: the fourteen days lie in the first period
DecideWithdrawal(w) ==
  /\ At(w, "accept") /\ Fresh(w) /\ Undisturbed
  /\ \/ /\ worker[w].seen.status \in {"active", "cancellation_scheduled"}
        /\ clock = 1
        /\ Accept(w)
     \/ withdrawal' = "needs_review" /\ Leave(w) /\ UNCHANGED contract
  /\ UNCHANGED <<sub, cancellation, granted, live, stripe>>

\* the operator accepts a declaration that is neither resolved nor being handled
AcceptByOperator(w) ==
  /\ Free(w) /\ Undisturbed
  /\ withdrawal \in {"received", "needs_review", "accepted"}
  /\ \A v \in Workers : ~ At(v, "accept")
  /\ Accept(w)
  /\ UNCHANGED <<sub, cancellation, granted, live, stripe>>

BugResume(w) ==
  /\ Free(w)
  /\ withdrawal = "received"
  /\ Stopping(w)
  /\ UNCHANGED <<rows, stripe>>
ResumeWithdrawal(w) ==
  /\ Free(w)
  /\ ToResume
  /\ Stopping(w)
  /\ UNCHANGED <<rows, stripe>>

\* _stop_future_charges: an already canceled subscription is fine
StopCharges(w) ==
  /\ At(w, "stop") /\ Fresh(w)
  /\ CancelNow
  /\ Goto(w, "stopped")
  /\ UNCHANGED rows

StopFails(w) ==
  /\ At(w, "stop") /\ Fresh(w)
  /\ ProviderMayFail
  /\ Leave(w)
  /\ UNCHANGED <<rows, stripe>>

StoreStop(w) ==
  /\ At(w, "stopped") /\ Fresh(w) /\ Undisturbed
  /\ contract' = IF worker[w].seen.attached
                 THEN [contract EXCEPT !.schedule = "released"] ELSE contract
  /\ sub' = [status |-> "canceled", period |-> 0, ending |-> FALSE]
  /\ Start(w, "revoke")
  /\ UNCHANGED <<cancellation, withdrawal, granted, live, stripe>>

\* the grants are taken back; the refunds (module Refunds) are through, or not yet
RevokeAndRefund(w) ==
  /\ At(w, "revoke") /\ Fresh(w) /\ Undisturbed
  /\ live' = {}
  /\ withdrawal' \in {withdrawal, "effective"}
  /\ Leave(w)
  /\ UNCHANGED <<contract, sub, cancellation, granted, stripe>>

-----------------------------------------------------------------------------
(* Webhooks and reconciliation: process_stripe_event *)

BugSettled(of) ==
  contract.status = "cancellation_scheduled" /\ of.period > contract.until
\* _upsert_subscription: what it must not touch
Settled(of) ==
  \/ withdrawal \in {"accepted", "effective"}
  \/ contract.status \in {"withdrawn", "ended"}
  \/ contract.status = "cancellation_scheduled" /\ of.period > contract.until

\* checked against the contract as it is now, written later
Handling(w, event) ==
  IF Settled(event.of) THEN UNCHANGED worker
  ELSE worker' = [worker EXCEPT ![w] =
         [Idle EXCEPT !.step = "write", !.event = event,
                      !.seen.status = contract.status, !.seen.until = contract.until]]

\* invoice.paid retrieves the subscription as it is now
TakeEvent(w) == \E e \in events :
  /\ At(w, "idle")
  /\ e.kind # "failed"
  /\ events' = events \ {e}
  /\ Handling(w, IF e.kind = "paid" THEN [e EXCEPT !.of = remote.of] ELSE e)
  /\ UNCHANGED <<rows, clock, remote, paid>>

\* billing_reconcile: what Stripe lists is handled like an update
ListSubscription(w) ==
  /\ At(w, "idle") /\ ~ Canceled
  /\ Handling(w, [kind |-> "listed", of |-> remote.of])
  /\ UNCHANGED <<rows, stripe>>

PaymentFailed == \E e \in events :
  /\ e.kind = "failed"
  /\ events' = events \ {e}
  /\ sub' = [sub EXCEPT !.status = "past_due"]
  /\ UNCHANGED <<contract, cancellation, withdrawal, granted, live, worker,
                 clock, remote, paid>>

BugGrants(event) == event.of.status = "active"
\* an allowance comes with the payment, not with the renewal
Grants(event) == event.kind = "paid" /\ event.of.status = "active"

WriteSubscription(w) ==
  LET seen  == worker[w].seen
      of    == worker[w].event.of
      bound == seen.status = "cancellation_scheduled"
      ends  == bound /\ of.status = "canceled"
      grant == Grants(worker[w].event) /\ of.period \notin granted
  IN
  /\ At(w, "write")
  /\ sub' = [status |-> of.status, period |-> of.period,
             ending |-> of.ending \/ (bound /\ of.period = seen.until)]
  /\ contract' = [contract EXCEPT
                    !.status = IF ends THEN "ended" ELSE @,
                    !.phase = IF of.price = "monthly" THEN "continuation" ELSE @]
  /\ cancellation' = [cancellation EXCEPT
                        !.status = IF ends /\ @ = "scheduled" THEN "effective" ELSE @]
  /\ granted' = IF grant THEN granted \cup {of.period} ELSE granted
  /\ live' = IF grant THEN live \cup {of.period} ELSE live
  /\ Leave(w)
  /\ UNCHANGED <<withdrawal, stripe>>

\* a transaction is rolled back and its event delivered again; jobs just stop
Crash(w) ==
  /\ "crash" \in Faults
  /\ ~ At(w, "idle")
  /\ LET e == worker[w].event IN
     events' = IF e = NoEvent \/ e.kind = "listed" THEN events ELSE events \cup {e}
  /\ Leave(w)
  /\ UNCHANGED <<rows, clock, remote, paid>>

-----------------------------------------------------------------------------
(* Stripe's time *)

\* a period is long: every event is delivered, every job done, the batch has had
\* an answer to what it must do before the end
Quiet ==
  /\ \A w \in Workers : At(w, "idle")
  /\ "late_webhook" \in Faults \/ events = {}
  /\ ~ remote.due
  /\ ~ Canceled => /\ clock = 1 /\ Unscheduled => ProviderMayFail /\ contract.schedule = "failed"
                   /\ ~ DueNow
                   /\ ~ ToGuard
                   /\ ~ ToResume
                   /\ ~ (Unscheduled /\ remote.schedule = "release" /\ ~ remote.of.ending)

Ending == remote.of.ending \/ remote.schedule = "cancel"

NextPeriod ==
  /\ Quiet
  /\ clock < MaxPeriod
  /\ clock' = clock + 1
  /\ IF Canceled THEN UNCHANGED <<remote, events>>
     ELSE IF Ending
     THEN LET of == [remote.of EXCEPT !.status = "canceled"] IN
          /\ remote' = [remote EXCEPT !.of = of, !.schedule = "released"]
          /\ Emitting("deleted", of)
     ELSE LET second == remote.schedule = "release" /\ remote.of.price = "annual"
              of     == [remote.of EXCEPT !.period = @ + 1,
                                          !.price = IF second THEN "monthly" ELSE @]
          IN
          /\ remote' = [of |-> of, due |-> TRUE,
                        schedule |-> IF second \/ remote.schedule = "none"
                                     THEN remote.schedule ELSE "released"]
          /\ Emitting("updated", of)
  /\ UNCHANGED <<rows, worker, paid>>

PayInvoice ==
  /\ remote.due /\ ~ Canceled
  /\ LET of == [remote.of EXCEPT !.status = "active"] IN
     /\ remote' = [remote EXCEPT !.of = of, !.due = FALSE]
     /\ Emitting("paid", of)
  /\ paid' = paid \cup {remote.of.period}
  /\ UNCHANGED <<rows, worker, clock>>

FailInvoice ==
  /\ "unpaid" \in Faults
  /\ remote.due /\ remote.of.status = "active"
  /\ LET of == [remote.of EXCEPT !.status = "past_due"] IN
     /\ remote' = [remote EXCEPT !.of = of]
     /\ Emitting("failed", of)
  /\ UNCHANGED <<rows, worker, clock, paid>>

\* Stripe's retries are used up
GiveUp ==
  /\ remote.due /\ remote.of.status = "past_due"
  /\ LET of == [remote.of EXCEPT !.status = "canceled"] IN
     /\ remote' = [remote EXCEPT !.of = of, !.due = FALSE]
     /\ Emitting("deleted", of)
  /\ UNCHANGED <<rows, worker, clock, paid>>

-----------------------------------------------------------------------------

Continue(w) ==
  \/ CreateSchedule(w) \/ ModifySchedule(w) \/ LatestContract(w)
  \/ UndoSchedule(w) \/ CutSchedule(w) \/ KeepSchedule(w) \/ FailSchedule(w)
  \/ CancelAtStripe(w) \/ StoreCancellation(w) \/ ReviewCancellation(w)
  \/ StoreGuard(w)
  \/ DecideWithdrawal(w) \/ StopCharges(w) \/ StopFails(w) \/ StoreStop(w)
  \/ RevokeAndRefund(w)
  \/ WriteSubscription(w)

Begin(w) ==
  \/ BeginSchedule(w) \/ BeginCancellation(w) \/ BeginGuard(w)
  \/ BeginWithdrawal(w) \/ AcceptByOperator(w) \/ ResumeWithdrawal(w)
  \/ TakeEvent(w) \/ ListSubscription(w)

Next ==
  \/ \E w \in Workers : Begin(w) \/ Continue(w) \/ Crash(w)
  \/ EndDue \/ ApplyDue \/ DoubtSchedule \/ PaymentFailed
  \/ NextPeriod \/ PayInvoice \/ FailInvoice \/ GiveUp

Spec == Init /\ [][Next]_vars

\* Some process that lives goes on, the batch resumes withdrawals every day, and
\* Stripe answers in the end; nobody has to cancel, pay or let time pass.
FairSpec ==
  /\ Spec
  /\ WF_vars(\E w \in Workers : Continue(w))
  /\ SF_vars(\E w \in Workers : StopCharges(w))
  /\ SF_vars(\E w \in Workers : ResumeWithdrawal(w))

-----------------------------------------------------------------------------
(* Properties *)

\* A confirmed end holds: Stripe never starts a period after it, whatever
\* schedules, webhooks and batch runs came between (contracts.py: "so the
\* continuation never starts").
ConfirmedEndHolds ==
  contract.status = "cancellation_scheduled" => remote.of.period <= contract.until

\* No contract is renewed at the annual price: it has its monthly schedule, or the
\* transition guard or its owner has ended it.
NeverAnnualTwice ==
  remote.of.period > 1 => remote.of.price = "monthly"

\* An allowance is granted only for a period whose invoice was paid.
AllowanceIsPaid == granted \subseteq paid

\* After a completed withdrawal there is no access and no grant left, whatever
\* events come after it.
Access == sub.status \in {"active", "past_due"} /\ sub.period >= clock
AccessEnds == withdrawal = "effective" => ~ Access /\ live = {}

\* A contract is recorded as ended only when Stripe charges no more; one with an
\* accepted withdrawal is still to be stopped.
EndedIsStopped ==
  contract.status = "ended" /\ withdrawal # "accepted" => Canceled

\* What is over is over on both sides: for the user, and at Stripe
\* (apply_withdrawal, apply_due_cancellations).
EndIsEnd == AccessEnds /\ EndedIsStopped

\* An accepted withdrawal stops the charges in the end, unless a cancellation
\* replaces the status the batch resumes it by.
WithdrawalStopsCharges ==
  (withdrawal = "accepted") ~> (Canceled \/ cancellation.status # "none")
=============================================================================
