--------------------------- MODULE Contracts_proofs ---------------------------
(***************************************************************************)
(* Proofs about Contracts: an allowance is granted for a paid period only,  *)
(* a confirmed end is the end, the annual price is charged once, and what   *)
(* is over is over on both sides, whichever jobs, webhooks, failures and    *)
(* crashes came between.                                                    *)
(***************************************************************************)
EXTENDS Contracts, TLAPS

Schedules == {"none", "attached", "release", "cancel", "released"}

\* What the calls of a job do at Stripe: the period and the price stay, a canceled
\* subscription stays canceled, and every event says what Stripe holds now.
Speaks ==
  /\ clock' = clock /\ paid' = paid
  /\ remote' \in Remote
  /\ remote'.of.period = remote.of.period /\ remote'.of.price = remote.of.price
  /\ remote'.of.status \in {remote.of.status, "canceled"}
  /\ events \subseteq events' /\ events' \subseteq Event
  /\ \A e \in events' : e \in events \/ (e.of = remote'.of /\ e.kind # "paid")

Decided == withdrawal \in {"accepted", "effective"}
Doing(w, steps) == worker[w].step \in steps

\* A process has an event exactly while it is about to write it.
Writers == \A w \in Workers : At(w, "write") <=> worker[w].event # NoEvent

\* Stripe will not go on after this period, or will go on with months.
Ends == Canceled \/ remote.of.ending \/ remote.schedule = "cancel"
Opens == remote.schedule = "release" \/ Ends

\* What Stripe was told about the end is not taken back.
Spares == /\ Ends => Ends'
          /\ remote.schedule = "release" => Opens'

\* A job: every step of a process but those of a webhook and the crash.
Job(w) ==
  \/ BeginSchedule(w) \/ CreateSchedule(w) \/ ModifySchedule(w) \/ LatestContract(w)
  \/ UndoSchedule(w) \/ CutSchedule(w) \/ KeepSchedule(w) \/ FailSchedule(w)
  \/ BeginCancellation(w) \/ CancelAtStripe(w) \/ StoreCancellation(w)
  \/ ReviewCancellation(w) \/ BeginGuard(w) \/ StoreGuard(w)
  \/ BeginWithdrawal(w) \/ DecideWithdrawal(w) \/ AcceptByOperator(w)
  \/ ResumeWithdrawal(w) \/ StopCharges(w) \/ StopFails(w) \/ StoreStop(w)
  \/ RevokeAndRefund(w)

\* How a job goes on: from one of these steps to one of those, alone, with no event.
Moves(w, from, to) ==
  /\ worker[w].step \in from /\ worker'[w].step \in to
  /\ worker' \in [Workers -> Worker] /\ worker'[w].event = NoEvent
  /\ \A v \in Workers : v # w => worker'[v] = worker[v]

-----------------------------------------------------------------------------
(* Types *)

\* A process that has nothing to do is well-formed.
LEMMA IdleType == Idle \in Worker
<1>1. Bought \in ContractRow
  BY ContractsAssumption DEF Bought, ContractRow
<1> QED
  BY <1>1, ContractsAssumption DEF Idle, Worker, Steps

\* A process whose next step is another one is well-formed.
LEMMA GotoType ==
  ASSUME TypeOK, NEW w \in Workers, NEW step \in Steps, Goto(w, step)
  PROVE  /\ worker' \in [Workers -> Worker]
         /\ worker'[w].step = step /\ worker'[w].event = worker[w].event
         /\ worker'[w].seen = worker[w].seen /\ worker'[w].until = worker[w].until
         /\ \A v \in Workers : v # w => worker'[v] = worker[v]
<1>1. worker[w] \in Worker
  BY DEF TypeOK
<1>2. [worker[w] EXCEPT !.step = step] \in Worker
  BY <1>1 DEF Worker
<1>3. worker' = [worker EXCEPT ![w] = [worker[w] EXCEPT !.step = step]]
  BY DEF Goto
<1> QED
  BY <1>1, <1>2, <1>3 DEF TypeOK, Worker

\* A process that becomes another well-formed one leaves the rest alone.
LEMMA BecomeType ==
  ASSUME TypeOK, NEW w \in Workers, NEW next \in Worker,
         worker' = [worker EXCEPT ![w] = next]
  PROVE  /\ worker' \in [Workers -> Worker] /\ worker'[w] = next
         /\ \A v \in Workers : v # w => worker'[v] = worker[v]
  BY DEF TypeOK

\* A process that ends, or begins with nothing read.
LEMMA LeaveType ==
  ASSUME TypeOK, NEW w \in Workers, Leave(w)
  PROVE  /\ worker' \in [Workers -> Worker] /\ worker'[w].step = "idle"
         /\ worker'[w].event = NoEvent
         /\ \A v \in Workers : v # w => worker'[v] = worker[v]
  BY IdleType, BecomeType DEF Leave, Idle

LEMMA StartType ==
  ASSUME TypeOK, NEW w \in Workers, NEW step \in Steps, Start(w, step)
  PROVE  /\ worker' \in [Workers -> Worker] /\ worker'[w].step = step
         /\ worker'[w].event = NoEvent
         /\ \A v \in Workers : v # w => worker'[v] = worker[v]
<1>1. [Idle EXCEPT !.step = step] \in Worker
  BY IdleType DEF Worker
<1>2. [Idle EXCEPT !.step = step].step = step /\ [Idle EXCEPT !.step = step].event = NoEvent
  BY DEF Idle
<1> QED
  BY <1>1, <1>2, BecomeType DEF Start

\* A process that begins with the contract it reads.
LEMMA ReadingType ==
  ASSUME TypeOK, NEW w \in Workers, NEW step \in Steps, Reading(w, step)
  PROVE  /\ worker' \in [Workers -> Worker] /\ worker'[w].step = step
         /\ worker'[w].event = NoEvent
         /\ \A v \in Workers : v # w => worker'[v] = worker[v]
<1> DEFINE next == [Idle EXCEPT !.step = step, !.seen = contract]
<1>1. next \in Worker
  BY IdleType DEF Worker, TypeOK
<1>2. next.step = step /\ next.event = NoEvent
  BY DEF Idle
<1>3. worker' = [worker EXCEPT ![w] = next]
  BY DEF Reading
<1> HIDE DEF next
<1> QED
  BY <1>1, <1>2, <1>3, BecomeType

LEMMA StoppingType ==
  ASSUME TypeOK, NEW w \in Workers, Stopping(w)
  PROVE  /\ worker' \in [Workers -> Worker] /\ worker'[w].step = "stop"
         /\ worker'[w].event = NoEvent
         /\ \A v \in Workers : v # w => worker'[v] = worker[v]
<1> DEFINE next == [Idle EXCEPT !.step = "stop", !.seen.attached = contract.attached]
<1>1. contract.attached \in BOOLEAN
  BY DEF TypeOK, ContractRow
<1>2. [Idle.seen EXCEPT !.attached = contract.attached] \in ContractRow
  BY <1>1, IdleType DEF Worker, ContractRow
<1>3. next = [Idle EXCEPT !.step = "stop",
                          !.seen = [Idle.seen EXCEPT !.attached = contract.attached]]
  BY DEF Idle
<1>4. next \in Worker
  BY <1>2, <1>3, IdleType DEF Worker, Steps
<1>5. next.step = "stop" /\ next.event = NoEvent
  BY DEF Idle
<1>6. worker' = [worker EXCEPT ![w] = next]
  BY DEF Stopping
<1> HIDE DEF next
<1> QED
  BY <1>4, <1>5, <1>6, BecomeType

LEMMA ConfirmingType ==
  ASSUME TypeOK, NEW w \in Workers, NEW until \in 0 .. MaxPeriod, Confirming(w, until)
  PROVE  /\ worker' \in [Workers -> Worker] /\ worker'[w].step = "scheduled"
         /\ worker'[w].event = NoEvent /\ worker'[w].until = until
         /\ \A v \in Workers : v # w => worker'[v] = worker[v]
<1> DEFINE next == [Idle EXCEPT !.step = "scheduled", !.until = until]
<1>1. next \in Worker
  BY IdleType DEF Worker, Steps
<1>2. next.step = "scheduled" /\ next.event = NoEvent /\ next.until = until
  BY DEF Idle
<1>3. worker' = [worker EXCEPT ![w] = next]
  BY DEF Confirming
<1> HIDE DEF next
<1> QED
  BY <1>1, <1>2, <1>3, BecomeType

\* A webhook that passes its check has the event to write.
LEMMA HandlingType ==
  ASSUME TypeOK, NEW w \in Workers, NEW event \in Event, Handling(w, event),
         ~ Settled(event.of)
  PROVE  /\ worker' \in [Workers -> Worker] /\ worker'[w].step = "write"
         /\ worker'[w].event = event
         /\ \A v \in Workers : v # w => worker'[v] = worker[v]
<1> DEFINE seen == [Idle.seen EXCEPT !.status = contract.status, !.until = contract.until]
           next == [Idle EXCEPT !.step = "write", !.event = event, !.seen = seen]
<1>1. Idle.seen \in ContractRow /\ contract \in ContractRow
  BY IdleType DEF Worker, TypeOK
<1>2. seen \in ContractRow
  BY <1>1 DEF ContractRow
<1>3. next \in Worker
  BY <1>2, IdleType DEF Worker, Steps
<1>4. next.step = "write" /\ next.event = event
  BY DEF Idle
<1>5. next = [Idle EXCEPT !.step = "write", !.event = event,
                          !.seen.status = contract.status, !.seen.until = contract.until]
  BY DEF Idle
<1>6. worker' = [worker EXCEPT ![w] = next]
  BY <1>5 DEF Handling
<1> HIDE DEF next
<1> QED
  BY <1>3, <1>4, <1>6, BecomeType

-----------------------------------------------------------------------------
(* Calls to Stripe *)

\* A change of the subscription that keeps its period and its price, and that does
\* not bring a canceled one back, is reported by events that say so.
LEMMA ChangeSpeaks ==
  ASSUME TypeOK, NEW of \in Snapshot, NEW schedule \in Schedules, Change(of, schedule),
         of.period = remote.of.period, of.price = remote.of.price,
         of.status \in {remote.of.status, "canceled"}
  PROVE  /\ Speaks
         /\ remote'.of = of /\ remote'.schedule = schedule /\ remote'.due = remote.due
<1>1. remote \in Remote /\ events \subseteq Event
  BY DEF TypeOK
<1>2. remote' = [remote EXCEPT !.of = of, !.schedule = schedule]
  BY DEF Change
<1>3. remote' \in Remote /\ remote'.of = of /\ remote'.schedule = schedule
      /\ remote'.due = remote.due
  BY <1>1, <1>2 DEF Remote, Schedules
<1>4. PICK kind \in {"updated", "deleted"} :
        events' = events \/ events' = events \cup {[kind |-> kind, of |-> of]}
  BY DEF Change, Emitting
<1>5. [kind |-> kind, of |-> of] \in Event
  BY DEF Event
<1>6. \A e \in events' : e \in events \/ (e.of = remote'.of /\ e.kind # "paid")
  BY <1>3, <1>4
<1>7. clock' = clock /\ paid' = paid
  BY DEF Change
<1> QED
  BY <1>1, <1>3, <1>4, <1>5, <1>6, <1>7 DEF Speaks

LEMMA EndAtPeriodEndSpeaks ==
  ASSUME TypeOK, EndAtPeriodEnd
  PROVE  /\ Speaks /\ ~ Canceled
         /\ remote'.of.ending = TRUE /\ remote'.of.status = remote.of.status
         /\ remote'.schedule = remote.schedule
<1> DEFINE of == [remote.of EXCEPT !.ending = TRUE]
<1>1. remote.of \in Snapshot /\ remote.schedule \in Schedules
  BY DEF TypeOK, Remote, Schedules
<1>2. of \in Snapshot
  BY <1>1 DEF Snapshot
<1>3. of.ending = TRUE /\ of.status = remote.of.status
      /\ of.period = remote.of.period /\ of.price = remote.of.price
  BY <1>1 DEF Snapshot
<1>4. ~ Canceled /\ Change(of, remote.schedule)
  BY DEF EndAtPeriodEnd
<1> HIDE DEF of
<1> QED
  BY <1>1, <1>2, <1>3, <1>4, ChangeSpeaks

LEMMA CancelNowSpeaks ==
  ASSUME TypeOK, CancelNow
  PROVE  Speaks /\ Canceled'
<1> DEFINE of == [remote.of EXCEPT !.status = "canceled"]
           schedule == IF remote.schedule \in Managed THEN "released" ELSE remote.schedule
<1>1. remote.of \in Snapshot /\ schedule \in Schedules
  BY DEF TypeOK, Remote, Schedules
<1>2. of \in Snapshot
  BY <1>1 DEF Snapshot
<1>3. of.status = "canceled" /\ of.period = remote.of.period /\ of.price = remote.of.price
  BY <1>1 DEF Snapshot
<1>4. Change(of, schedule)
  BY DEF CancelNow
<1> HIDE DEF of, schedule
<1> QED
  BY <1>1, <1>2, <1>3, <1>4, ChangeSpeaks DEF Canceled

LEMMA ModifyPhasesSpeaks ==
  ASSUME TypeOK, NEW schedule \in {"release", "cancel"}, ModifyPhases(schedule)
  PROVE  /\ Speaks /\ PhasesOpen
         /\ remote'.of.ending = FALSE /\ remote'.of.status = remote.of.status
         /\ remote'.schedule = schedule
<1> DEFINE of == [remote.of EXCEPT !.ending = FALSE]
<1>1. remote.of \in Snapshot /\ schedule \in Schedules
  BY DEF TypeOK, Remote, Schedules
<1>2. of \in Snapshot
  BY <1>1 DEF Snapshot
<1>3. of.ending = FALSE /\ of.status = remote.of.status
      /\ of.period = remote.of.period /\ of.price = remote.of.price
  BY <1>1 DEF Snapshot
<1>4. PhasesOpen /\ Change(of, schedule)
  BY DEF ModifyPhases
<1> HIDE DEF of
<1> QED
  BY <1>1, <1>2, <1>3, <1>4, ChangeSpeaks

LEMMA CreateSpeaks ==
  ASSUME TypeOK,
         Change(remote.of, IF remote.schedule = "none" THEN "attached" ELSE remote.schedule)
  PROVE  /\ Speaks /\ remote'.of = remote.of
         /\ remote'.schedule = remote.schedule
            \/ (remote.schedule = "none" /\ remote'.schedule = "attached")
<1> DEFINE schedule == IF remote.schedule = "none" THEN "attached" ELSE remote.schedule
<1>1. remote.of \in Snapshot /\ schedule \in Schedules
  BY DEF TypeOK, Remote, Schedules
<1>2. schedule = remote.schedule \/ (remote.schedule = "none" /\ schedule = "attached")
  OBVIOUS
<1>3. Change(remote.of, schedule)
  OBVIOUS
<1> HIDE DEF schedule
<1> QED
  BY <1>1, <1>2, <1>3, ChangeSpeaks

LEMMA SilenceSpeaks ==
  ASSUME TypeOK, UNCHANGED stripe
  PROVE  Speaks /\ remote' = remote /\ events' = events
<1>1. clock' = clock /\ remote' = remote /\ paid' = paid /\ events' = events
  BY DEF stripe
<1>2. remote \in Remote /\ events \subseteq Event
  BY DEF TypeOK
<1> QED
  BY <1>1, <1>2 DEF Speaks

-----------------------------------------------------------------------------
(* The jobs *)

LEMMA GotoMoves ==
  ASSUME TypeOK, Writers, NEW w \in Workers, NEW from \in Steps \ {"write"},
         NEW step \in Steps, At(w, from), Goto(w, step)
  PROVE  Moves(w, {from}, {step})
  BY GotoType DEF Moves, Writers, At

LEMMA LeaveMoves ==
  ASSUME TypeOK, NEW w \in Workers, NEW from, At(w, from), Leave(w)
  PROVE  Moves(w, {from}, {"idle"})
  BY LeaveType DEF Moves, At

LEMMA StartMoves ==
  ASSUME TypeOK, NEW w \in Workers, NEW from, NEW step \in Steps, At(w, from),
         Start(w, step)
  PROVE  Moves(w, {from}, {step})
  BY StartType DEF Moves, At

\* The steps of the schedule, ...
LEMMA ScheduleMoves ==
  ASSUME TypeOK, Writers, NEW w \in Workers
  PROVE  /\ BeginSchedule(w)  => Moves(w, {"idle"}, {"create"})
         /\ CreateSchedule(w) => Moves(w, {"create"}, {"modify", "fail"})
         /\ ModifySchedule(w) => Moves(w, {"modify"}, {"latest", "fail"})
         /\ LatestContract(w) => Moves(w, {"latest"}, {"undo", "cut", "keep"})
         /\ UndoSchedule(w)   => Moves(w, {"undo"}, {"idle"})
         /\ CutSchedule(w)    => Moves(w, {"cut"}, {"idle"})
         /\ KeepSchedule(w)   => Moves(w, {"keep"}, {"idle"})
         /\ FailSchedule(w)   => Moves(w, {"fail"}, {"idle"})
<1> USE DEF Steps
<1>0. \A from, to : Moves(w, {from}, {to}) => \A more : to \in more => Moves(w, {from}, more)
  BY DEF Moves
<1>1. BeginSchedule(w) => Moves(w, {"idle"}, {"create"})
  BY StartMoves DEF BeginSchedule, Free
<1>2. CreateSchedule(w) => Moves(w, {"create"}, {"modify", "fail"})
  <2> SUFFICES ASSUME CreateSchedule(w) PROVE Moves(w, {"create"}, {"modify", "fail"})
    OBVIOUS
  <2>1. At(w, "create") /\ (Goto(w, "modify") \/ Goto(w, "fail"))
    BY DEF CreateSchedule
  <2>2. Moves(w, {"create"}, {"modify"}) \/ Moves(w, {"create"}, {"fail"})
    BY <2>1, GotoMoves
  <2> QED
    BY <2>2, <1>0
<1>3. ModifySchedule(w) => Moves(w, {"modify"}, {"latest", "fail"})
  <2> SUFFICES ASSUME ModifySchedule(w) PROVE Moves(w, {"modify"}, {"latest", "fail"})
    OBVIOUS
  <2>1. At(w, "modify") /\ (Goto(w, "latest") \/ Goto(w, "fail"))
    BY DEF ModifySchedule
  <2>2. Moves(w, {"modify"}, {"latest"}) \/ Moves(w, {"modify"}, {"fail"})
    BY <2>1, GotoMoves
  <2> QED
    BY <2>2, <1>0
<1>4. LatestContract(w) => Moves(w, {"latest"}, {"undo", "cut", "keep"})
  <2> SUFFICES ASSUME LatestContract(w)
               PROVE  Moves(w, {"latest"}, {"undo", "cut", "keep"})
    OBVIOUS
  <2>1. At(w, "latest") /\ (Goto(w, "undo") \/ Goto(w, "cut") \/ Goto(w, "keep"))
    BY DEF LatestContract
  <2>2. \/ Moves(w, {"latest"}, {"undo"}) \/ Moves(w, {"latest"}, {"cut"})
        \/ Moves(w, {"latest"}, {"keep"})
    BY <2>1, GotoMoves
  <2> QED
    BY <2>2, <1>0
<1>5. UndoSchedule(w) => Moves(w, {"undo"}, {"idle"})
  BY LeaveMoves DEF UndoSchedule
<1>6. CutSchedule(w) => Moves(w, {"cut"}, {"idle"})
  BY LeaveMoves DEF CutSchedule
<1>7. KeepSchedule(w) => Moves(w, {"keep"}, {"idle"})
  BY LeaveMoves DEF KeepSchedule
<1>8. FailSchedule(w) => Moves(w, {"fail"}, {"idle"})
  BY LeaveMoves DEF FailSchedule
<1> QED
  BY <1>1, <1>2, <1>3, <1>4, <1>5, <1>6, <1>7, <1>8

\* ... of a cancellation and the guard, ...
LEMMA CancellationMoves ==
  ASSUME TypeOK, Writers, NEW w \in Workers
  PROVE  /\ BeginCancellation(w)  => Moves(w, {"idle"}, {"cancel"})
         /\ CancelAtStripe(w)     => Moves(w, {"cancel"}, {"scheduled", "review"})
         /\ StoreCancellation(w)  => Moves(w, {"scheduled"}, {"idle"})
         /\ ReviewCancellation(w) => Moves(w, {"review"}, {"idle"})
         /\ BeginGuard(w)         => Moves(w, {"idle"}, {"guarded"})
         /\ StoreGuard(w)         => Moves(w, {"guarded"}, {"idle"})
<1>1. BeginCancellation(w) => Moves(w, {"idle"}, {"cancel"})
  BY ReadingType DEF BeginCancellation, Free, At, Moves, Steps
<1>2. CancelAtStripe(w) => Moves(w, {"cancel"}, {"scheduled", "review"})
  <2> SUFFICES ASSUME CancelAtStripe(w)
               PROVE  Moves(w, {"cancel"}, {"scheduled", "review"})
    OBVIOUS
  <2>1. sub.period \in 0 .. MaxPeriod
    BY DEF TypeOK, SubscriptionRow
  <2>2. \A u \in (sub.period + 1) .. MaxPeriod : u \in 0 .. MaxPeriod
    BY <2>1, ContractsAssumption
  <2>3. At(w, "cancel") /\ (Start(w, "review") \/ \E u \in 0 .. MaxPeriod : Confirming(w, u))
    BY <2>1, <2>2 DEF CancelAtStripe
  <2>4. CASE Start(w, "review")
    BY <2>3, <2>4, StartType DEF Moves, At, Steps
  <2>5. CASE \E u \in 0 .. MaxPeriod : Confirming(w, u)
    BY <2>3, <2>5, ConfirmingType DEF Moves, At
  <2> QED
    BY <2>3, <2>4, <2>5
<1>3. StoreCancellation(w) => Moves(w, {"scheduled"}, {"idle"})
  BY LeaveMoves DEF StoreCancellation
<1>4. ReviewCancellation(w) => Moves(w, {"review"}, {"idle"})
  BY LeaveMoves DEF ReviewCancellation
<1>5. BeginGuard(w) => Moves(w, {"idle"}, {"guarded"})
  BY StartMoves DEF BeginGuard, Free, Steps
<1>6. StoreGuard(w) => Moves(w, {"guarded"}, {"idle"})
  BY LeaveMoves DEF StoreGuard
<1> QED
  BY <1>1, <1>2, <1>3, <1>4, <1>5, <1>6

\* ... and of a withdrawal.
LEMMA WithdrawalMoves ==
  ASSUME TypeOK, Writers, NEW w \in Workers
  PROVE  /\ BeginWithdrawal(w)  => Moves(w, {"idle"}, {"accept"})
         /\ DecideWithdrawal(w) => Moves(w, {"accept"}, {"stop", "idle"})
         /\ AcceptByOperator(w) => Moves(w, {"idle"}, {"stop"})
         /\ ResumeWithdrawal(w) => Moves(w, {"idle"}, {"stop"})
         /\ StopCharges(w)      => Moves(w, {"stop"}, {"stopped"})
         /\ StopFails(w)        => Moves(w, {"stop"}, {"idle"})
         /\ StoreStop(w)        => Moves(w, {"stopped"}, {"revoke"})
         /\ RevokeAndRefund(w)  => Moves(w, {"revoke"}, {"idle"})
<1> USE DEF Steps
<1>1. BeginWithdrawal(w) => Moves(w, {"idle"}, {"accept"})
  BY ReadingType DEF BeginWithdrawal, Free, At, Moves
<1>2. DecideWithdrawal(w) => Moves(w, {"accept"}, {"stop", "idle"})
  BY StoppingType, LeaveType DEF DecideWithdrawal, Accept, At, Moves
<1>3. AcceptByOperator(w) => Moves(w, {"idle"}, {"stop"})
  BY StoppingType DEF AcceptByOperator, Accept, Free, At, Moves
<1>4. ResumeWithdrawal(w) => Moves(w, {"idle"}, {"stop"})
  BY StoppingType DEF ResumeWithdrawal, Free, At, Moves
<1>5. StopCharges(w) => Moves(w, {"stop"}, {"stopped"})
  BY GotoMoves DEF StopCharges
<1>6. StopFails(w) => Moves(w, {"stop"}, {"idle"})
  BY LeaveMoves DEF StopFails
<1>7. StoreStop(w) => Moves(w, {"stopped"}, {"revoke"})
  BY StartMoves DEF StoreStop
<1>8. RevokeAndRefund(w) => Moves(w, {"revoke"}, {"idle"})
  BY LeaveMoves DEF RevokeAndRefund
<1> QED
  BY <1>1, <1>2, <1>3, <1>4, <1>5, <1>6, <1>7, <1>8

\* Whatever a job asks of Stripe, and whether or not it gets an answer, only the
\* phases with the release take an end back.
LEMMA JobSpeaks ==
  ASSUME TypeOK, NEW w \in Workers, Job(w)
  PROVE  /\ Speaks
         /\ ModifySchedule(w) \/ Spares
<1>1. CASE UNCHANGED stripe
  <2>1. Speaks /\ remote' = remote
    BY <1>1, SilenceSpeaks
  <2> QED
    BY <2>1 DEF Spares, Opens, Ends, Canceled
<1>2. CASE EndAtPeriodEnd
  BY <1>2, EndAtPeriodEndSpeaks DEF Spares, Opens, Ends, Canceled
<1>3. CASE CancelNow
  BY <1>3, CancelNowSpeaks DEF Spares, Opens, Ends
<1>4. CASE ModifyPhases("cancel")
  BY <1>4, ModifyPhasesSpeaks DEF Spares, Opens, Ends
<1>5. CASE ModifySchedule(w) /\ ModifyPhases("release")
  BY <1>5, ModifyPhasesSpeaks
<1>6. CASE CreateSchedule(w) /\ ~ UNCHANGED stripe
  <2>1. /\ Speaks /\ remote'.of = remote.of
        /\ remote'.schedule = remote.schedule
           \/ (remote.schedule = "none" /\ remote'.schedule = "attached")
    BY <1>6, CreateSpeaks DEF CreateSchedule
  <2> QED
    BY <2>1 DEF Spares, Opens, Ends, Canceled
<1>7. \/ UNCHANGED stripe \/ EndAtPeriodEnd \/ CancelNow \/ ModifyPhases("cancel")
      \/ ModifySchedule(w) /\ ModifyPhases("release")
      \/ CreateSchedule(w)
  <2>1. ASSUME \/ BeginSchedule(w) \/ LatestContract(w) \/ KeepSchedule(w)
               \/ FailSchedule(w) \/ BeginCancellation(w) \/ StoreCancellation(w)
               \/ ReviewCancellation(w) \/ StoreGuard(w) \/ BeginWithdrawal(w)
               \/ DecideWithdrawal(w) \/ AcceptByOperator(w) \/ ResumeWithdrawal(w)
               \/ StopFails(w) \/ StoreStop(w) \/ RevokeAndRefund(w)
        PROVE  UNCHANGED stripe
    BY <2>1 DEF BeginSchedule, LatestContract, KeepSchedule, FailSchedule, BeginCancellation,
       StoreCancellation, ReviewCancellation, StoreGuard, BeginWithdrawal,
       DecideWithdrawal, AcceptByOperator, ResumeWithdrawal, StopFails, StoreStop,
       RevokeAndRefund
  <2>2. ModifySchedule(w) => UNCHANGED stripe \/ ModifyPhases("release")
    BY DEF ModifySchedule
  <2>3. CutSchedule(w) => UNCHANGED stripe \/ ModifyPhases("cancel")
    BY DEF CutSchedule
  <2>4. UndoSchedule(w) \/ StopCharges(w) => UNCHANGED stripe \/ CancelNow
    BY DEF UndoSchedule, StopCharges
  <2>5. CancelAtStripe(w) => UNCHANGED stripe \/ ModifyPhases("cancel") \/ EndAtPeriodEnd
    BY DEF CancelAtStripe
  <2>6. BeginGuard(w) => EndAtPeriodEnd
    BY DEF BeginGuard
  <2> QED
    BY <2>1, <2>2, <2>3, <2>4, <2>5, <2>6 DEF Job
<1> QED
  BY <1>1, <1>2, <1>3, <1>4, <1>5, <1>6, <1>7

\* A job moves alone and leaves no event to a process.
LEMMA JobMoves ==
  ASSUME TypeOK, Writers, NEW w \in Workers, Job(w)
  PROVE  \E from, to : "write" \notin to /\ Moves(w, from, to)
  BY ScheduleMoves, CancellationMoves, WithdrawalMoves DEF Job

\* The rows a job writes are well-formed.
LEMMA JobRowsTyped ==
  ASSUME TypeOK, NEW w \in Workers, Job(w)
  PROVE  /\ contract' \in ContractRow
         /\ sub' \in SubscriptionRow
         /\ cancellation' \in [status : {"none", "received", "needs_review", "scheduled",
                                         "effective"}, until : 0 .. MaxPeriod]
         /\ withdrawal' \in {"none", "received", "needs_review", "accepted", "effective"}
         /\ granted' \subseteq Periods /\ live' \subseteq granted'
<1>1. sub.period \in 0 .. MaxPeriod /\ worker[w].until \in 0 .. MaxPeriod
  BY DEF TypeOK, SubscriptionRow, Worker
<1>2. contract' \in ContractRow
  <2>1. ASSUME NEW status \in {"created", "failed", "cancelled"}, StoreSchedule(status)
        PROVE  contract' \in ContractRow
    BY <2>1 DEF StoreSchedule, TypeOK, ContractRow
  <2>2. UndoSchedule(w) \/ CutSchedule(w) \/ KeepSchedule(w) => contract' \in ContractRow
    BY <2>1 DEF UndoSchedule, CutSchedule, KeepSchedule
  <2>3. FailSchedule(w) => contract' \in ContractRow
    BY DEF FailSchedule, TypeOK, ContractRow
  <2>4. StoreCancellation(w) \/ StoreGuard(w) => contract' \in ContractRow
    BY <1>1 DEF StoreCancellation, StoreGuard, TypeOK, ContractRow
  <2>5. DecideWithdrawal(w) \/ AcceptByOperator(w) => contract' \in ContractRow
    BY DEF DecideWithdrawal, AcceptByOperator, Accept, TypeOK, ContractRow
  <2>6. StoreStop(w) => contract' \in ContractRow
    BY DEF StoreStop, TypeOK, ContractRow
  <2>7. ASSUME \/ BeginSchedule(w) \/ CreateSchedule(w) \/ ModifySchedule(w)
               \/ LatestContract(w) \/ BeginCancellation(w) \/ CancelAtStripe(w)
               \/ ReviewCancellation(w) \/ BeginGuard(w) \/ BeginWithdrawal(w)
               \/ ResumeWithdrawal(w) \/ StopCharges(w) \/ StopFails(w)
               \/ RevokeAndRefund(w)
        PROVE  contract' \in ContractRow
    BY <2>7 DEF BeginSchedule, CreateSchedule, ModifySchedule, LatestContract,
       BeginCancellation, CancelAtStripe, ReviewCancellation, BeginGuard,
       BeginWithdrawal, ResumeWithdrawal, StopCharges, StopFails, RevokeAndRefund,
       rows, TypeOK
  <2> QED
    BY <2>2, <2>3, <2>4, <2>5, <2>6, <2>7 DEF Job
<1>3. sub' \in SubscriptionRow
  <2>1. sub' = [sub EXCEPT !.ending = TRUE] => sub' \in SubscriptionRow
    BY DEF TypeOK, SubscriptionRow
  <2>2. sub' = [status |-> "canceled", period |-> 0, ending |-> FALSE]
          => sub' \in SubscriptionRow
    BY ContractsAssumption DEF SubscriptionRow
  <2>3. \/ sub' = sub \/ sub' = [sub EXCEPT !.ending = TRUE]
        \/ sub' = [status |-> "canceled", period |-> 0, ending |-> FALSE]
    BY DEF Job, BeginSchedule, CreateSchedule, ModifySchedule, LatestContract,
       UndoSchedule, CutSchedule, KeepSchedule, FailSchedule, StoreSchedule,
       BeginCancellation, CancelAtStripe, StoreCancellation, ReviewCancellation,
       BeginGuard, StoreGuard, BeginWithdrawal, DecideWithdrawal, AcceptByOperator,
       ResumeWithdrawal, StopCharges, StopFails, StoreStop, RevokeAndRefund, rows
  <2> QED
    BY <2>1, <2>2, <2>3 DEF TypeOK
<1>4. cancellation' \in [status : {"none", "received", "needs_review", "scheduled",
                                   "effective"}, until : 0 .. MaxPeriod]
  <2>1. \/ cancellation' = cancellation
        \/ \E status \in {"received", "needs_review"} :
             cancellation' = [cancellation EXCEPT !.status = status]
        \/ cancellation' = [status |-> "scheduled", until |-> worker[w].until]
    BY DEF Job, BeginSchedule, CreateSchedule, ModifySchedule, LatestContract,
       UndoSchedule, CutSchedule, KeepSchedule, FailSchedule, StoreSchedule,
       BeginCancellation, CancelAtStripe, StoreCancellation, ReviewCancellation,
       BeginGuard, StoreGuard, BeginWithdrawal, DecideWithdrawal, AcceptByOperator,
       ResumeWithdrawal, StopCharges, StopFails, StoreStop, RevokeAndRefund, rows
  <2> QED
    BY <1>1, <2>1 DEF TypeOK
<1>5. withdrawal' \in {"none", "received", "needs_review", "accepted", "effective"}
  BY DEF TypeOK, Job, BeginSchedule, CreateSchedule, ModifySchedule, LatestContract,
     UndoSchedule, CutSchedule, KeepSchedule, FailSchedule, StoreSchedule,
     BeginCancellation, CancelAtStripe, StoreCancellation, ReviewCancellation,
     BeginGuard, StoreGuard, BeginWithdrawal, DecideWithdrawal, AcceptByOperator, Accept,
     ResumeWithdrawal, StopCharges, StopFails, StoreStop, RevokeAndRefund, rows
<1>6. granted' = granted /\ (live' = live \/ live' = {})
  BY DEF Job, BeginSchedule, CreateSchedule, ModifySchedule, LatestContract,
     UndoSchedule, CutSchedule, KeepSchedule, FailSchedule, StoreSchedule,
     BeginCancellation, CancelAtStripe, StoreCancellation, ReviewCancellation,
     BeginGuard, StoreGuard, BeginWithdrawal, DecideWithdrawal, AcceptByOperator,
     ResumeWithdrawal, StopCharges, StopFails, StoreStop, RevokeAndRefund, rows
<1> QED
  BY <1>2, <1>3, <1>4, <1>5, <1>6 DEF TypeOK

-----------------------------------------------------------------------------
(* Webhooks, the batch, and Stripe's time *)

\* Who takes an event has one Stripe sent, or what Stripe says now: dropped when
\* the row is settled, else to be written.
Takes(w, event) ==
  /\ event \in Event
  /\ worker[w].step = "idle" /\ worker' \in [Workers -> Worker]
  /\ \A v \in Workers : v # w => worker'[v] = worker[v]
  /\ \/ Settled(event.of) /\ worker'[w] = worker[w]
     \/ ~ Settled(event.of) /\ worker'[w].step = "write" /\ worker'[w].event = event

LEMMA HandlingTakes ==
  ASSUME TypeOK, NEW w \in Workers, NEW event \in Event, At(w, "idle"), Handling(w, event)
  PROVE  Takes(w, event)
<1>1. CASE Settled(event.of)
  BY <1>1 DEF Handling, Takes, At, TypeOK
<1>2. CASE ~ Settled(event.of)
  BY <1>2, HandlingType DEF Takes, At
<1> QED
  BY <1>1, <1>2

LEMMA EventTaken ==
  ASSUME TypeOK, NEW w \in Workers, TakeEvent(w)
  PROVE  \E e \in events, event \in Event :
           /\ Takes(w, event) /\ events' = events \ {e}
           /\ event.kind = e.kind /\ e.kind # "failed"
           /\ event.of = e.of \/ event.of = remote.of
<1>1. PICK e \in events :
        /\ At(w, "idle") /\ e.kind # "failed" /\ events' = events \ {e}
        /\ Handling(w, IF e.kind = "paid" THEN [e EXCEPT !.of = remote.of] ELSE e)
  BY DEF TakeEvent
<1>2. e \in Event /\ remote.of \in Snapshot
  BY DEF TypeOK, Remote
<1>3. CASE e.kind = "paid"
  <2> DEFINE event == [e EXCEPT !.of = remote.of]
  <2>1. event \in Event /\ event.kind = e.kind /\ event.of = remote.of
    BY <1>2 DEF Event
  <2>2. Handling(w, event)
    BY <1>1, <1>3
  <2> HIDE DEF event
  <2>3. Takes(w, event)
    BY <1>1, <2>1, <2>2, HandlingTakes
  <2> QED
    BY <1>1, <2>1, <2>3
<1>4. CASE e.kind # "paid"
  <2>1. Handling(w, e)
    BY <1>1, <1>4
  <2>2. Takes(w, e)
    BY <1>1, <1>2, <2>1, HandlingTakes
  <2> QED
    BY <1>1, <1>2, <2>2
<1> QED
  BY <1>3, <1>4

LEMMA ListingTaken ==
  ASSUME TypeOK, NEW w \in Workers, ListSubscription(w)
  PROVE  \E event \in Event :
           /\ Takes(w, event) /\ event.kind = "listed" /\ event.of = remote.of
           /\ UNCHANGED stripe
<1> DEFINE event == [kind |-> "listed", of |-> remote.of]
<1>1. event \in Event /\ event.kind = "listed" /\ event.of = remote.of
  BY DEF TypeOK, Remote, Event
<1>2. At(w, "idle") /\ Handling(w, event) /\ UNCHANGED stripe
  BY DEF ListSubscription
<1> HIDE DEF event
<1> QED
  BY <1>1, <1>2, HandlingTakes

\* What a webhook writes is what its event says.
LEMMA WrittenRows ==
  ASSUME TypeOK, Writers, NEW w \in Workers, WriteSubscription(w)
  PROVE  \E event \in Event :
           /\ worker[w].event = event /\ worker[w].step = "write" /\ event # NoEvent
           /\ Leave(w) /\ UNCHANGED stripe /\ withdrawal' = withdrawal
           /\ sub' \in SubscriptionRow
           /\ sub'.status = event.of.status /\ sub'.period = event.of.period
           /\ contract' \in ContractRow
           /\ contract'.schedule = contract.schedule /\ contract'.until = contract.until
           /\ contract'.phase = contract.phase
              \/ (contract'.phase = "continuation" /\ event.of.price = "monthly")
           /\ contract'.status = contract.status
              \/ (contract'.status = "ended" /\ event.of.status = "canceled")
           /\ cancellation' \in [status : {"none", "received", "needs_review",
                                           "scheduled", "effective"}, until : 0 .. MaxPeriod]
           /\ cancellation'.status \in {cancellation.status, "effective"}
           /\ \/ granted' = granted /\ live' = live
              \/ /\ event.kind = "paid"
                 /\ granted' = granted \cup {event.of.period}
                 /\ live' = live \cup {event.of.period}
<1> DEFINE event == worker[w].event
           of == event.of
           bound == worker[w].seen.status = "cancellation_scheduled"
           ends == bound /\ of.status = "canceled"
<1>1. At(w, "write") /\ event \in Event /\ event # NoEvent
  BY DEF WriteSubscription, Writers, TypeOK, Worker
<1>2. of \in Snapshot /\ of.period \in 0 .. MaxPeriod
  BY <1>1, ContractsAssumption DEF Event, Snapshot, Periods
<1>3. /\ sub' \in SubscriptionRow /\ sub'.status = of.status /\ sub'.period = of.period
  <2>1. sub' = [status |-> of.status, period |-> of.period,
                ending |-> of.ending \/ (bound /\ of.period = worker[w].seen.until)]
    BY DEF WriteSubscription
  <2>2. (of.ending \/ (bound /\ of.period = worker[w].seen.until)) \in BOOLEAN
    BY <1>2 DEF Snapshot
  <2>3. of.status \in {"active", "past_due", "canceled"}
    BY <1>2 DEF Snapshot
  <2> HIDE DEF bound, of
  <2> QED
    BY <1>2, <2>1, <2>2, <2>3 DEF SubscriptionRow
<1>4. contract' = [contract EXCEPT
                    !.status = IF ends THEN "ended" ELSE @,
                    !.phase = IF of.price = "monthly" THEN "continuation" ELSE @]
  BY DEF WriteSubscription
<1>5. /\ contract' \in ContractRow
      /\ contract'.schedule = contract.schedule /\ contract'.until = contract.until
      /\ contract'.phase = contract.phase
         \/ (contract'.phase = "continuation" /\ of.price = "monthly")
      /\ contract'.status = contract.status \/ (contract'.status = "ended" /\ ends)
  <2> HIDE DEF of, ends
  <2> QED
    BY <1>4 DEF TypeOK, ContractRow
<1>6. cancellation' = [cancellation EXCEPT
                        !.status = IF ends /\ @ = "scheduled" THEN "effective" ELSE @]
  BY DEF WriteSubscription
<1>7. /\ cancellation' \in [status : {"none", "received", "needs_review", "scheduled",
                                      "effective"}, until : 0 .. MaxPeriod]
      /\ cancellation'.status \in {cancellation.status, "effective"}
  <2> HIDE DEF ends
  <2> QED
    BY <1>6 DEF TypeOK
<1>8. \/ granted' = granted /\ live' = live
      \/ /\ event.kind = "paid"
         /\ granted' = granted \cup {event.of.period}
         /\ live' = live \cup {event.of.period}
  BY DEF WriteSubscription, Grants
<1>9. Leave(w) /\ UNCHANGED stripe /\ withdrawal' = withdrawal
  BY DEF WriteSubscription
<1> HIDE DEF ends
<1>10. ends => of.status = "canceled"
  BY DEF ends
<1> QED
  BY <1>1, <1>3, <1>5, <1>7, <1>8, <1>9, <1>10 DEF At

\* A crash leaves a process idle; the event of a webhook is delivered again.
LEMMA CrashedRows ==
  ASSUME TypeOK, NEW w \in Workers, Crash(w)
  PROVE  /\ Leave(w) /\ UNCHANGED rows
         /\ clock' = clock /\ remote' = remote /\ paid' = paid
         /\ \/ events' = events
               /\ (worker[w].event = NoEvent \/ worker[w].event.kind = "listed")
            \/ worker[w].event # NoEvent /\ events' = events \cup {worker[w].event}
         /\ events' \subseteq Event
  BY DEF Crash, TypeOK, Worker

\* The batch writes rows, and may ask Stripe for the end of the period.
LEMMA BatchRows ==
  ASSUME TypeOK, EndDue \/ ApplyDue \/ DoubtSchedule
  PROVE  /\ Speaks /\ Spares /\ worker' = worker
         /\ contract' \in ContractRow /\ sub' \in SubscriptionRow
         /\ cancellation' \in [status : {"none", "received", "needs_review",
                                         "scheduled", "effective"}, until : 0 .. MaxPeriod]
         /\ withdrawal' = withdrawal /\ granted' = granted /\ live' = live
         /\ contract'.phase = contract.phase /\ sub'.period = sub.period
<1>0. sub \in SubscriptionRow /\ contract \in ContractRow /\ sub.period \in 0 .. MaxPeriod
  BY DEF TypeOK, SubscriptionRow
<1>1. CASE EndDue
  <2>1. Speaks /\ remote' = remote
    BY <1>1, SilenceSpeaks DEF EndDue
  <2>2. sub' = [sub EXCEPT !.status = "canceled",
                           !.ending = sub.status = "canceled" /\ sub.ending]
    BY <1>1 DEF EndDue
  <2>3. (sub.status = "canceled" /\ sub.ending) \in BOOLEAN
    BY <1>0 DEF SubscriptionRow
  <2>4. sub' \in SubscriptionRow /\ sub'.period = sub.period
    BY <1>0, <2>2, <2>3 DEF SubscriptionRow
  <2>5. contract' \in ContractRow /\ contract'.phase = contract.phase
    BY <1>0, <1>1 DEF EndDue, ContractRow
  <2>6. cancellation' \in [status : {"none", "received", "needs_review",
                                     "scheduled", "effective"}, until : 0 .. MaxPeriod]
    BY <1>1 DEF EndDue, TypeOK
  <2> QED
    BY <1>1, <2>1, <2>4, <2>5, <2>6 DEF EndDue, Spares, Opens, Ends, Canceled
<1>2. CASE ApplyDue
  <2>1. EndAtPeriodEnd
    BY <1>2 DEF ApplyDue
  <2>2. Speaks /\ Spares
    BY <2>1, EndAtPeriodEndSpeaks DEF Spares, Opens, Ends, Canceled
  <2>3. sub' \in SubscriptionRow /\ sub'.period = sub.period
    BY <1>0, <1>2 DEF ApplyDue, SubscriptionRow
  <2>4. contract' \in ContractRow /\ contract'.phase = contract.phase
    BY <1>0, <1>2 DEF ApplyDue, ContractRow
  <2>5. cancellation' \in [status : {"none", "received", "needs_review",
                                     "scheduled", "effective"}, until : 0 .. MaxPeriod]
    BY <1>0, <1>2 DEF ApplyDue, TypeOK
  <2> QED
    BY <1>2, <2>2, <2>3, <2>4, <2>5 DEF ApplyDue
<1>3. CASE DoubtSchedule
  <2>1. Speaks /\ remote' = remote
    BY <1>3, SilenceSpeaks DEF DoubtSchedule
  <2>2. contract' \in ContractRow /\ contract'.phase = contract.phase
    BY <1>0, <1>3 DEF DoubtSchedule, ContractRow
  <2> QED
    BY <1>0, <1>3, <2>1, <2>2 DEF DoubtSchedule, TypeOK, Spares, Opens, Ends, Canceled
<1> QED
  BY <1>1, <1>2, <1>3

\* The first failed payment only marks the row as past due.
LEMMA PaymentFailedRows ==
  ASSUME TypeOK, PaymentFailed
  PROVE  /\ UNCHANGED <<contract, cancellation, withdrawal, granted, live, worker,
                        clock, remote, paid>>
         /\ sub' \in SubscriptionRow /\ sub'.period = sub.period
         /\ sub'.status = "past_due"
         /\ \E e \in events : e.kind = "failed" /\ events' = events \ {e}
  BY DEF PaymentFailed, TypeOK, SubscriptionRow

\* Stripe's invoices: the subscription stays in its period, at its price.
LEMMA InvoiceSays ==
  ASSUME TypeOK, PayInvoice \/ FailInvoice \/ GiveUp
  PROVE  /\ UNCHANGED <<rows, worker, clock>> /\ remote' \in Remote
         /\ remote'.of.period = remote.of.period /\ remote'.of.price = remote.of.price
         /\ remote'.of.ending = remote.of.ending /\ remote'.schedule = remote.schedule
         /\ Canceled => Canceled'
         /\ paid' = paid \/ paid' = paid \cup {remote.of.period}
         /\ \E kind \in {"paid", "failed", "deleted"} :
              /\ events' = events \cup {[kind |-> kind, of |-> remote'.of]}
              /\ kind = "paid" => remote.of.period \in paid'
              /\ Canceled' => kind = "deleted"
<1>1. remote \in Remote /\ remote.of \in Snapshot
  BY DEF TypeOK, Remote
<1>2. ASSUME NEW status \in {"active", "past_due", "canceled"}, NEW due \in BOOLEAN,
             NEW of, of = [remote.of EXCEPT !.status = status],
             remote' = [remote EXCEPT !.of = of, !.due = due]
      PROVE  /\ remote' \in Remote /\ remote'.of = of
             /\ remote'.of.period = remote.of.period /\ remote'.of.price = remote.of.price
             /\ remote'.of.ending = remote.of.ending /\ remote'.schedule = remote.schedule
             /\ remote'.of.status = status
  <2>1. /\ of \in Snapshot /\ of.period = remote.of.period /\ of.price = remote.of.price
        /\ of.ending = remote.of.ending /\ of.status = status
    BY <1>1, <1>2 DEF Snapshot
  <2> QED
    BY <1>1, <1>2, <2>1 DEF Remote
<1>3. remote.due \in BOOLEAN /\ FALSE \in BOOLEAN /\ remote = [remote EXCEPT !.due = remote.due]
  BY <1>1 DEF Remote
<1>4. CASE PayInvoice
  <2>1. PICK of : /\ of = [remote.of EXCEPT !.status = "active"]
                  /\ remote' = [remote EXCEPT !.of = of, !.due = FALSE]
                  /\ events' = events \cup {[kind |-> "paid", of |-> of]}
    BY <1>4 DEF PayInvoice, Emitting
  <2>2. /\ remote' \in Remote /\ remote'.of = of
        /\ remote'.of.period = remote.of.period /\ remote'.of.price = remote.of.price
        /\ remote'.of.ending = remote.of.ending /\ remote'.schedule = remote.schedule
        /\ remote'.of.status = "active"
    BY <1>2, <1>3, <2>1
  <2> QED
    BY <1>4, <2>1, <2>2 DEF PayInvoice, Canceled
<1>5. CASE FailInvoice
  <2>1. PICK of : /\ of = [remote.of EXCEPT !.status = "past_due"]
                  /\ remote' = [remote EXCEPT !.of = of]
                  /\ events' = events \cup {[kind |-> "failed", of |-> of]}
    BY <1>5 DEF FailInvoice, Emitting
  <2>2. /\ of \in Snapshot /\ of.period = remote.of.period /\ of.price = remote.of.price
        /\ of.ending = remote.of.ending /\ of.status = "past_due"
    BY <1>1, <2>1 DEF Snapshot
  <2>3. remote' \in Remote /\ remote'.of = of /\ remote'.schedule = remote.schedule
    BY <1>1, <2>1, <2>2 DEF Remote
  <2> QED
    BY <1>5, <2>1, <2>2, <2>3 DEF FailInvoice, Canceled
<1>6. CASE GiveUp
  <2>1. PICK of : /\ of = [remote.of EXCEPT !.status = "canceled"]
                  /\ remote' = [remote EXCEPT !.of = of, !.due = FALSE]
                  /\ events' = events \cup {[kind |-> "deleted", of |-> of]}
    BY <1>6 DEF GiveUp, Emitting
  <2>2. /\ remote' \in Remote /\ remote'.of = of
        /\ remote'.of.period = remote.of.period /\ remote'.of.price = remote.of.price
        /\ remote'.of.ending = remote.of.ending /\ remote'.schedule = remote.schedule
        /\ remote'.of.status = "canceled"
    BY <1>2, <1>3, <2>1
  <2> QED
    BY <1>6, <2>1, <2>2 DEF GiveUp, Canceled
<1> QED
  BY <1>4, <1>5, <1>6

\* Stripe is in the period it is, until it ends the subscription.
InStep == ~ Canceled => remote.of.period = clock

\* A period ends: nothing at Stripe changes any more, or the end that was asked for
\* comes, or the next period begins, at the monthly price after a released year.
LEMMA PeriodTurns ==
  ASSUME TypeOK, InStep, NextPeriod
  PROVE  /\ Quiet /\ UNCHANGED <<rows, worker, paid>>
         /\ clock' = clock + 1 /\ clock' \in Periods
         /\ remote' \in Remote /\ events' \subseteq Event
         /\ \/ Canceled /\ remote' = remote /\ events' = events
            \/ /\ ~ Canceled /\ Ending /\ Canceled'
               /\ remote'.of.period = remote.of.period
               /\ remote'.of.price = remote.of.price
               /\ events' = events \cup {[kind |-> "deleted", of |-> remote'.of]}
            \/ /\ ~ Canceled /\ ~ Ending /\ ~ Canceled'
               /\ remote'.of.period = remote.of.period + 1
               /\ remote'.of.price = "monthly" \/ remote'.of.price = remote.of.price
               /\ remote'.schedule = remote.schedule \/ remote.schedule # "release"
                  \/ remote.of.price = "monthly"
               /\ remote.schedule = "release" => remote'.of.price = "monthly"
               /\ events' = events \cup {[kind |-> "updated", of |-> remote'.of]}
<1>0. /\ remote \in Remote /\ remote.of \in Snapshot /\ events \subseteq Event
      /\ clock \in Periods /\ clock < MaxPeriod
  BY DEF TypeOK, Remote, NextPeriod
<1>1. clock' = clock + 1 /\ clock' \in Periods
  BY <1>0, ContractsAssumption DEF NextPeriod, Periods
<1>2. Quiet /\ UNCHANGED <<rows, worker, paid>>
  BY DEF NextPeriod
<1>3. CASE Canceled
  BY <1>0, <1>1, <1>2, <1>3 DEF NextPeriod
<1>4. CASE ~ Canceled /\ Ending
  <2> DEFINE of == [remote.of EXCEPT !.status = "canceled"]
  <2>1. /\ of \in Snapshot /\ of.status = "canceled"
        /\ of.period = remote.of.period /\ of.price = remote.of.price
    BY <1>0 DEF Snapshot
  <2>2. /\ remote' = [remote EXCEPT !.of = of, !.schedule = "released"]
        /\ events' = events \cup {[kind |-> "deleted", of |-> of]}
    BY <1>4 DEF NextPeriod, Emitting
  <2>3. [kind |-> "deleted", of |-> of] \in Event
    BY <2>1 DEF Event
  <2> HIDE DEF of
  <2>4. remote' \in Remote /\ remote'.of = of
    BY <1>0, <2>1, <2>2 DEF Remote
  <2> QED
    BY <1>0, <1>1, <1>2, <1>4, <2>1, <2>2, <2>3, <2>4 DEF Canceled
<1>5. CASE ~ Canceled /\ ~ Ending
  <2> DEFINE second == remote.schedule = "release" /\ remote.of.price = "annual"
             price == IF second THEN "monthly" ELSE remote.of.price
             schedule == IF second \/ remote.schedule = "none" THEN remote.schedule
                         ELSE "released"
             of == [remote.of EXCEPT !.period = remote.of.period + 1, !.price = price]
  <2>1. remote.of.period + 1 \in Periods
    BY <1>0, <1>1, <1>5 DEF InStep
  <2>2. /\ price \in {"annual", "monthly"} /\ schedule \in Schedules
        /\ price = "monthly" \/ price = remote.of.price
        /\ remote.schedule = "release" => price = "monthly"
        /\ schedule = remote.schedule \/ remote.schedule # "release"
           \/ remote.of.price = "monthly"
    BY <1>0 DEF Remote, Snapshot, Schedules
  <2>3. /\ remote' = [of |-> of, due |-> TRUE, schedule |-> schedule]
        /\ events' = events \cup {[kind |-> "updated", of |-> of]}
    BY <1>5 DEF NextPeriod, Emitting
  <2> HIDE DEF price, schedule
  <2>4. /\ of \in Snapshot /\ of.status = remote.of.status
        /\ of.period = remote.of.period + 1 /\ of.price = price
    BY <1>0, <2>1, <2>2 DEF Snapshot
  <2> HIDE DEF of
  <2>5. [kind |-> "updated", of |-> of] \in Event
    BY <2>4 DEF Event
  <2>6. remote' \in Remote /\ remote'.of = of /\ remote'.schedule = schedule
    BY <2>2, <2>3, <2>4 DEF Remote, Schedules
  <2> QED
    BY <1>0, <1>1, <1>2, <1>5, <2>2, <2>3, <2>4, <2>5, <2>6 DEF Canceled
<1> QED
  BY <1>3, <1>4, <1>5

-----------------------------------------------------------------------------
\* The purchase is well-formed.
LEMMA InitTyped == Init => TypeOK /\ InStep /\ Writers
<1> SUFFICES ASSUME Init PROVE TypeOK /\ InStep /\ Writers
  OBVIOUS
<1>1. Bought \in ContractRow /\ 1 \in Periods /\ {1} \subseteq Periods
  BY ContractsAssumption DEF Bought, ContractRow, Periods
<1>2. [status |-> "active", period |-> 1, ending |-> FALSE] \in SubscriptionRow
  BY ContractsAssumption DEF SubscriptionRow
<1>3. [status |-> "none", until |-> 0] \in
        [status : {"none", "received", "needs_review", "scheduled", "effective"},
         until : 0 .. MaxPeriod]
  BY ContractsAssumption
<1>4. [status |-> "active", period |-> 1, price |-> "annual", ending |-> FALSE] \in Snapshot
  BY <1>1 DEF Snapshot
<1>5. remote \in Remote /\ remote.of.period = 1
  BY <1>4 DEF Init, Remote
<1>6. worker \in [Workers -> Worker] /\ \A w \in Workers : worker[w] = Idle
  BY IdleType DEF Init
<1>7. TypeOK
  BY <1>1, <1>2, <1>3, <1>5, <1>6 DEF Init, TypeOK
<1>8. InStep
  BY <1>5 DEF Init, InStep
<1>9. Writers
  BY <1>6 DEF Writers, Idle, At
<1> QED
  BY <1>7, <1>8, <1>9

\* Every step keeps the state well-typed and Stripe in its period.
LEMMA NextTyped == TypeOK /\ InStep /\ Writers /\ [Next]_vars => TypeOK' /\ InStep'
<1> SUFFICES ASSUME TypeOK, InStep, Writers, [Next]_vars PROVE TypeOK' /\ InStep'
  OBVIOUS
<1>1. ASSUME Speaks PROVE InStep'
  BY <1>1 DEF Speaks, InStep, Canceled
<1>2. ASSUME NEW w \in Workers, Job(w) PROVE TypeOK' /\ InStep'
  <2>1. Speaks
    BY <1>2, JobSpeaks
  <2>2. worker' \in [Workers -> Worker]
    BY <1>2, JobMoves DEF Moves
  <2> QED
    BY <1>1, <1>2, <2>1, <2>2, JobRowsTyped DEF Speaks, TypeOK
<1>3. ASSUME NEW w \in Workers, TakeEvent(w) \/ ListSubscription(w)
      PROVE  TypeOK' /\ InStep'
  <2>1. worker' \in [Workers -> Worker] /\ events' \subseteq Event
    BY <1>3, EventTaken, ListingTaken DEF Takes, TypeOK, stripe
  <2>2. UNCHANGED rows /\ clock' = clock /\ remote' = remote /\ paid' = paid
    BY <1>3 DEF TakeEvent, ListSubscription, stripe
  <2> QED
    BY <2>1, <2>2 DEF TypeOK, InStep, Canceled, rows
<1>4. ASSUME NEW w \in Workers, WriteSubscription(w) PROVE TypeOK' /\ InStep'
  <2>1. PICK event \in Event :
          /\ Leave(w) /\ UNCHANGED stripe /\ withdrawal' = withdrawal
          /\ sub' \in SubscriptionRow /\ contract' \in ContractRow
          /\ cancellation' \in [status : {"none", "received", "needs_review",
                                          "scheduled", "effective"}, until : 0 .. MaxPeriod]
          /\ \/ granted' = granted /\ live' = live
             \/ /\ granted' = granted \cup {event.of.period}
                /\ live' = live \cup {event.of.period}
    BY <1>4, WrittenRows
  <2>2. event.of.period \in Periods
    BY DEF Event, Snapshot
  <2>3. worker' \in [Workers -> Worker]
    BY <2>1, LeaveType
  <2> QED
    BY <2>1, <2>2, <2>3 DEF TypeOK, InStep, Canceled, stripe
<1>5. ASSUME NEW w \in Workers, Crash(w) PROVE TypeOK' /\ InStep'
  BY <1>5, CrashedRows, LeaveType DEF TypeOK, InStep, Canceled, rows
<1>6. ASSUME EndDue \/ ApplyDue \/ DoubtSchedule PROVE TypeOK' /\ InStep'
  BY <1>1, <1>6, BatchRows DEF Speaks, TypeOK
<1>7. ASSUME PaymentFailed PROVE TypeOK' /\ InStep'
  BY <1>7, PaymentFailedRows DEF TypeOK, InStep, Canceled
<1>8. ASSUME PayInvoice \/ FailInvoice \/ GiveUp PROVE TypeOK' /\ InStep'
  <2>1. remote.of.period \in Periods
    BY DEF TypeOK, Remote, Snapshot
  <2>2. events' \subseteq Event
    <3>1. PICK kind \in {"paid", "failed", "deleted"} :
            remote' \in Remote /\ events' = events \cup {[kind |-> kind, of |-> remote'.of]}
      BY <1>8, InvoiceSays
    <3>2. [kind |-> kind, of |-> remote'.of] \in Event
      BY <3>1 DEF Remote, Event
    <3> QED
      BY <3>1, <3>2 DEF TypeOK
  <2>3. UNCHANGED <<rows, worker, clock>> /\ remote' \in Remote /\ paid' \subseteq Periods
    BY <1>8, <2>1, InvoiceSays DEF TypeOK
  <2>4. TypeOK'
    BY <2>2, <2>3 DEF TypeOK, rows
  <2>5. clock' = clock /\ remote'.of.period = remote.of.period /\ (Canceled => Canceled')
    BY <1>8, InvoiceSays
  <2> QED
    BY <2>4, <2>5 DEF InStep
<1>9. ASSUME NextPeriod PROVE TypeOK' /\ InStep'
  <2>1. TypeOK'
    BY <1>9, PeriodTurns DEF TypeOK, rows
  <2>2. InStep'
    BY <1>9, PeriodTurns DEF InStep, Canceled
  <2> QED
    BY <2>1, <2>2
<1>10. CASE UNCHANGED vars
  BY <1>10 DEF vars, rows, stripe, TypeOK, InStep, Canceled
<1> QED
  BY <1>2, <1>3, <1>4, <1>5, <1>6, <1>7, <1>8, <1>9, <1>10 DEF Next, Begin, Continue, Job

LEMMA NextWriters == TypeOK /\ Writers /\ [Next]_vars => Writers'
<1> SUFFICES ASSUME TypeOK, Writers, [Next]_vars PROVE Writers'
  OBVIOUS
<1>0. NoEvent \notin Event
  BY NoEventAssumption
<1>1. ASSUME NEW w \in Workers, \A v \in Workers : v # w => worker'[v] = worker[v],
             worker'[w].step = "write" <=> worker'[w].event # NoEvent
      PROVE  Writers'
  BY <1>1 DEF Writers, At
<1>2. ASSUME NEW w \in Workers, Job(w) PROVE Writers'
  <2>1. PICK from, to : "write" \notin to /\ Moves(w, from, to)
    BY <1>2, JobMoves
  <2> QED
    BY <1>1, <2>1 DEF Moves
<1>3. ASSUME NEW w \in Workers, NEW event \in Event, Takes(w, event) PROVE Writers'
  BY <1>0, <1>1, <1>3 DEF Takes, Writers, At
<1>4. ASSUME NEW w \in Workers, Leave(w) PROVE Writers'
  BY <1>1, <1>4, LeaveType
<1>5. CASE UNCHANGED worker
  BY <1>5 DEF Writers, At
<1>6. \/ \E w \in Workers : \/ Job(w) \/ TakeEvent(w) \/ ListSubscription(w)
                            \/ WriteSubscription(w) \/ Crash(w)
      \/ UNCHANGED worker
  <2>1. ASSUME \/ EndDue \/ ApplyDue \/ DoubtSchedule \/ PaymentFailed
               \/ NextPeriod \/ PayInvoice \/ FailInvoice \/ GiveUp \/ UNCHANGED vars
        PROVE  UNCHANGED worker
    BY <2>1 DEF EndDue, ApplyDue, DoubtSchedule, PaymentFailed, NextPeriod, PayInvoice,
       FailInvoice, GiveUp, vars
  <2> QED
    BY <2>1 DEF Next, Begin, Continue, Job
<1>7. ASSUME NEW w \in Workers, TakeEvent(w) PROVE Writers'
  BY <1>3, <1>7, EventTaken
<1>8. ASSUME NEW w \in Workers, ListSubscription(w) PROVE Writers'
  BY <1>3, <1>8, ListingTaken
<1>9. ASSUME NEW w \in Workers, WriteSubscription(w) \/ Crash(w) PROVE Writers'
  BY <1>4, <1>9, WrittenRows, CrashedRows
<1> QED
  BY <1>2, <1>5, <1>6, <1>7, <1>8, <1>9

\* The rows, the processes and Stripe's side are always well-formed, and Stripe is
\* in the period it is.
TypedInv == TypeOK /\ InStep /\ Writers

LEMMA TypedInvariant == Spec => []TypedInv
<1>1. Init => TypedInv
  BY InitTyped DEF TypedInv
<1>2. TypedInv /\ [Next]_vars => TypedInv'
  BY NextTyped, NextWriters DEF TypedInv
<1> QED
  BY <1>1, <1>2, PTL DEF Spec

\* For every number of processes and periods, whatever fails or is late: the rows
\* and what Stripe holds are well-formed.
THEOREM ContractsTyped == Spec => []TypeOK
  BY TypedInvariant, PTL DEF TypedInv

-----------------------------------------------------------------------------
(* What is stored *)

\* What a job stores of the subscription, ...
LEMMA JobStoresSubscription ==
  ASSUME TypeOK, NEW w \in Workers, Job(w)
  PROVE  \/ sub'.period = sub.period /\ sub'.status = sub.status
         \/ /\ StoreStop(w) /\ At(w, "stopped")
            /\ sub'.period = 0 /\ sub'.status = "canceled"
<1>1. CASE StoreStop(w)
  BY <1>1 DEF StoreStop
<1>2. CASE CancelAtStripe(w) \/ StoreGuard(w)
  BY <1>2 DEF CancelAtStripe, StoreGuard, TypeOK, SubscriptionRow
<1>3. CASE ~ (StoreStop(w) \/ CancelAtStripe(w) \/ StoreGuard(w))
  <2>1. sub' = sub
    BY <1>3 DEF Job, BeginSchedule, CreateSchedule, ModifySchedule, LatestContract,
       UndoSchedule, CutSchedule, KeepSchedule, FailSchedule, StoreSchedule,
       BeginCancellation, StoreCancellation, ReviewCancellation,
       BeginGuard, BeginWithdrawal, DecideWithdrawal, AcceptByOperator,
       ResumeWithdrawal, StopCharges, StopFails, RevokeAndRefund, rows
  <2> QED
    BY <2>1
<1> QED
  BY <1>1, <1>2, <1>3

\* ... of the schedule, ...
LEMMA JobStoresSchedule ==
  ASSUME TypeOK, NEW w \in Workers, Job(w)
  PROVE  \/ contract'.schedule = contract.schedule
         \/ At(w, "undo") /\ contract'.schedule = "cancelled"
         \/ At(w, "cut") /\ contract'.schedule = "created" /\ ModifyPhases("cancel")
         \/ At(w, "cut") /\ contract'.schedule = "failed" /\ UNCHANGED stripe
         \/ At(w, "keep") /\ contract'.schedule = "created" /\ UNCHANGED stripe
         \/ At(w, "fail") /\ contract'.schedule = "failed" /\ UNCHANGED stripe
         \/ At(w, "stopped") /\ contract'.schedule = "released"
<1>1. ASSUME NEW status, StoreSchedule(status) PROVE contract'.schedule = status
  BY <1>1 DEF StoreSchedule, TypeOK, ContractRow
<1>2. CASE UndoSchedule(w)
  BY <1>1, <1>2 DEF UndoSchedule
<1>3. CASE CutSchedule(w)
  BY <1>1, <1>3 DEF CutSchedule
<1>4. CASE KeepSchedule(w)
  BY <1>1, <1>4 DEF KeepSchedule
<1>5. CASE FailSchedule(w)
  BY <1>5 DEF FailSchedule, TypeOK, ContractRow
<1>6. CASE StoreStop(w)
  BY <1>6 DEF StoreStop, TypeOK, ContractRow
<1>7. CASE StoreCancellation(w) \/ StoreGuard(w)
  BY <1>7 DEF StoreCancellation, StoreGuard, TypeOK, ContractRow
<1>8. CASE DecideWithdrawal(w) \/ AcceptByOperator(w)
  BY <1>8 DEF DecideWithdrawal, AcceptByOperator, Accept, TypeOK, ContractRow
<1>9. CASE \/ BeginSchedule(w) \/ CreateSchedule(w) \/ ModifySchedule(w)
           \/ LatestContract(w) \/ BeginCancellation(w) \/ CancelAtStripe(w)
           \/ ReviewCancellation(w) \/ BeginGuard(w) \/ BeginWithdrawal(w)
           \/ ResumeWithdrawal(w) \/ StopCharges(w) \/ StopFails(w) \/ RevokeAndRefund(w)
  BY <1>9 DEF BeginSchedule, CreateSchedule, ModifySchedule, LatestContract,
     BeginCancellation, CancelAtStripe, ReviewCancellation, BeginGuard,
     BeginWithdrawal, ResumeWithdrawal, StopCharges, StopFails, RevokeAndRefund, rows
<1> QED
  BY <1>2, <1>3, <1>4, <1>5, <1>6, <1>7, <1>8, <1>9 DEF Job

\* ... and of the end.
LEMMA JobStoresEnd ==
  ASSUME TypeOK, NEW w \in Workers, Job(w)
  PROVE  /\ \/ contract'.status = contract.status /\ contract'.until = contract.until
            \/ /\ At(w, "scheduled") /\ contract'.status = "cancellation_scheduled"
               /\ contract'.until = worker[w].until /\ UNCHANGED stripe
            \/ /\ At(w, "guarded") /\ contract'.status = "cancellation_scheduled"
               /\ contract'.until = sub.period /\ UNCHANGED stripe
            \/ contract'.status = "withdrawn"
         /\ \/ cancellation'.status = cancellation.status
            \/ cancellation'.status \in {"received", "needs_review"}
            \/ At(w, "scheduled") /\ contract'.status = "cancellation_scheduled"
<1>1. ASSUME NEW status, StoreSchedule(status)
      PROVE  /\ contract'.status = contract.status /\ contract'.until = contract.until
             /\ cancellation' = cancellation
  BY <1>1 DEF StoreSchedule, TypeOK, ContractRow
<1>2. CASE UndoSchedule(w) \/ CutSchedule(w) \/ KeepSchedule(w)
  BY <1>1, <1>2 DEF UndoSchedule, CutSchedule, KeepSchedule
<1>3. CASE StoreCancellation(w) \/ StoreGuard(w)
  BY <1>3 DEF StoreCancellation, StoreGuard, TypeOK, ContractRow
<1>4. CASE FailSchedule(w) \/ StoreStop(w)
  BY <1>4 DEF FailSchedule, StoreStop, TypeOK, ContractRow
<1>5. CASE DecideWithdrawal(w) \/ AcceptByOperator(w)
  BY <1>5 DEF DecideWithdrawal, AcceptByOperator, Accept, TypeOK, ContractRow
<1>6. CASE \/ BeginSchedule(w) \/ CreateSchedule(w) \/ ModifySchedule(w)
           \/ LatestContract(w) \/ BeginCancellation(w) \/ CancelAtStripe(w)
           \/ ReviewCancellation(w) \/ BeginGuard(w) \/ BeginWithdrawal(w)
           \/ ResumeWithdrawal(w) \/ StopCharges(w) \/ StopFails(w) \/ RevokeAndRefund(w)
  <2>1. contract' = contract
    BY <1>6 DEF BeginSchedule, CreateSchedule, ModifySchedule, LatestContract,
       BeginCancellation, CancelAtStripe, ReviewCancellation, BeginGuard,
       BeginWithdrawal, ResumeWithdrawal, StopCharges, StopFails, RevokeAndRefund, rows
  <2>2. cancellation' = cancellation \/ cancellation'.status \in {"received", "needs_review"}
    BY <1>6 DEF BeginSchedule, CreateSchedule, ModifySchedule, LatestContract,
       BeginCancellation, CancelAtStripe, ReviewCancellation, BeginGuard,
       BeginWithdrawal, ResumeWithdrawal, StopCharges, StopFails, RevokeAndRefund, rows,
       TypeOK
  <2> QED
    BY <2>1, <2>2
<1> QED
  BY <1>2, <1>3, <1>4, <1>5, <1>6 DEF Job

\* Grants are only taken back by a job, and by the one that completes.
LEMMA JobTakesBack ==
  ASSUME TypeOK, NEW w \in Workers, Job(w)
  PROVE  /\ live' = live \/ live' = {}
         /\ withdrawal' = "effective" =>
              withdrawal = "effective" \/ (At(w, "revoke") /\ live' = {})
  BY DEF Job, BeginSchedule, CreateSchedule, ModifySchedule, LatestContract,
     UndoSchedule, CutSchedule, KeepSchedule, FailSchedule, StoreSchedule,
     BeginCancellation, CancelAtStripe, StoreCancellation, ReviewCancellation,
     BeginGuard, StoreGuard, BeginWithdrawal, DecideWithdrawal, AcceptByOperator, Accept,
     ResumeWithdrawal, StopCharges, StopFails, StoreStop, RevokeAndRefund, rows

\* Jobs leave the phase and the allowances alone, and the period but for a stop.
LEMMA JobRowsKept ==
  ASSUME TypeOK, NEW w \in Workers, Job(w)
  PROVE  /\ sub'.period \in {sub.period, 0}
         /\ contract'.phase = contract.phase /\ granted' = granted
<1>1. \/ sub' = sub \/ sub' = [sub EXCEPT !.ending = TRUE]
      \/ sub' = [status |-> "canceled", period |-> 0, ending |-> FALSE]
  BY DEF Job, BeginSchedule, CreateSchedule, ModifySchedule, LatestContract,
     UndoSchedule, CutSchedule, KeepSchedule, FailSchedule, StoreSchedule,
     BeginCancellation, CancelAtStripe, StoreCancellation, ReviewCancellation,
     BeginGuard, StoreGuard, BeginWithdrawal, DecideWithdrawal, AcceptByOperator,
     ResumeWithdrawal, StopCharges, StopFails, StoreStop, RevokeAndRefund, rows
<1>2. sub'.period \in {sub.period, 0}
  BY <1>1 DEF TypeOK, SubscriptionRow
<1>3. contract'.phase = contract.phase
  <2>1. ASSUME NEW status, StoreSchedule(status) PROVE contract'.phase = contract.phase
    BY <2>1 DEF StoreSchedule, TypeOK, ContractRow
  <2>2. CASE UndoSchedule(w) \/ CutSchedule(w) \/ KeepSchedule(w)
    BY <2>1, <2>2 DEF UndoSchedule, CutSchedule, KeepSchedule
  <2>3. CASE FailSchedule(w) \/ StoreCancellation(w) \/ StoreGuard(w) \/ StoreStop(w)
    BY <2>3 DEF FailSchedule, StoreCancellation, StoreGuard, StoreStop, TypeOK, ContractRow
  <2>4. CASE DecideWithdrawal(w) \/ AcceptByOperator(w)
    BY <2>4 DEF DecideWithdrawal, AcceptByOperator, Accept, TypeOK, ContractRow
  <2>5. CASE \/ BeginSchedule(w) \/ CreateSchedule(w) \/ ModifySchedule(w)
             \/ LatestContract(w) \/ BeginCancellation(w) \/ CancelAtStripe(w)
             \/ ReviewCancellation(w) \/ BeginGuard(w) \/ BeginWithdrawal(w)
             \/ ResumeWithdrawal(w) \/ StopCharges(w) \/ StopFails(w) \/ RevokeAndRefund(w)
    BY <2>5 DEF BeginSchedule, CreateSchedule, ModifySchedule, LatestContract,
       BeginCancellation, CancelAtStripe, ReviewCancellation, BeginGuard,
       BeginWithdrawal, ResumeWithdrawal, StopCharges, StopFails, RevokeAndRefund, rows
  <2> QED
    BY <2>2, <2>3, <2>4, <2>5 DEF Job
<1>4. granted' = granted
  BY DEF Job, BeginSchedule, CreateSchedule, ModifySchedule, LatestContract,
     UndoSchedule, CutSchedule, KeepSchedule, FailSchedule, StoreSchedule,
     BeginCancellation, CancelAtStripe, StoreCancellation, ReviewCancellation,
     BeginGuard, StoreGuard, BeginWithdrawal, DecideWithdrawal, AcceptByOperator,
     ResumeWithdrawal, StopCharges, StopFails, StoreStop, RevokeAndRefund, rows
<1> QED
  BY <1>2, <1>3, <1>4

\* A process without an event adds none.
LEMMA FewerPending ==
  ASSUME NEW w \in Workers, worker'[w].event = NoEvent \/ worker'[w] = worker[w],
         \A v \in Workers : v # w => worker'[v] = worker[v]
  PROVE  Pending' \subseteq Pending \cup events'
  BY DEF Pending

\* No step brings a canceled subscription or the annual price back.
LEMMA StripeStays ==
  ASSUME TypedInv, [Next]_vars
  PROVE  /\ Canceled => Canceled'
         /\ remote.of.price = "monthly" => remote'.of.price = "monthly"
<1> USE DEF TypedInv
<1>1. ASSUME Speaks
      PROVE  /\ Canceled => Canceled'
             /\ remote.of.price = "monthly" => remote'.of.price = "monthly"
  BY <1>1 DEF Speaks, Canceled
<1>2. ASSUME NEW w \in Workers, \/ TakeEvent(w) \/ ListSubscription(w)
                                \/ WriteSubscription(w) \/ Crash(w)
      PROVE  remote' = remote
  BY <1>2 DEF TakeEvent, ListSubscription, WriteSubscription, Crash, stripe
<1>3. ASSUME PaymentFailed \/ UNCHANGED vars PROVE remote' = remote
  BY <1>3 DEF PaymentFailed, vars, stripe
<1>4. ASSUME NextPeriod
      PROVE  /\ Canceled => Canceled'
             /\ remote.of.price = "monthly" => remote'.of.price = "monthly"
  BY <1>4, PeriodTurns DEF Canceled
<1>5. ASSUME PayInvoice \/ FailInvoice \/ GiveUp
      PROVE  /\ Canceled => Canceled'
             /\ remote.of.price = "monthly" => remote'.of.price = "monthly"
  BY <1>5, InvoiceSays
<1> QED
  BY <1>1, <1>2, <1>3, <1>4, <1>5, JobSpeaks, BatchRows
  DEF Next, Begin, Continue, Job, Canceled

\* What Stripe has planned is given up by no job; only the months of a contract
\* that was not to end yet take an end back.
LEMMA JobKeepsPlan ==
  ASSUME TypedInv, NEW w \in Workers, Job(w)
  PROVE  /\ Opens => Opens'
         /\ remote.schedule = "release" => Opens'
         /\ Ends => Ends' \/ (ModifySchedule(w) /\ remote'.schedule = "release")
<1> USE DEF TypedInv
<1>1. CASE ModifySchedule(w) /\ ModifyPhases("release")
  BY <1>1, ModifyPhasesSpeaks DEF Opens
<1>2. CASE UNCHANGED stripe
  BY <1>2 DEF stripe, Opens, Ends, Canceled
<1>3. CASE ~ ModifySchedule(w)
  BY <1>3, JobSpeaks DEF Spares, Opens
<1> QED
  BY <1>1, <1>2, <1>3 DEF ModifySchedule

-----------------------------------------------------------------------------
(* Whose word a withdrawal is *)

\* One process at a time decides a withdrawal, and only one that waits for it; the
\* steps that stop the charges follow an acceptance, and a contract is withdrawn by
\* one.
Stops == {"stop", "stopped", "revoke", "undo"}
WithdrawalInv ==
  /\ \A v, w \in Workers : At(v, "accept") /\ At(w, "accept") => v = w
  /\ \A w \in Workers : /\ At(w, "accept") => withdrawal = "received"
                        /\ Doing(w, Stops) => Decided
  /\ contract.status = "withdrawn" => Decided

\* What a job may do to a withdrawal: nothing, ...
Carries(w) ==
  /\ withdrawal' = withdrawal
  /\ \/ contract'.status = contract.status
     \/ Doing(w, {"scheduled", "guarded"}) /\ contract'.status = "cancellation_scheduled"
  /\ worker[w].step # "accept" /\ worker'[w].step # "accept"
  /\ worker'[w].step \in Stops =>
       Doing(w, Stops) \/ withdrawal = "accepted" \/ contract.status = "withdrawn"
\* ... declare it, accept it, refer it to an operator, or complete it.
Declares(w) ==
  /\ withdrawal \in {"none", "needs_review"} /\ withdrawal' = "received"
  /\ worker'[w].step = "accept" /\ contract' = contract
Accepts(w) ==
  /\ Undisturbed
  /\ At(w, "accept") \/ \A v \in Workers : ~ At(v, "accept")
  /\ withdrawal' = "accepted" /\ contract'.status = "withdrawn"
  /\ worker'[w].step = "stop"
Refers(w) ==
  /\ At(w, "accept") /\ worker'[w].step = "idle"
  /\ withdrawal' = "needs_review" /\ contract' = contract
Completes(w) ==
  /\ At(w, "revoke") /\ worker'[w].step = "idle"
  /\ withdrawal' \in {withdrawal, "effective"} /\ contract' = contract

LEMMA JobDecides ==
  ASSUME TypeOK, Writers, NEW w \in Workers, Job(w)
  PROVE  Carries(w) \/ Declares(w) \/ Accepts(w) \/ Refers(w) \/ Completes(w)
<1> USE DEF Stops, Doing, Moves, At
<1>1. CASE \/ BeginSchedule(w) \/ CreateSchedule(w) \/ ModifySchedule(w)
           \/ LatestContract(w)
  <2>1. contract' = contract /\ withdrawal' = withdrawal
    BY <1>1 DEF BeginSchedule, CreateSchedule, ModifySchedule, LatestContract, rows
  <2>2. worker'[w].step = "undo" => contract.status = "withdrawn"
    <3>1. ASSUME worker'[w].step = "undo" PROVE LatestContract(w)
      BY <1>1, <3>1, ScheduleMoves
    <3>2. ASSUME LatestContract(w), contract.status # "withdrawn"
          PROVE  worker'[w].step # "undo"
      <4>1. Goto(w, "cut") \/ Goto(w, "keep")
        BY <3>2 DEF LatestContract
      <4> QED
        BY <4>1, GotoType DEF Steps
    <3> QED
      BY <3>1, <3>2
  <2> QED
    BY <1>1, <2>1, <2>2, ScheduleMoves DEF Carries
<1>2. CASE UndoSchedule(w) \/ CutSchedule(w) \/ KeepSchedule(w) \/ FailSchedule(w)
  <2>1. contract'.status = contract.status /\ withdrawal' = withdrawal
    BY <1>2 DEF UndoSchedule, CutSchedule, KeepSchedule, FailSchedule, StoreSchedule,
       TypeOK, ContractRow
  <2> QED
    BY <1>2, <2>1, ScheduleMoves DEF Carries
<1>3. CASE \/ BeginCancellation(w) \/ CancelAtStripe(w) \/ ReviewCancellation(w)
           \/ BeginGuard(w)
  <2>1. contract' = contract /\ withdrawal' = withdrawal
    BY <1>3 DEF BeginCancellation, CancelAtStripe, ReviewCancellation, BeginGuard, rows
  <2> QED
    BY <1>3, <2>1, CancellationMoves DEF Carries
<1>4. CASE StoreCancellation(w) \/ StoreGuard(w)
  <2>1. contract'.status = "cancellation_scheduled" /\ withdrawal' = withdrawal
    BY <1>4 DEF StoreCancellation, StoreGuard, TypeOK, ContractRow
  <2> QED
    BY <1>4, <2>1, CancellationMoves DEF Carries
<1>5. CASE BeginWithdrawal(w)
  BY <1>5, WithdrawalMoves DEF BeginWithdrawal, Declares
<1>6. ASSUME Accept(w) PROVE withdrawal' = "accepted" /\ contract'.status = "withdrawn"
                             /\ worker'[w].step = "stop"
  BY <1>6, StoppingType DEF Accept, TypeOK, ContractRow
<1>7. CASE DecideWithdrawal(w)
  BY <1>6, <1>7, LeaveType DEF DecideWithdrawal, Accepts, Refers
<1>8. CASE AcceptByOperator(w)
  BY <1>6, <1>8 DEF AcceptByOperator, Accepts
<1>9. CASE ResumeWithdrawal(w) \/ StopCharges(w) \/ StopFails(w)
  BY <1>9, WithdrawalMoves
  DEF ResumeWithdrawal, StopCharges, StopFails, ToResume, Carries, rows
<1>10. CASE StoreStop(w)
  <2>1. contract'.status = contract.status /\ withdrawal' = withdrawal
    BY <1>10 DEF StoreStop, TypeOK, ContractRow
  <2> QED
    BY <1>10, <2>1, WithdrawalMoves DEF Carries
<1>11. CASE RevokeAndRefund(w)
  BY <1>11, WithdrawalMoves DEF RevokeAndRefund, Completes
<1> QED
  BY <1>1, <1>2, <1>3, <1>4, <1>5, <1>7, <1>8, <1>9, <1>10, <1>11 DEF Job

\* Jobs keep whose word it is, and an acceptance is not taken back.
LEMMA JobKeepsWithdrawal ==
  ASSUME TypedInv, WithdrawalInv, NEW w \in Workers, Job(w)
  PROVE  WithdrawalInv' /\ (Decided => Decided')
<1> USE DEF TypedInv
<1>1. \A v \in Workers : v # w => worker'[v] = worker[v]
  BY JobMoves DEF Moves
<1>2. CASE Carries(w)
  <2>1. Decided' = Decided
    BY <1>2 DEF Carries, Decided
  <2>2. Doing(w, Stops)' => Decided
    BY <1>2 DEF Carries, WithdrawalInv, Doing, Decided
  <2>3. contract'.status = "withdrawn" => contract.status = "withdrawn"
    BY <1>2 DEF Carries
  <2> QED
    BY <1>1, <1>2, <2>1, <2>2, <2>3 DEF Carries, WithdrawalInv, At, Doing
<1>3. CASE Declares(w)
  <2>1. ~ Decided /\ ~ Decided' /\ \A v \in Workers : ~ At(v, "accept")
    BY <1>3 DEF Declares, WithdrawalInv, Decided
  <2>2. \A v \in Workers : ~ Doing(v, Stops)'
    BY <1>1, <1>3, <2>1 DEF Declares, WithdrawalInv, Doing, Stops
  <2> QED
    BY <1>1, <1>3, <2>1, <2>2 DEF Declares, WithdrawalInv, At
<1>4. CASE Accepts(w)
  <2>1. Decided' /\ \A v \in Workers : v # w => ~ At(v, "accept")
    BY <1>4 DEF Accepts, WithdrawalInv, Decided
  <2> QED
    BY <1>1, <1>4, <2>1 DEF Accepts, WithdrawalInv, At
<1>5. CASE Refers(w)
  <2>1. ~ Decided /\ ~ Decided' /\ \A v \in Workers : v # w => ~ At(v, "accept")
    BY <1>5 DEF Refers, WithdrawalInv, Decided
  <2>2. \A v \in Workers : ~ Doing(v, Stops)'
    BY <1>1, <1>5, <2>1 DEF Refers, WithdrawalInv, Doing, Stops
  <2> QED
    BY <1>1, <1>5, <2>1, <2>2 DEF Refers, WithdrawalInv, At
<1>6. CASE Completes(w)
  <2>1. Decided /\ Decided' /\ \A v \in Workers : ~ At(v, "accept")
    BY <1>6 DEF Completes, WithdrawalInv, Decided, At, Doing, Stops
  <2> QED
    BY <1>1, <1>6, <2>1 DEF Completes, WithdrawalInv, At
<1> QED
  BY <1>2, <1>3, <1>4, <1>5, <1>6, JobDecides

\* The other steps leave a process where it is or end it, and a webhook goes on to
\* write when nothing is decided; the contract is what it was, or ended.
Attends ==
  /\ \A v \in Workers : \/ worker'[v] = worker[v] \/ worker'[v].step = "idle"
                        \/ worker'[v].step = "write" /\ ~ Decided
  /\ withdrawal' = withdrawal
  /\ contract'.status \in {contract.status, "ended"}

LEMMA WebhookAttends ==
  ASSUME TypedInv, NEW w \in Workers,
         TakeEvent(w) \/ ListSubscription(w) \/ WriteSubscription(w) \/ Crash(w)
  PROVE  Attends
<1> USE DEF TypedInv
<1>0. ASSUME \A v \in Workers : v # w => worker'[v] = worker[v],
             \/ worker'[w] = worker[w] \/ worker'[w].step = "idle"
             \/ worker'[w].step = "write" /\ ~ Decided,
             withdrawal' = withdrawal,
             contract'.status = contract.status \/ contract'.status = "ended"
      PROVE  Attends
  BY <1>0 DEF Attends
<1>1. ASSUME NEW event, Takes(w, event), UNCHANGED rows PROVE Attends
  <2>1. worker'[w] = worker[w] \/ (worker'[w].step = "write" /\ ~ Decided)
    BY <1>1 DEF Takes, Settled, Decided
  <2> QED
    BY <1>0, <1>1, <2>1 DEF Takes, rows
<1>2. CASE TakeEvent(w)
  BY <1>1, <1>2, EventTaken DEF TakeEvent
<1>3. CASE ListSubscription(w)
  BY <1>1, <1>3, ListingTaken DEF ListSubscription
<1>4. CASE WriteSubscription(w)
  BY <1>0, <1>4, WrittenRows, LeaveType
<1>5. CASE Crash(w)
  BY <1>0, <1>5, CrashedRows, LeaveType DEF rows
<1> QED
  BY <1>2, <1>3, <1>4, <1>5

\* So does the batch, and time.
LEMMA OthersAttend ==
  ASSUME TypedInv, \/ EndDue \/ ApplyDue \/ DoubtSchedule \/ PaymentFailed
                   \/ NextPeriod \/ PayInvoice \/ FailInvoice \/ GiveUp \/ UNCHANGED vars
  PROVE  Attends
<1>1. /\ worker' = worker /\ withdrawal' = withdrawal
      /\ contract'.status = contract.status \/ contract'.status = "ended"
  BY DEF TypedInv, TypeOK, ContractRow, EndDue, ApplyDue, DoubtSchedule, PaymentFailed,
     NextPeriod, PayInvoice, FailInvoice, GiveUp, vars, rows
<1> QED
  BY <1>1 DEF Attends
LEMMA NextWithdrawal ==
  ASSUME TypedInv, WithdrawalInv, [Next]_vars
  PROVE  WithdrawalInv' /\ (Decided => Decided')
<1>1. CASE \E w \in Workers : Job(w)
  BY <1>1, JobKeepsWithdrawal
<1>2. CASE Attends
  <2>1. Decided' = Decided
    BY <1>2 DEF Attends, Decided
  <2> QED
    BY <1>2, <2>1 DEF Attends, WithdrawalInv, At, Doing, Stops
<1> QED
  BY <1>1, <1>2, WebhookAttends, OthersAttend DEF Next, Begin, Continue, Job

LEMMA InitWithdrawal == Init => WithdrawalInv
  BY DEF Init, WithdrawalInv, Doing, At, Idle, Stops, Bought

\* What is stored by the others is a period Stripe is in, and a schedule that may
\* have to be made again.
LEMMA OthersStore ==
  ASSUME TypedInv, [Next]_vars
  PROVE  \/ \E w \in Workers : Job(w)
         \/ /\ \A w \in Workers : worker'[w] = worker[w]
                                  \/ worker'[w].step \in {"idle", "write"}
            /\ withdrawal' = withdrawal
            /\ contract'.schedule = contract.schedule \/ contract'.schedule = "failed"
            /\ \/ sub'.period = sub.period /\ live' = live
               \/ \E w \in Workers : At(w, "write") /\ sub'.period \in Periods
<1> USE DEF TypedInv
<1> DEFINE Stored ==
      /\ contract'.schedule = contract.schedule \/ contract'.schedule = "failed"
      /\ \/ sub'.period = sub.period /\ live' = live
         \/ \E w \in Workers : At(w, "write") /\ sub'.period \in Periods
<1>1. ASSUME UNCHANGED rows PROVE Stored
  BY <1>1 DEF rows
<1>2. ASSUME NEW w \in Workers, WriteSubscription(w) PROVE Stored
  <2>1. PICK event \in Event : /\ worker[w].step = "write"
                               /\ sub'.period = event.of.period
                               /\ contract'.schedule = contract.schedule
    BY <1>2, WrittenRows
  <2>2. event.of.period \in Periods
    BY DEF Event, Snapshot
  <2> QED
    BY <2>1, <2>2 DEF At
<1>3. ASSUME EndDue \/ ApplyDue \/ DoubtSchedule PROVE Stored
  <2>1. sub'.period = sub.period /\ live' = live
    BY <1>3, BatchRows
  <2>2. contract'.schedule = contract.schedule \/ contract'.schedule = "failed"
    BY <1>3 DEF EndDue, ApplyDue, DoubtSchedule, TypeOK, ContractRow
  <2> QED
    BY <2>1, <2>2
<1>4. ASSUME PaymentFailed PROVE Stored
  BY <1>4, PaymentFailedRows
<1> HIDE DEF Stored
<1>5. ASSUME NEW w \in Workers, TakeEvent(w) \/ ListSubscription(w) \/ Crash(w)
      PROVE  UNCHANGED rows
  BY <1>5 DEF TakeEvent, ListSubscription, Crash
<1>6. ASSUME NextPeriod \/ PayInvoice \/ FailInvoice \/ GiveUp \/ UNCHANGED vars
      PROVE  UNCHANGED rows
  BY <1>6 DEF NextPeriod, PayInvoice, FailInvoice, GiveUp, vars
<1>7. (\E w \in Workers : Job(w)) \/ Stored
  BY <1>1, <1>2, <1>3, <1>4, <1>5, <1>6 DEF Next, Begin, Continue, Job
<1>8. (\E w \in Workers : Job(w)) \/ Attends
  BY WebhookAttends, OthersAttend DEF Next, Begin, Continue, Job
<1> QED
  BY <1>7, <1>8 DEF Stored, Attends

-----------------------------------------------------------------------------
(* No access afterwards *)

\* No webhook is about to write over a decided withdrawal; who takes the grants
\* back has left no period, and a completed withdrawal neither period nor grant.
AccessInv ==
  /\ \A w \in Workers : /\ At(w, "write") => ~ Decided
                        /\ At(w, "revoke") => sub.period = 0
  /\ withdrawal = "effective" => sub.period = 0 /\ live = {}

LEMMA JobKeepsAccess ==
  ASSUME "read_committed" \notin Faults, TypedInv, WithdrawalInv, AccessInv,
         NEW w \in Workers, Job(w)
  PROVE  AccessInv'
<1> USE DEF TypedInv
<1>1. /\ \A v \in Workers : v # w => worker'[v] = worker[v]
      /\ worker'[w].step # "write"
  BY JobMoves DEF Moves
<1>2. Decided' => Decided \/ \A v \in Workers : ~ At(v, "write")
  BY JobDecides
  DEF Carries, Declares, Accepts, Undisturbed, Refers, Completes, WithdrawalInv,
      Decided, Doing, At, Stops
<1>3. worker'[w].step = "revoke" => sub'.period = 0
  <2>1. worker'[w].step = "revoke" => StoreStop(w)
    BY ScheduleMoves, CancellationMoves, WithdrawalMoves DEF Job, Moves
  <2> QED
    BY <2>1 DEF StoreStop
<1>4. sub.period = 0 => sub'.period = 0
  BY JobStoresSubscription
<1>5. \A v \in Workers : /\ At(v, "write")' => ~ Decided'
                         /\ At(v, "revoke")' => sub'.period = 0
  BY <1>1, <1>2, <1>3, <1>4 DEF AccessInv, At
<1>6. withdrawal' = "effective" => sub'.period = 0 /\ live' = {}
  BY <1>4, JobTakesBack DEF AccessInv
<1> QED
  BY <1>5, <1>6 DEF AccessInv

\* Webhooks write only while nothing is decided.
LEMMA NextAccess ==
  ASSUME "read_committed" \notin Faults, TypedInv, WithdrawalInv, AccessInv, [Next]_vars
  PROVE  AccessInv'
<1>1. CASE \E w \in Workers : Job(w)
  BY <1>1, JobKeepsAccess
<1>2. CASE ~ \E w \in Workers : Job(w)
  <2>1. Attends
    BY <1>2, WebhookAttends, OthersAttend DEF Next, Begin, Continue, Job
  <2>2. Decided' = Decided
    BY <2>1 DEF Attends, Decided
  <2>3. \A w \in Workers : At(w, "write")' => ~ Decided'
    BY <2>1, <2>2 DEF Attends, AccessInv, At
  <2>4. CASE sub'.period = sub.period /\ live' = live
    BY <2>1, <2>3, <2>4 DEF Attends, AccessInv, At
  <2>5. CASE \E w \in Workers : At(w, "write")
    <3>1. ~ Decided
      BY <2>5 DEF AccessInv
    <3>2. \A w \in Workers : ~ At(w, "revoke")'
      BY <2>1, <3>1 DEF Attends, WithdrawalInv, Doing, At, Stops
    <3> QED
      BY <2>2, <2>3, <3>1, <3>2 DEF AccessInv, Decided
  <2> QED
    BY <1>2, <2>4, <2>5, OthersStore
<1> QED
  BY <1>1, <1>2

LEMMA InitAccess == Init => AccessInv
  BY DEF Init, AccessInv, At, Idle

\* For every number of processes and periods, whatever fails, crashes, is late or is
\* saved over another's row: after a completed withdrawal there is no access and no
\* grant, if no withdrawal runs between a webhook's check and its write.
THEOREM AccessIsOver ==
  ASSUME "read_committed" \notin Faults
  PROVE  Spec => []AccessEnds
<1>1. Init => WithdrawalInv /\ AccessInv
  BY InitWithdrawal, InitAccess
<1>2. TypedInv /\ WithdrawalInv /\ AccessInv /\ [Next]_vars => WithdrawalInv' /\ AccessInv'
  BY NextWithdrawal, NextAccess
<1>3. TypedInv /\ AccessInv => AccessEnds
  BY DEF TypedInv, TypeOK, Periods, AccessInv, AccessEnds, Access
<1> QED
  BY TypedInvariant, <1>1, <1>2, <1>3, PTL DEF Spec

-----------------------------------------------------------------------------
(* What is final at Stripe *)

\* Nobody hears of an end or of a month that Stripe knows nothing of; who goes on
\* after a stop has stopped the charges, and so has a withdrawal that is complete or
\* has left no period.
Honest(e) ==
  /\ e.of.status = "canceled" => Canceled
  /\ e.of.price = "monthly" => remote.of.price = "monthly"
FinalInv ==
  /\ \A e \in Pending : Honest(e)
  /\ contract.phase = "continuation" => remote.of.price = "monthly"
  /\ \A w \in Workers : Doing(w, {"stopped", "revoke"}) => Canceled
  /\ withdrawal = "effective" \/ sub.period = 0 => Canceled

\* An event is of what an earlier one was of, or of what Stripe holds now.
Heard(e) == e.of = remote'.of \/ \E f \in Pending : e.of = f.of

LEMMA PendingIsHeard ==
  ASSUME TypedInv, [Next]_vars
  PROVE  \A e \in Pending' : Heard(e)
<1> USE DEF TypedInv
<1>1. \A e \in events : e \in Pending
  BY NoEventAssumption DEF TypeOK, Pending
<1>2. ASSUME Speaks, Pending' \subseteq Pending \cup events'
      PROVE  \A e \in Pending' : Heard(e)
  BY <1>1, <1>2 DEF Speaks, Heard
<1>3. ASSUME Pending' \subseteq Pending PROVE \A e \in Pending' : Heard(e)
  BY <1>3 DEF Heard
<1>4. ASSUME NEW w \in Workers, Job(w) PROVE \A e \in Pending' : Heard(e)
  <2>1. Pending' \subseteq Pending \cup events'
    BY <1>4, JobMoves, FewerPending DEF Moves
  <2> QED
    BY <1>2, <1>4, <2>1, JobSpeaks
<1>5. ASSUME NEW w \in Workers, NEW event \in Event, Takes(w, event), events' \subseteq events,
             event.of = remote'.of \/ \E f \in events : event.of = f.of
      PROVE  \A e \in Pending' : Heard(e)
  <2>1. \A e \in Pending' : e \in Pending \/ e = event
    BY <1>5 DEF Takes, Pending
  <2>2. Heard(event)
    BY <1>1, <1>5 DEF Heard
  <2> QED
    BY <2>1, <2>2 DEF Heard
<1>6. ASSUME NEW w \in Workers, TakeEvent(w) PROVE \A e \in Pending' : Heard(e)
  <2>1. PICK e \in events, event \in Event :
          /\ Takes(w, event) /\ events' = events \ {e}
          /\ event.of = e.of \/ event.of = remote.of
    BY <1>6, EventTaken
  <2>2. remote' = remote
    BY <1>6 DEF TakeEvent
  <2> QED
    BY <1>5, <2>1, <2>2
<1>7. ASSUME NEW w \in Workers, ListSubscription(w) PROVE \A e \in Pending' : Heard(e)
  BY <1>5, <1>7, ListingTaken DEF stripe
<1>8. ASSUME NEW w \in Workers, WriteSubscription(w) \/ Crash(w)
      PROVE  \A e \in Pending' : Heard(e)
  <2>1. /\ Leave(w)
        /\ events' = events \/ events' = events \cup {worker[w].event}
    BY <1>8, WrittenRows, CrashedRows DEF stripe
  <2>2. Pending' \subseteq Pending
    BY <2>1, LeaveType DEF Pending
  <2> QED
    BY <1>3, <2>2
<1>9. ASSUME EndDue \/ ApplyDue \/ DoubtSchedule PROVE \A e \in Pending' : Heard(e)
  <2>1. Speaks /\ worker' = worker
    BY <1>9, BatchRows
  <2> QED
    BY <1>2, <2>1 DEF Pending
<1>10. ASSUME PaymentFailed \/ UNCHANGED vars PROVE \A e \in Pending' : Heard(e)
  <2>1. worker' = worker /\ events' \subseteq events
    BY <1>10, PaymentFailedRows DEF vars, stripe
  <2> QED
    BY <1>3, <2>1 DEF Pending
<1>11. ASSUME NextPeriod \/ PayInvoice \/ FailInvoice \/ GiveUp
       PROVE  \A e \in Pending' : Heard(e)
  <2>1. /\ worker' = worker
        /\ \/ events' = events
           \/ \E kind \in {"paid", "failed", "deleted", "updated"} :
                events' = events \cup {[kind |-> kind, of |-> remote'.of]}
    BY <1>11, InvoiceSays, PeriodTurns
  <2>2. \A e \in Pending' : e \in Pending \/ e.of = remote'.of
    BY <2>1 DEF Pending
  <2> QED
    BY <2>2 DEF Heard
<1> QED
  BY <1>4, <1>6, <1>7, <1>8, <1>9, <1>10, <1>11 DEF Next, Begin, Continue, Job

LEMMA NextFinal ==
  ASSUME TypedInv, FinalInv, [Next]_vars
  PROVE  FinalInv'
<1> USE DEF TypedInv
<1>1. /\ Canceled => Canceled'
      /\ remote.of.price = "monthly" => remote'.of.price = "monthly"
  BY StripeStays
<1>2. \A e \in Pending' : Honest(e)'
  BY <1>1, PendingIsHeard DEF Heard, FinalInv, Honest, Canceled
<1>3. ASSUME NEW w \in Workers, Job(w) PROVE FinalInv'
  <2>1. \A v \in Workers : v # w => worker'[v] = worker[v]
    BY <1>3, JobMoves DEF Moves
  <2>2. At(w, "stopped") \/ At(w, "revoke") => Canceled
    BY DEF FinalInv, Doing, At
  <2>3. Doing(w, {"stopped", "revoke"})' => Canceled'
    <3>1. Doing(w, {"stopped", "revoke"})' => StopCharges(w) \/ StoreStop(w)
      BY <1>3, ScheduleMoves, CancellationMoves, WithdrawalMoves DEF Job, Moves, Doing
    <3>2. StopCharges(w) => Canceled'
      BY CancelNowSpeaks DEF StopCharges
    <3>3. StoreStop(w) => At(w, "stopped")
      BY DEF StoreStop
    <3> QED
      BY <1>1, <2>2, <3>1, <3>2, <3>3
  <2>4. \A v \in Workers : Doing(v, {"stopped", "revoke"})' => Canceled'
    BY <1>1, <2>1, <2>3 DEF FinalInv, Doing
  <2>5. withdrawal' = "effective" \/ sub'.period = 0 => Canceled'
    BY <1>1, <1>3, <2>2, JobTakesBack, JobStoresSubscription DEF FinalInv
  <2>6. contract'.phase = contract.phase
    BY <1>3, JobRowsKept
  <2> QED
    BY <1>1, <1>2, <2>4, <2>5, <2>6 DEF FinalInv
<1>4. ASSUME ~ \E w \in Workers : Job(w) PROVE FinalInv'
  <2>1. Attends
    BY <1>4, WebhookAttends, OthersAttend DEF Next, Begin, Continue, Job
  <2>2. \A v \in Workers : Doing(v, {"stopped", "revoke"})' => Canceled'
    BY <1>1, <2>1 DEF Attends, FinalInv, Doing
  <2>3. withdrawal' = "effective" \/ sub'.period = 0 => Canceled'
    BY <1>1, <1>4, <2>1, OthersStore DEF Attends, FinalInv, Periods
  <2>4. contract'.phase = "continuation" => remote'.of.price = "monthly"
    <3>1. ASSUME NEW w \in Workers, WriteSubscription(w)
          PROVE  contract'.phase = contract.phase \/ remote.of.price = "monthly"
      <4>1. PICK event : /\ worker[w].event = event /\ event # NoEvent
                         /\ contract'.phase = contract.phase
                            \/ event.of.price = "monthly"
        BY <3>1, WrittenRows
      <4> QED
        BY <4>1 DEF Pending, FinalInv, Honest
    <3>2. ASSUME NEW w \in Workers, TakeEvent(w) \/ ListSubscription(w) \/ Crash(w)
          PROVE  contract' = contract
      BY <3>2 DEF TakeEvent, ListSubscription, Crash, rows
    <3>3. EndDue \/ ApplyDue \/ DoubtSchedule => contract'.phase = contract.phase
      BY BatchRows
    <3>4. ASSUME \/ PaymentFailed \/ NextPeriod \/ PayInvoice \/ FailInvoice \/ GiveUp
                 \/ UNCHANGED vars
          PROVE  contract' = contract
      BY <3>4 DEF PaymentFailed, NextPeriod, PayInvoice, FailInvoice, GiveUp, vars, rows
    <3> QED
      BY <1>1, <1>4, <3>1, <3>2, <3>3, <3>4 DEF Next, Begin, Continue, Job, FinalInv
  <2> QED
    BY <1>2, <2>2, <2>3, <2>4 DEF FinalInv
<1> QED
  BY <1>3, <1>4

LEMMA InitFinal == Init => FinalInv
<1> SUFFICES ASSUME Init PROVE FinalInv
  OBVIOUS
<1>1. Pending = {}
  BY DEF Init, Pending, Idle
<1> QED
  BY <1>1 DEF Init, FinalInv, Doing, Idle, Bought

-----------------------------------------------------------------------------
(* The year is charged once *)

\* While the year is charged, Stripe knows that the year is the last, or has the
\* months, as soon as anybody here plans on it; and what is over here is over there.
Planned == {"latest", "cut", "undo", "keep", "scheduled", "guarded"}
YearInv ==
  /\ NeverAnnualTwice
  /\ remote.of.price = "annual" =>
       /\ sub.status = "canceled" \/ contract.status = "ended" => Canceled
       /\ contract.status = "cancellation_scheduled" => Opens
       /\ contract.schedule \in {"created", "cancelled", "released"} => Opens
       /\ \A w \in Workers : Doing(w, Planned) => Opens

\* Who plans on something has told Stripe first.
LEMMA PlanningOpens ==
  ASSUME "later_end" \notin Faults, TypedInv, NEW w \in Workers, Job(w),
         Doing(w, Planned)'
  PROVE  Opens' \/ At(w, "latest")
<1> USE DEF TypedInv
<1>1. \/ ModifySchedule(w) /\ worker'[w].step = "latest"
      \/ CancelAtStripe(w) /\ worker'[w].step = "scheduled"
      \/ LatestContract(w) \/ BeginGuard(w)
  BY ScheduleMoves, CancellationMoves, WithdrawalMoves DEF Job, Moves, Doing, Planned
<1>2. CASE ModifySchedule(w) /\ worker'[w].step = "latest"
  <2>1. ModifyPhases("release")
    BY <1>2, GotoType DEF ModifySchedule, Steps
  <2> QED
    BY <2>1, ModifyPhasesSpeaks DEF Opens
<1>3. CASE CancelAtStripe(w) /\ worker'[w].step = "scheduled"
  <2>1. ModifyPhases("cancel") \/ EndAtPeriodEnd
    BY <1>3, StartType DEF CancelAtStripe, Steps
  <2> QED
    BY <2>1, ModifyPhasesSpeaks, EndAtPeriodEndSpeaks DEF Opens, Ends
<1>4. CASE BeginGuard(w)
  BY <1>4, EndAtPeriodEndSpeaks DEF BeginGuard, Opens, Ends
<1>5. CASE LatestContract(w)
  BY <1>5 DEF LatestContract
<1> QED
  BY <1>1, <1>2, <1>3, <1>4, <1>5

LEMMA JobKeepsYear ==
  ASSUME "later_end" \notin Faults, TypedInv, FinalInv, YearInv, NEW w \in Workers, Job(w)
  PROVE  YearInv'
<1> USE DEF TypedInv
<1>1. /\ remote'.of.period = remote.of.period /\ remote'.of.price = remote.of.price
      /\ Canceled => Canceled'
      /\ Opens => Opens'
  BY JobSpeaks, JobKeepsPlan DEF Speaks, Canceled
<1>2. NeverAnnualTwice'
  BY <1>1 DEF YearInv, NeverAnnualTwice
<1>3. ASSUME remote.of.price = "annual"
      PROVE  /\ sub'.status = "canceled" \/ contract'.status = "ended" => Canceled'
             /\ contract'.status = "cancellation_scheduled" => Opens'
             /\ contract'.schedule \in {"created", "cancelled", "released"} => Opens'
             /\ \A v \in Workers : Doing(v, Planned)' => Opens'
  <2>1. Doing(w, Planned) => Opens
    BY <1>3 DEF YearInv
  <2>2. At(w, "stopped") => Canceled /\ Opens
    BY DEF FinalInv, Doing, At, Opens, Ends
  <2>3. sub'.status = "canceled" \/ contract'.status = "ended" => Canceled'
    BY <1>1, <1>3, <2>2, JobStoresSubscription, JobStoresEnd DEF YearInv
  <2>4. contract'.status = "cancellation_scheduled" => Opens'
    BY <1>1, <1>3, <2>1, JobStoresEnd DEF YearInv, Doing, At, Planned
  <2>5. contract'.schedule \in {"created", "cancelled", "released"} => Opens'
    BY <1>1, <1>3, <2>1, <2>2, JobStoresSchedule DEF YearInv, Doing, At, Planned
  <2>6. \A v \in Workers : Doing(v, Planned)' => Opens'
    <3>1. Doing(w, Planned)' => Opens'
      BY <1>1, <2>1, PlanningOpens DEF Doing, At, Planned
    <3>2. \A v \in Workers : v # w => worker'[v] = worker[v]
      BY JobMoves DEF Moves
    <3> QED
      BY <1>1, <1>3, <3>1, <3>2 DEF YearInv, Doing
  <2> QED
    BY <2>3, <2>4, <2>5, <2>6
<1> QED
  BY <1>1, <1>2, <1>3 DEF YearInv

\* Webhooks write what Stripe says, the batch ends what is over.
LEMMA OthersKeepYear ==
  ASSUME TypedInv, FinalInv, YearInv,
         \/ \E w \in Workers : \/ TakeEvent(w) \/ ListSubscription(w)
                               \/ WriteSubscription(w) \/ Crash(w)
         \/ EndDue \/ ApplyDue \/ DoubtSchedule \/ PaymentFailed
         \/ PayInvoice \/ FailInvoice \/ GiveUp \/ UNCHANGED vars
  PROVE  YearInv'
<1> USE DEF TypedInv
<1>1. \A v \in Workers : worker'[v] = worker[v] \/ worker'[v].step \in {"idle", "write"}
  <2>1. Attends \/ UNCHANGED vars
    BY WebhookAttends, OthersAttend
  <2> QED
    BY <2>1 DEF Attends, vars
<1>2. ASSUME remote'.of.period = remote.of.period, remote'.of.price = remote.of.price,
             Canceled => Canceled', Opens => Opens',
             sub'.status \in {sub.status, "past_due"} \/ (sub'.status = "canceled" => Canceled'),
             \/ contract'.status = contract.status
             \/ contract'.status = "ended" /\ Canceled'
             \/ remote.of.price # "annual",
             contract'.schedule \in {contract.schedule, "failed"}
      PROVE  YearInv'
  <2>1. \A v \in Workers : Doing(v, Planned)' => Doing(v, Planned)
    BY <1>1 DEF Doing, Planned
  <2>2. NeverAnnualTwice'
    BY <1>2 DEF YearInv, NeverAnnualTwice
  <2> QED
    BY <1>2, <2>1, <2>2 DEF YearInv
<1>3. ASSUME NEW w \in Workers, WriteSubscription(w) PROVE YearInv'
  <2>1. PICK event \in Event :
          /\ worker[w].event = event /\ event # NoEvent /\ UNCHANGED stripe
          /\ sub'.status = event.of.status
          /\ contract'.schedule = contract.schedule
          /\ contract'.status = contract.status
             \/ (contract'.status = "ended" /\ event.of.status = "canceled")
    BY <1>3, WrittenRows
  <2>2. event.of.status = "canceled" => Canceled
    BY <2>1 DEF Pending, FinalInv, Honest
  <2>3. remote' = remote /\ (Canceled' <=> Canceled) /\ (Opens' <=> Opens)
    BY <2>1 DEF stripe, Canceled, Opens, Ends
  <2> QED
    BY <1>2, <2>1, <2>2, <2>3
<1>4. ASSUME UNCHANGED rows, remote' = remote PROVE YearInv'
  BY <1>2, <1>4 DEF rows, Canceled, Opens, Ends
<1>5. ASSUME NEW w \in Workers, TakeEvent(w) \/ ListSubscription(w) \/ Crash(w)
      PROVE  YearInv'
  BY <1>4, <1>5 DEF TakeEvent, ListSubscription, Crash, stripe
<1>6. ASSUME EndDue \/ ApplyDue \/ DoubtSchedule PROVE YearInv'
  <2>1. Speaks /\ Spares
    BY <1>6, BatchRows
  <2>2. /\ remote'.of.period = remote.of.period /\ remote'.of.price = remote.of.price
        /\ Canceled => Canceled'
        /\ Opens => Opens'
    BY <2>1 DEF Speaks, Spares, Canceled, Opens
  <2>3. EndDue /\ remote.of.price = "annual" => Canceled
    <3> SUFFICES ASSUME EndDue, remote.of.price = "annual", ~ Canceled, sub.period < clock
                 PROVE  FALSE
      BY DEF EndDue, Over, YearInv
    <3>1. remote.of.period \in Nat \ {0} /\ sub.period \in Nat
      BY DEF TypeOK, Remote, Snapshot, Periods, SubscriptionRow
    <3>2. clock = 1
      BY <3>1 DEF YearInv, NeverAnnualTwice, InStep
    <3> QED
      BY <3>1, <3>2 DEF FinalInv
  <2>4. CASE EndDue
    <3>1. /\ contract'.status = "ended" /\ contract'.schedule = contract.schedule
          /\ sub'.status = "canceled"
      BY <2>4 DEF EndDue, TypeOK, ContractRow, SubscriptionRow
    <3>2. CASE remote.of.price = "annual"
      BY <1>2, <2>2, <2>3, <2>4, <3>1, <3>2
    <3>3. CASE remote.of.price # "annual"
      BY <2>2, <3>3 DEF YearInv, NeverAnnualTwice
    <3> QED
      BY <3>2, <3>3
  <2>5. CASE ApplyDue \/ DoubtSchedule
    <3>1. /\ contract'.status = contract.status /\ sub'.status = sub.status
          /\ contract'.schedule \in {contract.schedule, "failed"}
      BY <2>5 DEF ApplyDue, DoubtSchedule, TypeOK, ContractRow, SubscriptionRow
    <3> QED
      BY <1>2, <2>2, <3>1
  <2> QED
    BY <1>6, <2>4, <2>5
<1>7. ASSUME PaymentFailed PROVE YearInv'
  BY <1>2, <1>7, PaymentFailedRows DEF Canceled, Opens, Ends
<1>8. ASSUME PayInvoice \/ FailInvoice \/ GiveUp PROVE YearInv'
  BY <1>2, <1>8, InvoiceSays DEF Opens, Ends, rows
<1>9. ASSUME UNCHANGED vars PROVE YearInv'
  BY <1>4, <1>9 DEF vars, stripe
<1> QED
  BY <1>3, <1>5, <1>6, <1>7, <1>8, <1>9

\* The second period is a month: the schedule has released it, or the guard or the
\* owner has ended the contract with the year, or a withdrawal has stopped it.
LEMMA YearIsReleased ==
  ASSUME TypedInv, WithdrawalInv, FinalInv, YearInv,
         Quiet, ~ Canceled, ~ Ending, remote.of.price = "annual"
  PROVE  remote.schedule = "release"
<1> USE DEF TypedInv
<1>1. clock = 1
  <2>1. remote.of.period \in Nat \ {0}
    BY DEF TypeOK, Remote, Snapshot, Periods
  <2> QED
    BY <2>1 DEF YearInv, NeverAnnualTwice, InStep
<1>2. ASSUME ~ Opens PROVE FALSE
  <2>1. Unscheduled
    BY <1>2 DEF YearInv, Unscheduled, TypeOK, ContractRow
  <2>2. contract.phase = "initial"
    BY DEF FinalInv, TypeOK, ContractRow
  <2>3. contract.status # "active"
    BY <1>1, <2>1, <2>2 DEF Quiet, ToGuard, InGuard
  <2>4. contract.status = "withdrawn"
    BY <1>2, <2>3 DEF YearInv, TypeOK, ContractRow
  <2> QED
    BY <2>4 DEF WithdrawalInv, FinalInv, Decided, Quiet, ToResume
<1> QED
  BY <1>2 DEF Opens, Ends, Ending

LEMMA NextYear ==
  ASSUME "later_end" \notin Faults, TypedInv, WithdrawalInv, FinalInv, YearInv, [Next]_vars
  PROVE  YearInv'
<1>1. ASSUME NextPeriod PROVE YearInv'
  <2>1. /\ Quiet /\ UNCHANGED <<rows, worker>>
        /\ \/ Canceled /\ remote' = remote
           \/ /\ Canceled' /\ remote'.of.period = remote.of.period
              /\ remote'.of.price = remote.of.price
           \/ /\ ~ Canceled /\ ~ Ending
              /\ remote'.of.price \in {"monthly", remote.of.price}
              /\ remote.schedule = "release" => remote'.of.price = "monthly"
    BY <1>1, PeriodTurns DEF TypedInv
  <2>2. CASE /\ Canceled' /\ remote'.of.period = remote.of.period
             /\ remote'.of.price = remote.of.price
    BY <2>2 DEF YearInv, NeverAnnualTwice, Opens, Ends
  <2>3. CASE Canceled /\ remote' = remote
    BY <2>2, <2>3 DEF Canceled
  <2>4. CASE /\ ~ Canceled /\ ~ Ending
             /\ remote'.of.price \in {"monthly", remote.of.price}
             /\ remote.schedule = "release" => remote'.of.price = "monthly"
    <3>1. remote'.of.price = "monthly"
      BY <2>1, <2>4, YearIsReleased DEF TypedInv, TypeOK, Remote, Snapshot
    <3> QED
      BY <3>1 DEF YearInv, NeverAnnualTwice
  <2> QED
    BY <2>1, <2>2, <2>3, <2>4
<1> QED
  BY <1>1, JobKeepsYear, OthersKeepYear DEF Next, Begin, Continue, Job

LEMMA InitYear == Init => YearInv
  BY DEF Init, YearInv, NeverAnnualTwice, Doing, Planned, Idle, Bought

\* For every number of processes and periods, whatever fails, crashes, is late or is
\* saved over another's row: no contract is renewed at the annual price, if
\* cancellations ask for the end of the period they are made in.
THEOREM YearIsOnce ==
  ASSUME "later_end" \notin Faults
  PROVE  Spec => []NeverAnnualTwice
<1>1. Init => WithdrawalInv /\ FinalInv /\ YearInv
  BY InitWithdrawal, InitFinal, InitYear
<1>2. TypedInv /\ WithdrawalInv /\ FinalInv /\ YearInv /\ [Next]_vars
        => WithdrawalInv' /\ FinalInv' /\ YearInv'
  BY NextWithdrawal, NextFinal, NextYear
<1> QED
  BY TypedInvariant, <1>1, <1>2, PTL DEF Spec, YearInv

-----------------------------------------------------------------------------
(* What is granted is paid *)

\* An event under way is about the period Stripe is in, and one of a payment says
\* that this period is paid.
Sound(e) ==
  /\ e.of.period = remote.of.period
  /\ e.kind = "paid" => remote.of.period \in paid

StripeInv ==
  /\ \A e \in Pending : Sound(e)
  /\ sub.period <= remote.of.period
  /\ granted \subseteq paid

\* What was sound stays so while Stripe only answers calls, and so is what it says.
LEMMA SpeaksSoundly ==
  ASSUME Speaks, \A e \in Pending : Sound(e), Pending' \subseteq Pending \cup events'
  PROVE  \A e \in Pending' : Sound(e)'
<1> SUFFICES ASSUME NEW e \in Pending' PROVE Sound(e)'
  OBVIOUS
<1>1. e \in Pending \/ (e.of = remote'.of /\ e.kind # "paid")
  <2>1. CASE e \in Pending
    BY <2>1
  <2>2. CASE e \in events'
    <3>1. e \in events \/ (e.of = remote'.of /\ e.kind # "paid")
      BY <2>2 DEF Speaks
    <3>2. e # NoEvent
      BY DEF Pending
    <3> QED
      BY <3>1, <3>2 DEF Pending
  <2> QED
    BY <2>1, <2>2
<1>2. CASE e \in Pending
  <2>1. Sound(e)
    BY <1>2
  <2> QED
    BY <2>1 DEF Sound, Speaks
<1>3. CASE e.of = remote'.of /\ e.kind # "paid"
  BY <1>3 DEF Sound, Speaks
<1> QED
  BY <1>1, <1>2, <1>3

\* Jobs and the batch keep what is said about Stripe.
LEMMA JobKeepsStripe ==
  ASSUME TypedInv, StripeInv, Speaks, Pending' \subseteq Pending \cup events',
         sub'.period \in {sub.period, 0}, granted' = granted
  PROVE  StripeInv'
<1>1. \A e \in Pending' : Sound(e)'
  BY SpeaksSoundly DEF StripeInv
<1>2. remote.of.period \in Nat
  BY DEF TypedInv, TypeOK, Remote, Snapshot, Periods
<1>3. sub'.period <= remote'.of.period
  BY <1>2 DEF Speaks, StripeInv
<1> QED
  BY <1>1, <1>3 DEF Speaks, StripeInv

\* A webhook takes what is sound; a crash gives it back.
LEMMA WebhookKeepsStripe ==
  ASSUME TypedInv, StripeInv, NEW w \in Workers,
         TakeEvent(w) \/ ListSubscription(w) \/ WriteSubscription(w) \/ Crash(w)
  PROVE  StripeInv'
<1> USE DEF TypedInv
<1>0. \A e \in events : e \in Event /\ e # NoEvent
  BY NoEventAssumption DEF TypeOK
<1>1. ASSUME remote' = remote, paid' = paid, UNCHANGED rows,
             \A e \in Pending' : Sound(e)
      PROVE  StripeInv'
  BY <1>1 DEF StripeInv, Sound, rows
<1>2. ASSUME NEW event \in Event, Takes(w, event), Sound(event), events' \subseteq events
      PROVE  \A e \in Pending' : Sound(e)
  BY <1>2 DEF Takes, Pending, StripeInv
<1>3. CASE TakeEvent(w)
  <2>1. PICK e \in events, event \in Event :
          /\ Takes(w, event) /\ events' = events \ {e} /\ event.kind = e.kind
          /\ event.of = e.of \/ event.of = remote.of
    BY <1>3, EventTaken
  <2>2. Sound(e)
    BY <1>0 DEF Pending, StripeInv
  <2>3. Sound(event)
    BY <2>1, <2>2 DEF Sound
  <2>4. remote' = remote /\ paid' = paid /\ UNCHANGED rows
    BY <1>3 DEF TakeEvent
  <2> QED
    BY <1>1, <1>2, <2>1, <2>3, <2>4
<1>4. CASE ListSubscription(w)
  <2>1. PICK event \in Event :
          /\ Takes(w, event) /\ event.kind = "listed" /\ event.of = remote.of
          /\ UNCHANGED stripe
    BY <1>4, ListingTaken
  <2>2. Sound(event)
    BY <2>1 DEF Sound
  <2>3. remote' = remote /\ paid' = paid /\ events' = events /\ UNCHANGED rows
    BY <1>4, <2>1 DEF ListSubscription, stripe
  <2> QED
    BY <1>1, <1>2, <2>1, <2>2, <2>3
<1>5. CASE WriteSubscription(w)
  <2>1. PICK event \in Event :
          /\ worker[w].event = event /\ event # NoEvent
          /\ Leave(w) /\ UNCHANGED stripe
          /\ sub'.period = event.of.period
          /\ \/ granted' = granted
             \/ event.kind = "paid" /\ granted' = granted \cup {event.of.period}
    BY <1>5, WrittenRows
  <2>2. Sound(event)
    BY <2>1 DEF Pending, StripeInv
  <2>3. Pending' \subseteq Pending
    BY <2>1, LeaveType, FewerPending DEF stripe, Pending
  <2>4. remote' = remote /\ paid' = paid
    BY <2>1 DEF stripe
  <2>5. \A e \in Pending' : Sound(e)'
    BY <2>3, <2>4 DEF StripeInv, Sound
  <2>6. sub'.period <= remote'.of.period
    BY <2>1, <2>2, <2>4 DEF Sound, TypeOK, Remote, Snapshot, Periods
  <2> QED
    BY <2>1, <2>2, <2>4, <2>5, <2>6 DEF StripeInv, Sound
<1>6. CASE Crash(w)
  <2>1. /\ Leave(w) /\ UNCHANGED rows /\ remote' = remote /\ paid' = paid
        /\ \/ events' = events
           \/ worker[w].event # NoEvent /\ events' = events \cup {worker[w].event}
    BY <1>6, CrashedRows
  <2>2. Pending' \subseteq Pending
    BY <2>1, LeaveType DEF Pending
  <2> QED
    BY <1>1, <2>1, <2>2 DEF StripeInv
<1> QED
  BY <1>3, <1>4, <1>5, <1>6

\* Stripe's own steps: a new period begins when nothing of the last is under way.
LEMMA TimeKeepsStripe ==
  ASSUME "late_webhook" \notin Faults, TypedInv, StripeInv,
         NextPeriod \/ PayInvoice \/ FailInvoice \/ GiveUp
  PROVE  StripeInv'
<1> USE DEF TypedInv
<1>0. remote.of.period \in Nat /\ sub.period \in Nat
  BY DEF TypeOK, Remote, Snapshot, Periods, SubscriptionRow
<1>1. CASE PayInvoice \/ FailInvoice \/ GiveUp
  <2>1. PICK kind \in {"paid", "failed", "deleted"} :
          /\ events' = events \cup {[kind |-> kind, of |-> remote'.of]}
          /\ kind = "paid" => remote.of.period \in paid'
    BY <1>1, InvoiceSays
  <2>2. /\ UNCHANGED <<rows, worker>>
        /\ remote'.of.period = remote.of.period
        /\ paid \subseteq paid'
    BY <1>1, InvoiceSays
  <2>3. \A e \in Pending' : Sound(e)'
    <3> SUFFICES ASSUME NEW e \in Pending' PROVE Sound(e)'
      OBVIOUS
    <3>1. e \in Pending \/ e = [kind |-> kind, of |-> remote'.of]
      BY <2>1, <2>2 DEF Pending
    <3>2. CASE e \in Pending
      BY <2>2, <3>2 DEF StripeInv, Sound
    <3>3. CASE e = [kind |-> kind, of |-> remote'.of]
      BY <2>1, <2>2, <3>3 DEF Sound
    <3> QED
      BY <3>1, <3>2, <3>3
  <2> QED
    BY <2>2, <2>3 DEF StripeInv, rows
<1>2. CASE NextPeriod
  <2>1. /\ Quiet /\ UNCHANGED <<rows, worker, paid>>
        /\ remote'.of.period = remote.of.period
           \/ remote'.of.period = remote.of.period + 1
        /\ \/ remote' = remote /\ events' = events
           \/ \E kind \in {"updated", "deleted"} :
                events' = events \cup {[kind |-> kind, of |-> remote'.of]}
    BY <1>2, PeriodTurns
  <2>2. events = {} /\ \A w \in Workers : worker[w].event = NoEvent
    BY <2>1 DEF Quiet, Writers, At
  <2>3. Pending = {}
    BY <2>2 DEF Pending
  <2>4. \A e \in Pending' : e.of = remote'.of /\ e.kind # "paid"
    BY <2>1, <2>2 DEF Pending
  <2>5. \A e \in Pending' : Sound(e)'
    BY <2>4 DEF Sound
  <2>6. sub'.period <= remote'.of.period
    BY <1>0, <2>1 DEF StripeInv, rows
  <2> QED
    BY <2>1, <2>5, <2>6 DEF StripeInv, rows
<1> QED
  BY <1>1, <1>2

\* What is said about Stripe is inductive as long as webhooks arrive in their period.
LEMMA NextStripe ==
  ASSUME "late_webhook" \notin Faults, TypedInv, StripeInv, [Next]_vars
  PROVE  StripeInv'
<1> USE DEF TypedInv
<1>1. ASSUME NEW w \in Workers, Job(w) PROVE StripeInv'
  <2>1. Pending' \subseteq Pending \cup events'
    BY <1>1, JobMoves, FewerPending DEF Moves
  <2> QED
    BY <1>1, <2>1, JobSpeaks, JobRowsKept, JobKeepsStripe
<1>2. ASSUME EndDue \/ ApplyDue \/ DoubtSchedule PROVE StripeInv'
  <2>1. /\ Speaks /\ worker' = worker /\ granted' = granted
        /\ sub'.period = sub.period
    BY <1>2, BatchRows
  <2>2. Pending' \subseteq Pending \cup events'
    BY <2>1 DEF Pending
  <2> QED
    BY <2>1, <2>2, JobKeepsStripe
<1>3. ASSUME PaymentFailed PROVE StripeInv'
  <2>1. /\ UNCHANGED <<granted, worker, remote, paid>>
        /\ sub'.period = sub.period /\ events' \subseteq events
    BY <1>3, PaymentFailedRows
  <2>2. Pending' \subseteq Pending
    BY <2>1 DEF Pending
  <2> QED
    BY <2>1, <2>2 DEF StripeInv, Sound
<1>4. CASE UNCHANGED vars
  BY <1>4 DEF vars, rows, stripe, StripeInv, Sound, Pending
<1> QED
  BY <1>1, <1>2, <1>3, <1>4, WebhookKeepsStripe, TimeKeepsStripe
  DEF Next, Begin, Continue, Job

\* The year of the purchase is paid.
LEMMA InitStripe == Init => StripeInv
<1> SUFFICES ASSUME Init PROVE StripeInv
  OBVIOUS
<1>1. Pending = {}
  BY DEF Init, Pending, Idle
<1> QED
  BY <1>1 DEF Init, StripeInv

\* For every number of processes and periods, whatever fails, crashes or stays
\* unpaid: an allowance is granted for a paid period only, if webhooks arrive in
\* the period they are about.
THEOREM PaidBeforeGranted ==
  ASSUME "late_webhook" \notin Faults
  PROVE  Spec => []AllowanceIsPaid
<1>1. Init => StripeInv
  BY InitStripe
<1>2. TypedInv /\ StripeInv /\ [Next]_vars => StripeInv'
  BY NextStripe
<1>3. StripeInv => AllowanceIsPaid
  BY DEF StripeInv, AllowanceIsPaid
<1> QED
  BY TypedInvariant, <1>1, <1>2, <1>3, PTL DEF Spec
-----------------------------------------------------------------------------
(* Who works on the contract *)

\* Nobody asks for a later end, saves a row over another's, or uses one that lacks
\* the period Stripe is in: nothing in the code refuses it, and with any one of them
\* the model checker finds a contract ended that Stripe goes on to charge.
Orderly == Faults \cap {"later_end", "stale_row", "late_webhook"} = {}

\* One process at a time holds a contract it will save; one works on the schedule.
AloneInv ==
  /\ \A v, w \in Workers : Holding(v) /\ Holding(w) => v = w
  /\ \A v, w \in Workers : Doing(v, ScheduleSteps) /\ Doing(w, ScheduleSteps) => v = w

\* No job runs between another's read of the contract and its save.
LEMMA JobFresh ==
  ASSUME NEW w \in Workers, Job(w) PROVE Fresh(w)
  BY DEF Job, Free, BeginSchedule, CreateSchedule, ModifySchedule, LatestContract,
     UndoSchedule, CutSchedule, KeepSchedule, FailSchedule,
     BeginCancellation, CancelAtStripe, StoreCancellation, ReviewCancellation,
     BeginGuard, StoreGuard, BeginWithdrawal, DecideWithdrawal, AcceptByOperator,
     ResumeWithdrawal, StopCharges, StopFails, StoreStop, RevokeAndRefund

\* A schedule is begun when no other is under way.
LEMMA JobSchedules ==
  ASSUME Orderly, TypeOK, Writers, NEW w \in Workers, Job(w)
  PROVE  worker'[w].step \in ScheduleSteps =>
           Doing(w, ScheduleSteps) \/ \A v \in Workers : ~ Doing(v, ScheduleSteps)
<1>1. BeginSchedule(w) => \A v \in Workers : ~ Doing(v, ScheduleSteps)
  BY DEF BeginSchedule, Orderly, Doing
<1> QED
  BY <1>1, ScheduleMoves, CancellationMoves, WithdrawalMoves
  DEF Job, Moves, Doing, ScheduleSteps

LEMMA NextAlone ==
  ASSUME Orderly, TypedInv, AloneInv, [Next]_vars
  PROVE  AloneInv'
<1> USE DEF TypedInv
<1>1. ASSUME NEW w \in Workers, Job(w) PROVE AloneInv'
  <2>1. \A v \in Workers : v # w => worker'[v] = worker[v]
    BY <1>1, JobMoves DEF Moves
  <2>2. \A v \in Workers : Holding(v) => v = w
    BY <1>1, JobFresh DEF Fresh, Orderly
  <2>3. \A v, u \in Workers : Holding(v)' /\ Holding(u)' => v = u
    BY <2>1, <2>2 DEF Holding
  <2>4. \A v, u \in Workers : Doing(v, ScheduleSteps)' /\ Doing(u, ScheduleSteps)' => v = u
    BY <1>1, <2>1, JobSchedules DEF AloneInv, Doing
  <2> QED
    BY <2>3, <2>4 DEF AloneInv
<1>2. Attends => AloneInv'
  BY DEF Attends, AloneInv, Holding, Doing, ScheduleSteps
<1> QED
  BY <1>1, <1>2, WebhookAttends, OthersAttend DEF Next, Begin, Continue, Job

LEMMA InitAlone == Init => AloneInv
  BY DEF Init, AloneInv, Holding, Doing, Idle, ScheduleSteps

-----------------------------------------------------------------------------
(* What is planned at Stripe *)

\* Where a process is in its plan: who is about to store an end has told Stripe, and
\* knows the period; who has planned the months did so in the year, and does not
\* keep them for a contract that is to end; and the schedule is not there yet.
Plans(w) ==
  /\ Doing(w, {"scheduled", "guarded"}) => Ends /\ sub.period = remote.of.period
  /\ At(w, "scheduled") => worker[w].until = remote.of.period
  /\ Doing(w, {"latest", "keep"}) => Opens /\ (Canceled \/ clock = 1)
  /\ At(w, "keep") /\ contract.status = "cancellation_scheduled" => Ends
  /\ Doing(w, ScheduleSteps) => Unscheduled

\* The row shows the period Stripe is in, or an event will say so.
Announced ==
  \/ sub.period = remote.of.period \/ Canceled
  \/ \E e \in Pending : e.kind \in {"updated", "deleted", "paid"}

\* As long as no withdrawal is accepted: what the rows call ended is; and a confirmed
\* end is Stripe's, or the schedule that is under way will make it so.
PlanInv ==
  /\ sub.status = "canceled" \/ contract.status = "ended" => Canceled
  /\ cancellation.status = "scheduled" =>
       contract.status # "active" /\ (Canceled \/ sub.period = remote.of.period)
  /\ Announced
  /\ contract.status = "cancellation_scheduled" =>
       /\ contract.until = remote.of.period
       /\ Ends \/ (Unscheduled /\ remote.schedule = "release")
  /\ \A w \in Workers : Plans(w)

\* What is known whatever a withdrawal does, and what goes on with the contract
\* until one is accepted.
KnownInv == TypedInv /\ StripeInv /\ WithdrawalInv /\ FinalInv /\ YearInv /\ AloneInv
ContractInv == KnownInv /\ (~ Decided => PlanInv)
GoesOn == KnownInv /\ PlanInv /\ ~ Decided

\* With no event under way that says otherwise, the row is right.
LEMMA CurrentRow ==
  ASSUME Orderly, GoesOn, Current, ~ Canceled
  PROVE  sub.period = remote.of.period
<1>1. remote.of.period \in Nat /\ sub.period \in Nat
  BY DEF GoesOn, KnownInv, TypedInv, TypeOK, Remote, Snapshot, Periods, SubscriptionRow
<1>2. sub.period <= remote.of.period
  BY DEF GoesOn, KnownInv, StripeInv
<1>3. ASSUME NEW e \in Pending PROVE remote.of.period <= sub.period
  <2>1. e.of.period = remote.of.period
    BY DEF GoesOn, KnownInv, StripeInv, Sound
  <2>2. e.of.period <= sub.period
    BY DEF Current, Orderly
  <2> QED
    BY <2>1, <2>2
<1>4. CASE \E e \in Pending : TRUE
  BY <1>1, <1>2, <1>3, <1>4
<1> QED
  BY <1>4 DEF GoesOn, PlanInv, Announced

\* A process that does not move keeps its plan.
LEMMA PlansStay ==
  ASSUME NEW v \in Workers, Plans(v), worker'[v] = worker[v],
         remote'.of.period = remote.of.period, clock' = clock,
         Canceled => Canceled', Opens => Opens',
         Doing(v, {"scheduled", "guarded", "keep"}) => (Ends => Ends'),
         Doing(v, {"scheduled", "guarded"}) => sub'.period \in {sub.period, remote.of.period},
         At(v, "keep") /\ contract'.status = "cancellation_scheduled" =>
           contract.status = "cancellation_scheduled" \/ Ends',
         Doing(v, ScheduleSteps) /\ Unscheduled => Unscheduled'
  PROVE  Plans(v)'
  BY DEF Plans, Doing, At

\* A job leaves the plans of the others alone.
LEMMA JobLeavesPlans ==
  ASSUME Orderly, GoesOn, NEW w \in Workers, Job(w), NEW v \in Workers, v # w
  PROVE  Plans(v)'
<1> USE DEF GoesOn, KnownInv, TypedInv
<1>1. Plans(v) /\ Plans(w)
  BY DEF PlanInv
<1>2. worker'[v] = worker[v]
  BY JobMoves DEF Moves
<1>3. /\ remote'.of.period = remote.of.period /\ clock' = clock
      /\ Canceled => Canceled'
  BY JobSpeaks DEF Speaks, Canceled
<1>4. Opens => Opens'
  BY JobKeepsPlan
<1>5. ~ Holding(v)
  BY JobFresh DEF Fresh, Orderly
<1>6. ModifySchedule(w) => ~ At(v, "keep")
  BY DEF ModifySchedule, AloneInv, Doing, At, ScheduleSteps
<1>7. Doing(v, {"scheduled", "guarded", "keep"}) => (Ends => Ends')
  BY <1>5, <1>6, JobKeepsPlan DEF Doing, Holding, At
<1>8. ~ Doing(v, {"scheduled", "guarded"})
  BY <1>5 DEF Doing, Holding
<1>9. At(v, "keep") /\ contract'.status = "cancellation_scheduled" =>
        contract.status = "cancellation_scheduled" \/ Ends'
  <2>1. At(w, "scheduled") \/ At(w, "guarded") => Ends
    BY <1>1 DEF Plans, At, Doing
  <2>2. Ends /\ UNCHANGED stripe => Ends'
    BY DEF stripe, Ends, Canceled
  <2> QED
    BY <2>1, <2>2, JobStoresEnd
<1>10. Doing(v, ScheduleSteps) /\ Unscheduled => Unscheduled'
  <2>1. Doing(v, ScheduleSteps) =>
          ~ At(w, "undo") /\ ~ At(w, "cut") /\ ~ At(w, "keep") /\ ~ At(w, "fail")
    BY DEF AloneInv, Doing, At, ScheduleSteps
  <2>2. ~ At(w, "stopped")
    BY DEF WithdrawalInv, Doing, At, Stops
  <2> QED
    BY <2>1, <2>2, JobStoresSchedule DEF Unscheduled
<1> QED
  BY <1>1, <1>2, <1>3, <1>4, <1>7, <1>8, <1>9, <1>10, PlansStay

\* Who asks Stripe for the end of a cancellation knows the period it is in.
LEMMA CancelPlans ==
  ASSUME Orderly, GoesOn, NEW w \in Workers, CancelAtStripe(w)
  PROVE  Plans(w)'
<1> USE DEF GoesOn, KnownInv, TypedInv
<1>1. Current /\ sub.period \in 0 .. MaxPeriod
  BY DEF CancelAtStripe, TypeOK, SubscriptionRow
<1>2. worker'[w].step \in {"scheduled", "review"}
  BY CancellationMoves DEF Moves
<1>3. CASE Start(w, "review")
  BY <1>3, StartType DEF Plans, Doing, At, Steps, ScheduleSteps
<1>4. CASE ~ Start(w, "review")
  <2>1. /\ ModifyPhases("cancel") \/ EndAtPeriodEnd
        /\ sub' = [sub EXCEPT !.ending = TRUE] /\ Confirming(w, sub.period)
    BY <1>4 DEF CancelAtStripe, Orderly
  <2>2. /\ worker'[w].step = "scheduled" /\ worker'[w].until = sub.period
    BY <1>1, <2>1, ConfirmingType
  <2>3. ~ Canceled /\ Ends' /\ remote'.of.period = remote.of.period
    BY <2>1, ModifyPhasesSpeaks, EndAtPeriodEndSpeaks DEF PhasesOpen, Ends, Speaks
  <2>4. sub.period = remote.of.period
    BY <1>1, <2>3, CurrentRow
  <2>5. sub'.period = sub.period
    BY <2>1 DEF TypeOK, SubscriptionRow
  <2> QED
    BY <2>2, <2>3, <2>4, <2>5 DEF Plans, Doing, At, ScheduleSteps
<1> QED
  BY <1>3, <1>4

\* So does the guard, which runs in the year: the row has no other period yet.
LEMMA GuardPlans ==
  ASSUME GoesOn, NEW w \in Workers, BeginGuard(w)
  PROVE  Plans(w)'
<1> USE DEF GoesOn, KnownInv, TypedInv
<1>1. worker'[w].step = "guarded"
  BY CancellationMoves DEF Moves
<1>2. ~ Canceled /\ Ends' /\ remote'.of.period = remote.of.period
  BY EndAtPeriodEndSpeaks DEF BeginGuard, Ends, Speaks
<1>3. clock = 1 /\ remote.of.period = 1
  BY <1>2 DEF BeginGuard, ToGuard, InGuard, InStep
<1>4. sub.period \in Nat /\ sub.period <= 1 /\ sub.period # 0
  BY <1>2, <1>3 DEF TypeOK, SubscriptionRow, StripeInv, FinalInv
<1>5. sub.period = 1 /\ sub' = sub
  BY <1>4 DEF BeginGuard, rows
<1> QED
  BY <1>1, <1>2, <1>3, <1>5 DEF Plans, Doing, At, ScheduleSteps

\* Whoever works on the schedule goes on with its plan.
LEMMA SchedulePlans ==
  ASSUME GoesOn, NEW w \in Workers,
         BeginSchedule(w) \/ CreateSchedule(w) \/ ModifySchedule(w) \/ LatestContract(w)
  PROVE  Plans(w)'
<1> USE DEF GoesOn, KnownInv, TypedInv
<1>0. Job(w) /\ UNCHANGED rows
  BY DEF Job, BeginSchedule, CreateSchedule, ModifySchedule, LatestContract
<1>1. contract' = contract
  BY <1>0 DEF rows
<1>2. Doing(w, ScheduleSteps)' => Unscheduled'
  <2>1. BeginSchedule(w) => Unscheduled
    BY DEF BeginSchedule
  <2>2. ~ BeginSchedule(w) => Doing(w, ScheduleSteps)
    BY DEF CreateSchedule, ModifySchedule, LatestContract, Doing, At, ScheduleSteps
  <2> QED
    BY <1>1, <2>1, <2>2 DEF PlanInv, Plans, Unscheduled
<1>3. ~ Doing(w, {"scheduled", "guarded"})'
  BY ScheduleMoves DEF Moves, Doing
<1>4. /\ clock' = clock /\ remote'.of.period = remote.of.period
      /\ Canceled => Canceled'
  BY <1>0, JobSpeaks DEF Speaks, Canceled
<1>5. CASE BeginSchedule(w) \/ CreateSchedule(w)
  BY <1>2, <1>3, <1>5, ScheduleMoves DEF Plans, Moves, Doing, At
<1>6. CASE ModifySchedule(w)
  <2>1. worker'[w].step \in {"latest", "fail"}
    BY <1>6, ScheduleMoves DEF Moves
  <2>2. ASSUME worker'[w].step = "latest" PROVE Opens' /\ clock = 1
    <3>1. ModifyPhases("release")
      BY <1>6, <2>2, GotoType DEF ModifySchedule, Steps
    <3>2. PhasesOpen /\ remote'.schedule = "release"
      BY <3>1, ModifyPhasesSpeaks
    <3>3. remote.of.period \in Nat /\ remote.of.period # 0
      BY DEF TypeOK, Remote, Snapshot, Periods
    <3>4. remote.of.period = 1
      BY <3>2, <3>3 DEF PhasesOpen, YearInv, NeverAnnualTwice
    <3> QED
      BY <3>2, <3>4 DEF PhasesOpen, InStep, Opens
  <2> QED
    BY <1>2, <1>3, <1>4, <2>1, <2>2 DEF Plans, Doing, At
<1>7. CASE LatestContract(w)
  <2>1. UNCHANGED stripe /\ At(w, "latest")
    BY <1>7 DEF LatestContract
  <2>2. (Opens' <=> Opens) /\ (Ends' <=> Ends) /\ (Canceled' <=> Canceled) /\ clock' = clock
    BY <2>1 DEF stripe, Opens, Ends, Canceled
  <2>3. Opens /\ (Canceled \/ clock = 1)
    BY <2>1 DEF PlanInv, Plans, Doing, At
  <2>4. worker'[w].step \in {"undo", "cut", "keep"}
    BY <1>7, ScheduleMoves DEF Moves
  <2>5. ASSUME worker'[w].step = "keep", contract.status = "cancellation_scheduled"
        PROVE  Ends
    <3>1. contract.until > 1
      <4>1. CASE contract.until <= 1
        <5>1. Goto(w, "cut")
          BY <1>7, <2>5, <4>1 DEF LatestContract
        <5> QED
          BY <2>5, <5>1, GotoType DEF Steps
      <4>2. contract.until \in Nat
        BY DEF TypeOK, ContractRow
      <4> QED
        BY <4>1, <4>2
    <3>2. contract.until = remote.of.period
      BY <2>5 DEF PlanInv
    <3> QED
      BY <2>3, <3>1, <3>2 DEF InStep, Ends
  <2> QED
    BY <1>1, <1>2, <1>3, <2>2, <2>3, <2>4, <2>5 DEF Plans, Doing, At
<1> QED
  BY <1>5, <1>6, <1>7

LEMMA JobHasPlan ==
  ASSUME Orderly, GoesOn, NEW w \in Workers, Job(w)
  PROVE  Plans(w)'
<1> USE DEF GoesOn, KnownInv, TypedInv
<1>1. CASE BeginSchedule(w) \/ CreateSchedule(w) \/ ModifySchedule(w) \/ LatestContract(w)
  BY <1>1, SchedulePlans
<1>2. CASE CancelAtStripe(w)
  BY <1>2, CancelPlans
<1>3. CASE BeginGuard(w)
  BY <1>3, GuardPlans
<1>4. CASE ~ (\/ BeginSchedule(w) \/ CreateSchedule(w) \/ ModifySchedule(w)
              \/ LatestContract(w) \/ CancelAtStripe(w) \/ BeginGuard(w))
  <2>1. worker'[w].step \in {"idle", "cancel", "accept", "stop", "stopped", "revoke"}
    BY <1>4, ScheduleMoves, CancellationMoves, WithdrawalMoves DEF Job, Moves
  <2> QED
    BY <2>1 DEF Plans, Doing, At, ScheduleSteps
<1> QED
  BY <1>1, <1>2, <1>3, <1>4

LEMMA JobKeepsContract ==
  ASSUME Orderly, GoesOn, NEW w \in Workers, Job(w)
  PROVE  PlanInv'
<1> USE DEF GoesOn, KnownInv, TypedInv
<1>1. remote'.of.period = remote.of.period /\ events \subseteq events'
  BY JobSpeaks DEF Speaks
<1>2. Canceled => Canceled'
  BY JobSpeaks DEF Speaks, Canceled
<1>3. /\ Opens => Opens'
      /\ remote.schedule = "release" => Opens'
      /\ Ends => Ends' \/ (ModifySchedule(w) /\ remote'.schedule = "release")
  BY JobKeepsPlan
<1>4. Plans(w)
  BY DEF PlanInv
<1>5. ~ At(w, "undo") /\ ~ At(w, "stopped")
  BY DEF WithdrawalInv, At, Doing, Stops
<1>6. sub'.period = sub.period /\ sub'.status = sub.status
  BY <1>5, JobStoresSubscription
<1>7. sub'.status = "canceled" \/ contract'.status = "ended" => Canceled'
  BY <1>2, <1>6, JobStoresEnd DEF PlanInv
<1>8. cancellation'.status = "scheduled" =>
        contract'.status # "active" /\ (Canceled' \/ sub'.period = remote'.of.period)
  <2>1. At(w, "scheduled") => sub.period = remote.of.period
    BY <1>4 DEF Plans, At, Doing
  <2> QED
    BY <1>1, <1>2, <1>6, <2>1, JobStoresEnd DEF PlanInv
<1>9. Announced'
  <2>1. Pending \subseteq Pending'
    <3>1. PICK from, to : "write" \notin to /\ Moves(w, from, to)
      BY JobMoves
    <3>2. ~ At(w, "write")
      BY ScheduleMoves, CancellationMoves, WithdrawalMoves DEF Job, Moves, At
    <3>3. worker[w].event = NoEvent
      BY <3>2 DEF Writers
    <3> QED
      BY <1>1, <3>1, <3>3 DEF Moves, Pending
  <2> QED
    BY <1>1, <1>2, <1>6, <2>1 DEF PlanInv, Announced
<1>10. ASSUME contract'.status = "cancellation_scheduled"
       PROVE  /\ contract'.until = remote'.of.period
              /\ Ends' \/ (Unscheduled' /\ remote'.schedule = "release")
  <2>1. CASE contract.status = "cancellation_scheduled" /\ contract'.until = contract.until
    <3>1. At(w, "keep") => Ends
      BY <1>4, <2>1 DEF Plans
    <3>2. ModifyPhases("cancel") => Ends'
      BY ModifyPhasesSpeaks DEF Ends
    <3>3. UNCHANGED stripe => (Ends' <=> Ends) /\ remote'.schedule = remote.schedule
      BY DEF stripe, Ends, Canceled
    <3>4. Ends' \/ Unscheduled' \/ contract'.schedule = contract.schedule
      BY <1>5, <3>1, <3>2, <3>3, JobStoresSchedule DEF Unscheduled
    <3>5. ModifySchedule(w) => Unscheduled'
      BY <1>4 DEF ModifySchedule, Plans, Doing, At, ScheduleSteps, Unscheduled, rows
    <3>6. Ends => Ends' \/ (Unscheduled' /\ remote'.schedule = "release")
      BY <1>3, <3>5
    <3>7. Unscheduled /\ remote.schedule = "release"
            => Ends' \/ (Unscheduled' /\ remote'.schedule = "release")
      BY <1>3, <3>4 DEF Opens, Unscheduled
    <3> QED
      BY <1>1, <2>1, <3>6, <3>7 DEF PlanInv
  <2>2. CASE \/ At(w, "scheduled") /\ contract'.until = worker[w].until /\ UNCHANGED stripe
             \/ At(w, "guarded") /\ contract'.until = sub.period /\ UNCHANGED stripe
    <3>1. Ends /\ contract'.until = remote.of.period /\ UNCHANGED stripe
      BY <1>4, <2>2 DEF Plans, At, Doing
    <3> QED
      BY <1>1, <3>1 DEF stripe, Ends, Canceled
  <2> QED
    BY <1>10, <2>1, <2>2, JobStoresEnd
<1>11. \A v \in Workers : Plans(v)'
  BY JobHasPlan, JobLeavesPlans
<1> QED
  BY <1>7, <1>8, <1>9, <1>10, <1>11 DEF PlanInv

\* What a process drops announces nothing: no end is confirmed before the period it
\* speaks of, so that the contract has ended.
LEMMA DroppedIsSettled ==
  ASSUME GoesOn, NEW e \in Pending, Settled(e.of)
  PROVE  Canceled
<1> USE DEF GoesOn, KnownInv, TypedInv
<1>1. CASE withdrawal \in {"accepted", "effective"}
  BY <1>1 DEF Decided
<1>2. CASE contract.status \in {"withdrawn", "ended"}
  BY <1>2 DEF WithdrawalInv, PlanInv
<1>3. CASE contract.status = "cancellation_scheduled" /\ e.of.period > contract.until
  <2>1. e.of.period = remote.of.period /\ contract.until = remote.of.period
    BY <1>3 DEF StripeInv, Sound, PlanInv
  <2>2. remote.of.period \in Nat
    BY DEF TypeOK, Remote, Snapshot, Periods
  <2> QED
    BY <1>3, <2>1, <2>2
<1> QED
  BY <1>1, <1>2, <1>3 DEF Settled

\* An event that is taken is written, or settled.
LEMMA TakingAnnounces ==
  ASSUME Orderly, GoesOn, NEW w \in Workers, TakeEvent(w)
  PROVE  Announced'
<1> USE DEF GoesOn, KnownInv, TypedInv
<1>0. remote' = remote /\ UNCHANGED rows
  BY DEF TakeEvent
<1>1. PICK e \in events, event \in Event :
        /\ Takes(w, event) /\ events' = events \ {e}
        /\ event.kind = e.kind
        /\ event.of = e.of \/ event.of = remote.of
  BY EventTaken
<1>2. e \in Pending /\ event # NoEvent
  <2>1. e \in Event
    BY DEF TypeOK
  <2> QED
    BY <2>1, NoEventAssumption DEF Pending
<1>3. CASE ~ Settled(event.of)
  <2>1. worker'[w].event = event /\ \A v \in Workers : v # w => worker'[v] = worker[v]
    BY <1>1, <1>3 DEF Takes
  <2>2. event \in Pending'
    BY <1>2, <2>1 DEF Pending
  <2>3. worker[w].event = NoEvent
    BY <1>1 DEF Takes, Writers, At
  <2>4. \A f \in Pending : f = e \/ f \in Pending'
    BY <1>1, <2>1, <2>3 DEF Pending
  <2> QED
    BY <1>0, <1>1, <2>2, <2>4 DEF PlanInv, Announced, Canceled, rows
<1>4. CASE Settled(event.of)
  <2>1. Canceled
    <3>1. CASE event.of = e.of
      BY <1>2, <1>4, <3>1, DroppedIsSettled
    <3>2. CASE event.of = remote.of
      <4>1. e.of.period = remote.of.period
        BY <1>2 DEF StripeInv, Sound
      <4>2. Settled(e.of)
        BY <1>4, <3>2, <4>1 DEF Settled
      <4> QED
        BY <1>2, <4>2, DroppedIsSettled
    <3> QED
      BY <1>1, <3>1, <3>2
  <2> QED
    BY <1>0, <2>1 DEF Announced, Canceled
<1> QED
  BY <1>3, <1>4

\* What is listed announces nothing more, and a crash gives back what was taken.
LEMMA OthersAnnounce ==
  ASSUME GoesOn, NEW w \in Workers, ListSubscription(w) \/ Crash(w)
  PROVE  Announced'
<1> USE DEF GoesOn, KnownInv, TypedInv
<1>0. remote' = remote /\ UNCHANGED rows
  BY DEF ListSubscription, Crash, stripe
<1>1. ASSUME \A e \in Pending : e \in Pending' \/ e.kind = "listed"
      PROVE  Announced'
  BY <1>0, <1>1 DEF PlanInv, Announced, Canceled, rows
<1>2. CASE ListSubscription(w)
  <2>1. PICK event \in Event : Takes(w, event) /\ UNCHANGED stripe
    BY <1>2, ListingTaken
  <2>2. /\ \A v \in Workers : v # w => worker'[v] = worker[v]
        /\ worker[w].event = NoEvent /\ events' = events
    BY <2>1 DEF Takes, Writers, At, stripe
  <2>3. Pending \subseteq Pending'
    BY <2>2 DEF Pending
  <2> QED
    BY <1>1, <2>3
<1>3. CASE Crash(w)
  <2>1. /\ \A v \in Workers : v # w => worker'[v] = worker[v]
        /\ \/ events' = events /\ (worker[w].event = NoEvent \/ worker[w].event.kind = "listed")
           \/ events' = events \cup {worker[w].event}
    BY <1>3, CrashedRows, LeaveType
  <2>2. \A e \in Pending : e \in Pending' \/ e = worker[w].event
    BY <2>1 DEF Pending
  <2>3. worker[w].event \in Pending => worker[w].event \in Pending'
                                       \/ worker[w].event.kind = "listed"
    BY <2>1 DEF Pending
  <2> QED
    BY <1>1, <2>2, <2>3
<1> QED
  BY <1>2, <1>3

\* Webhooks write what Stripe says, and plan nothing.
LEMMA WebhookKeepsContract ==
  ASSUME Orderly, GoesOn, NEW w \in Workers,
         TakeEvent(w) \/ ListSubscription(w) \/ WriteSubscription(w) \/ Crash(w)
  PROVE  PlanInv'
<1> USE DEF GoesOn, KnownInv, TypedInv
<1>1. remote' = remote /\ clock' = clock
  BY DEF TakeEvent, ListSubscription, WriteSubscription, Crash, stripe
<1>2. /\ Ends' <=> Ends
      /\ Opens' <=> Opens
      /\ Canceled' <=> Canceled
  BY <1>1 DEF Ends, Opens, Canceled
<1>3. /\ \A v \in Workers : worker'[v] = worker[v] \/ worker'[v].step \in {"idle", "write"}
  BY WebhookAttends DEF Attends
<1>4. ASSUME sub'.period \in {sub.period, remote.of.period},
             contract'.status = contract.status \/ contract'.status = "ended",
             contract'.schedule = contract.schedule
      PROVE  \A v \in Workers : Plans(v)'
  <2> SUFFICES ASSUME NEW v \in Workers PROVE Plans(v)'
    OBVIOUS
  <2>1. Plans(v)
    BY DEF PlanInv
  <2>2. CASE worker'[v] = worker[v]
    BY <1>1, <1>2, <1>4, <2>1, <2>2, PlansStay DEF Unscheduled
  <2>3. CASE worker'[v].step \in {"idle", "write"}
    BY <2>3 DEF Plans, Doing, At, ScheduleSteps
  <2> QED
    BY <1>3, <2>2, <2>3
<1>5. CASE WriteSubscription(w)
  <2>1. PICK event \in Event :
          /\ worker[w].event = event /\ event # NoEvent
          /\ sub'.status = event.of.status /\ sub'.period = event.of.period
          /\ contract'.schedule = contract.schedule /\ contract'.until = contract.until
          /\ contract'.status = contract.status
             \/ (contract'.status = "ended" /\ event.of.status = "canceled")
          /\ cancellation'.status \in {cancellation.status, "effective"}
    BY <1>5, WrittenRows
  <2>2. Sound(event) /\ Honest(event)
    BY <2>1 DEF Pending, StripeInv, FinalInv
  <2>3. sub'.period = remote.of.period
    BY <2>1, <2>2 DEF Sound
  <2>4. sub'.status = "canceled" \/ contract'.status = "ended" => Canceled
    BY <2>1, <2>2 DEF Honest, PlanInv
  <2>5. \A v \in Workers : Plans(v)'
    BY <1>4, <2>1, <2>3
  <2>6. cancellation'.status = "scheduled" =>
          contract'.status # "active" /\ sub'.period = remote'.of.period
    BY <1>1, <2>1, <2>3 DEF PlanInv
  <2>7. contract'.status = "cancellation_scheduled" =>
          /\ contract'.until = remote'.of.period
          /\ Ends' \/ (Unscheduled' /\ remote'.schedule = "release")
    BY <1>1, <1>2, <2>1 DEF PlanInv, Unscheduled
  <2>8. Announced'
    BY <1>1, <2>3 DEF Announced
  <2> QED
    BY <1>2, <2>4, <2>5, <2>6, <2>7, <2>8 DEF PlanInv
<1>6. CASE ~ WriteSubscription(w)
  <2>1. UNCHANGED rows
    BY <1>6 DEF TakeEvent, ListSubscription, Crash
  <2>2. \A v \in Workers : Plans(v)'
    BY <1>4, <2>1 DEF rows
  <2>3. Announced'
    BY <1>6, TakingAnnounces, OthersAnnounce
  <2> QED
    BY <1>1, <1>2, <2>1, <2>2, <2>3 DEF PlanInv, Unscheduled, rows
<1> QED
  BY <1>5, <1>6

\* The batch ends what Stripe has ended, and tells Stripe before it confirms an end.
LEMMA BatchKeepsContract ==
  ASSUME Orderly, GoesOn, EndDue \/ ApplyDue \/ DoubtSchedule
  PROVE  PlanInv'
<1> USE DEF GoesOn, KnownInv, TypedInv
<1>1. Speaks /\ Spares /\ worker' = worker /\ sub'.period = sub.period
  BY BatchRows
<1>2. /\ remote'.of.period = remote.of.period
      /\ clock' = clock /\ events \subseteq events' /\ (Canceled => Canceled')
  BY <1>1 DEF Speaks, Canceled
<1>3. (Ends => Ends') /\ (Opens => Opens') /\ (remote.schedule = "release" => Opens')
  BY <1>1 DEF Spares, Opens
<1>4. Announced'
  <2>1. Pending \subseteq Pending'
    BY <1>1, <1>2 DEF Pending
  <2> QED
    BY <1>1, <1>2, <2>1 DEF PlanInv, Announced
<1>5. ASSUME contract'.status = contract.status \/ contract'.status = "ended",
             contract'.schedule = contract.schedule \/ contract'.schedule = "failed"
      PROVE  \A v \in Workers : Plans(v)'
  <2> SUFFICES ASSUME NEW v \in Workers PROVE Plans(v)'
    OBVIOUS
  <2>1. Plans(v) /\ worker'[v] = worker[v]
    BY <1>1 DEF PlanInv
  <2> QED
    BY <1>1, <1>2, <1>3, <1>5, <2>1, PlansStay DEF Unscheduled
<1>6. CASE EndDue
  <2>1. Canceled
    <3>1. sub.status = "canceled" \/ sub.period < clock
      BY <1>6 DEF EndDue, Over
    <3>2. Canceled \/ sub.period = remote.of.period
      BY <1>6 DEF EndDue, PlanInv
    <3>3. clock \in Nat
      BY DEF TypeOK, Periods
    <3> QED
      BY <3>1, <3>2, <3>3 DEF PlanInv, InStep
  <2>2. /\ contract'.status = "ended" /\ contract'.schedule = contract.schedule
        /\ cancellation'.status = "effective"
    BY <1>6 DEF EndDue, TypeOK, ContractRow
  <2> QED
    BY <1>2, <1>4, <1>5, <2>1, <2>2 DEF PlanInv
<1>7. CASE ApplyDue
  <2>1. ~ Canceled /\ Ends'
    BY <1>7, EndAtPeriodEndSpeaks DEF ApplyDue, Ends
  <2>2. /\ contract'.status = contract.status /\ contract'.schedule = contract.schedule
        /\ contract'.until = sub.period /\ sub.period = clock
        /\ cancellation'.status = cancellation.status /\ sub'.status = sub.status
    BY <1>7 DEF ApplyDue, DueNow, TypeOK, ContractRow, SubscriptionRow
  <2>3. contract'.until = remote'.of.period
    BY <1>2, <2>1, <2>2 DEF InStep
  <2> QED
    BY <1>1, <1>2, <1>3, <1>4, <1>5, <2>1, <2>2, <2>3 DEF PlanInv
<1>8. CASE DoubtSchedule
  <2>1. /\ contract'.status = contract.status /\ contract.status = "active"
        /\ contract'.schedule = "failed" /\ sub' = sub /\ cancellation' = cancellation
    BY <1>8 DEF DoubtSchedule, InGuard, TypeOK, ContractRow
  <2> QED
    BY <1>1, <1>2, <1>4, <1>5, <2>1 DEF PlanInv
<1> QED
  BY <1>6, <1>7, <1>8

\* An invoice, paid or not, changes no plan.
LEMMA InvoiceKeepsContract ==
  ASSUME GoesOn, PaymentFailed \/ PayInvoice \/ FailInvoice \/ GiveUp
  PROVE  PlanInv'
<1> USE DEF GoesOn, KnownInv, TypedInv
<1>1. /\ UNCHANGED <<contract, cancellation, worker, clock>>
      /\ sub'.period = sub.period /\ (sub'.status = sub.status \/ sub'.status = "past_due")
      /\ remote'.of.period = remote.of.period
      /\ Canceled => Canceled'
      /\ remote'.of.ending = remote.of.ending /\ remote'.schedule = remote.schedule
      /\ \A e \in events : e \in events' \/ e.kind = "failed"
  <2>1. CASE PaymentFailed
    BY <2>1, PaymentFailedRows DEF Canceled
  <2>2. CASE PayInvoice \/ FailInvoice \/ GiveUp
    BY <2>2, InvoiceSays DEF rows
  <2> QED
    BY <2>1, <2>2
<1>2. (Ends => Ends') /\ (Opens => Opens')
  BY <1>1 DEF Ends, Opens
<1>3. Announced'
  <2>1. \A e \in Pending : e \in Pending' \/ e.kind = "failed"
    BY <1>1 DEF Pending
  <2> QED
    BY <1>1, <1>2, <2>1 DEF PlanInv, Announced
<1>4. \A v \in Workers : Plans(v)'
  <2> SUFFICES ASSUME NEW v \in Workers PROVE Plans(v)'
    OBVIOUS
  <2>1. Plans(v) /\ worker'[v] = worker[v]
    BY <1>1 DEF PlanInv
  <2> QED
    BY <1>1, <1>2, <2>1, PlansStay DEF Unscheduled
<1> QED
  BY <1>1, <1>2, <1>3, <1>4 DEF PlanInv, Unscheduled

\* Stripe begins another period for an active contract only: the months of one that
\* was to end have been replaced.
LEMMA OnlyActiveRenew ==
  ASSUME GoesOn, Quiet, ~ Canceled, ~ Ending
  PROVE  contract.status = "active"
<1> USE DEF GoesOn, KnownInv, TypedInv
<1>1. contract.status \notin {"withdrawn", "ended"}
  BY DEF WithdrawalInv, PlanInv
<1>2. contract.status # "cancellation_scheduled"
  BY DEF PlanInv, Quiet, Ending, Ends
<1> QED
  BY <1>1, <1>2 DEF TypeOK, ContractRow

LEMMA TimeKeepsContract ==
  ASSUME Orderly, GoesOn, NextPeriod
  PROVE  PlanInv'
<1> USE DEF GoesOn, KnownInv, TypedInv
<1>1. /\ Quiet /\ UNCHANGED <<rows, worker, paid>>
  BY PeriodTurns
<1>2. \A v \in Workers : Plans(v)'
  BY <1>1 DEF Quiet, Plans, Doing, At, ScheduleSteps
<1>3. CASE Canceled /\ remote' = remote /\ events' = events
  BY <1>1, <1>2, <1>3
  DEF PlanInv, Announced, Unscheduled, Ends, Canceled, rows
<1>4. CASE Canceled' /\ remote'.of.period = remote.of.period
  BY <1>1, <1>2, <1>4
  DEF PlanInv, Announced, Unscheduled, Ends, rows
<1>5. CASE /\ ~ Canceled /\ ~ Ending
           /\ events' = events \cup {[kind |-> "updated", of |-> remote'.of]}
  <2>1. contract.status = "active"
    BY <1>1, <1>5, OnlyActiveRenew
  <2>2. [kind |-> "updated", of |-> remote'.of] \in Pending'
    <3>1. remote'.of \in Snapshot
      BY PeriodTurns DEF Remote
    <3>2. [kind |-> "updated", of |-> remote'.of] \in Event
      BY <3>1 DEF Event
    <3> QED
      BY <1>5, <3>2, NoEventAssumption DEF Pending
  <2>3. Announced'
    BY <2>2 DEF Announced
  <2>4. cancellation.status # "scheduled" /\ sub.status # "canceled"
    BY <1>5, <2>1 DEF PlanInv
  <2> QED
    BY <1>1, <1>2, <2>1, <2>3, <2>4 DEF PlanInv, rows
<1> QED
  BY <1>3, <1>4, <1>5, PeriodTurns

LEMMA NextPlan ==
  ASSUME Orderly, GoesOn, [Next]_vars
  PROVE  PlanInv'
<1>1. CASE UNCHANGED vars
  BY <1>1 DEF GoesOn, PlanInv, Announced, Plans, Doing, At,
     Unscheduled, Ends, Opens, Canceled, Pending, vars, rows, stripe
<1>2. ASSUME NEW w \in Workers, Job(w) PROVE PlanInv'
  BY <1>2, JobKeepsContract
<1>3. ASSUME NEW w \in Workers, \/ TakeEvent(w) \/ ListSubscription(w)
                                \/ WriteSubscription(w) \/ Crash(w)
      PROVE  PlanInv'
  BY <1>3, WebhookKeepsContract
<1> QED
  BY <1>1, <1>2, <1>3, BatchKeepsContract, InvoiceKeepsContract, TimeKeepsContract
  DEF Next, Begin, Continue, Job

LEMMA InitPlan == Init => PlanInv
<1> SUFFICES ASSUME Init PROVE PlanInv
  OBVIOUS
<1>1. \A w \in Workers : Plans(w)
  BY DEF Init, Plans, Doing, At, Idle, ScheduleSteps
<1> QED
  BY <1>1 DEF Init, PlanInv, Announced, Bought

LEMMA InitContract == Init => ContractInv
  BY InitTyped, InitStripe, InitWithdrawal, InitFinal, InitYear, InitAlone, InitPlan
  DEF ContractInv, KnownInv, TypedInv

LEMMA NextContract == ASSUME Orderly, ContractInv, [Next]_vars PROVE ContractInv'
<1> USE DEF ContractInv, KnownInv
<1>1. TypedInv'
  BY NextTyped, NextWriters DEF TypedInv
<1>2. StripeInv' /\ YearInv'
  BY NextStripe, NextYear DEF Orderly
<1>3. WithdrawalInv' /\ FinalInv' /\ AloneInv'
  BY NextWithdrawal, NextFinal, NextAlone
<1>4. ~ Decided' => PlanInv'
  BY NextWithdrawal, NextPlan DEF GoesOn
<1> QED
  BY <1>1, <1>2, <1>3, <1>4

\* For every number of processes and periods, and whatever calls fail, processes
\* crash, invoices stay unpaid, withdrawals run between a webhook's check and its
\* write, and over contracts are cancelled: a contract is recorded as ended only when
\* Stripe charges no more, if cancellations name the end of the period they are made
\* in, and jobs that share a row take turns and read it when its events are in.
THEOREM EndedIsOver == ASSUME Orderly PROVE Spec => []EndedIsStopped
<1>1. ContractInv => EndedIsStopped
  BY DEF ContractInv, KnownInv, TypedInv, TypeOK, FinalInv, PlanInv, Decided, EndedIsStopped
<1>2. ContractInv /\ [Next]_vars => ContractInv'
  BY NextContract
<1> QED
  BY InitContract, <1>1, <1>2, PTL DEF Spec

\* If no withdrawal runs between a webhook's check and its write either, what is over
\* is over on both sides: for the user, and at Stripe.
THEOREM OverIsOver ==
  ASSUME Orderly, "read_committed" \notin Faults
  PROVE  Spec => []EndIsEnd
BY AccessIsOver, EndedIsOver, PTL DEF EndIsEnd

-----------------------------------------------------------------------------
(* What is confirmed *)

\* Nobody holds a contract whose withdrawal is accepted, so that none of these is
\* confirmed to end.
DecisionInv ==
  /\ \A w \in Workers : Holding(w) => ~ Decided
  /\ Decided => contract.status \in {"withdrawn", "ended"}

\* Who reads the contract to save it finds one that goes on.
LEMMA JobHolds ==
  ASSUME "cancel_over" \notin Faults, TypeOK, Writers, NEW w \in Workers, Job(w), Holding(w)'
  PROVE  Holding(w) \/ contract.status \in {"active", "cancellation_scheduled"}
<1>1. BeginCancellation(w) \/ BeginGuard(w) \/ CancelAtStripe(w)
  BY ScheduleMoves, CancellationMoves, WithdrawalMoves DEF Job, Moves, Holding
<1> QED
  BY <1>1 DEF BeginCancellation, BeginGuard, ToGuard, InGuard, CancelAtStripe, Holding, At

\* Jobs keep what is confirmed.
LEMMA JobKeepsDecision ==
  ASSUME Orderly, "cancel_over" \notin Faults, TypedInv, WithdrawalInv, DecisionInv,
         NEW w \in Workers, Job(w)
  PROVE  DecisionInv'
<1> USE DEF TypedInv
<1>1. \A v \in Workers : v # w => worker'[v] = worker[v]
  BY JobMoves DEF Moves
<1>2. \A v \in Workers : Holding(v) => v = w
  BY JobFresh DEF Fresh, Orderly
<1>3. ASSUME Holding(w)' => ~ Decided', Decided' => contract'.status \in {"withdrawn", "ended"}
      PROVE  DecisionInv'
  <2>1. \A v \in Workers : Holding(v)' => ~ Decided'
    BY <1>1, <1>2, <1>3 DEF Holding
  <2> QED
    BY <1>3, <2>1 DEF DecisionInv
<1>4. CASE Carries(w)
  <2>1. Decided' = Decided
    BY <1>4 DEF Carries, Decided
  <2>2. Holding(w)' => ~ Decided
    BY JobHolds DEF DecisionInv
  <2>3. Doing(w, {"scheduled", "guarded"}) => ~ Decided
    BY DEF DecisionInv, Doing, Holding
  <2> QED
    BY <1>3, <1>4, <2>1, <2>2, <2>3 DEF Carries, DecisionInv
<1>5. CASE Declares(w) \/ Refers(w)
  BY <1>3, <1>5 DEF Declares, Refers, Decided
<1>6. CASE Accepts(w)
  BY <1>3, <1>6 DEF Accepts, Holding
<1>7. CASE Completes(w)
  <2>1. Decided
    BY <1>7 DEF Completes, WithdrawalInv, At, Doing, Stops
  <2> QED
    BY <1>3, <1>7, <2>1 DEF Completes, DecisionInv, Holding
<1> QED
  BY <1>4, <1>5, <1>6, <1>7, JobDecides

LEMMA NextDecision ==
  ASSUME Orderly, "cancel_over" \notin Faults, TypedInv, WithdrawalInv, DecisionInv,
         [Next]_vars
  PROVE  DecisionInv'
<1>1. CASE \E w \in Workers : Job(w)
  BY <1>1, JobKeepsDecision
<1>2. CASE Attends
  <2>1. Decided' = Decided
    BY <1>2 DEF Attends, Decided
  <2> QED
    BY <1>2, <2>1 DEF Attends, DecisionInv, Holding
<1> QED
  BY <1>1, <1>2, WebhookAttends, OthersAttend DEF Next, Begin, Continue, Job

LEMMA InitDecision == Init => DecisionInv
  BY DEF Init, DecisionInv, Holding, Idle, Decided

\* Under the hypothesis of EndedIsOver, and if over contracts are not cancelled:
\* Stripe never begins a period after a confirmed end.
THEOREM EndIsConfirmed ==
  ASSUME Orderly, "cancel_over" \notin Faults
  PROVE  Spec => []ConfirmedEndHolds
<1>1. Init => ContractInv /\ DecisionInv
  BY InitContract, InitDecision
<1>2. ContractInv /\ DecisionInv /\ [Next]_vars => ContractInv' /\ DecisionInv'
  BY NextContract, NextDecision DEF ContractInv, KnownInv
<1>3. ContractInv /\ DecisionInv => ConfirmedEndHolds
  <2>1. ContractInv => remote.of.period \in Nat
    BY DEF ContractInv, KnownInv, TypedInv, TypeOK, Remote, Snapshot, Periods
  <2> QED
    BY <2>1 DEF ContractInv, DecisionInv, PlanInv, ConfirmedEndHolds
<1> QED
  BY <1>1, <1>2, <1>3, PTL DEF Spec
=============================================================================
