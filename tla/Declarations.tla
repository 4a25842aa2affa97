----------------------------- MODULE Declarations -----------------------------
(***************************************************************************)
(* Declarations of withdrawal (billing/declarations.py) for the package of *)
(* Ledger, whose contract refunds pro rata: anybody submits one with the   *)
(* public form, the owner of the matching account confirms it by a mailed  *)
(* link, the owner declares on the contract page, the operator decides.    *)
(*                                                                         *)
(* Mails are sent by a thread per submission, which may die, and by the    *)
(* batch command, which takes up what is not done. Whoever applies a       *)
(* declaration runs the withdrawal of Ledger; a link and the operator do   *)
(* so in one transaction that also holds the declaration's row, the        *)
(* owner's request in three.                                               *)
(***************************************************************************)
EXTENDS Ledger

CONSTANTS
  Public, Own,  \* declarations by the form and on the contract page
  Batch,        \* the process of billing_process_declarations
  Nonces,       \* tokens of links; one that is nowhere any more may come again
  Loads,        \* bound: how many of each operation one behaviour sees
  Faults,       \* "overlap": the batch meets a thread that is still mailing
  None

Forms == Public \cup Own
Jobs == Public \cup {Batch}

Mails == {"pending", "sent", "failed"}
Declaration ==
  [status: {"received", "awaiting_confirmation", "needs_review", "effective", "rejected"},
   owner: BOOLEAN, linked: BOOLEAN, late: BOOLEAN, lapsed: BOOLEAN,
   hash: Nonces \cup {None}, ack: Mails, confirm: Mails]
Job == [at: {"idle", "finish", "look", "deliver", "mark", "next"}, what: {"ack", "confirm"},
        form: Forms \cup {None}, token: Nonces \cup {None}, whole: BOOLEAN, ok: BOOLEAN]

\* Two debits were made where the package is sold already.
ASSUME DeclarationsAssumption ==
  /\ \E first, second \in Debits : first # second
  /\ Public \cap Own = {} /\ Batch \notin Forms
  /\ None \notin Declaration

VARIABLES
  contract,  \* of the package: [status, review]
  decl,      \* Declaration rows
  link,      \* links the account's address has got: <<declaration, token>>
  job,       \* the thread of each submission, and the batch
  phase,     \* the loop of retry_declaration_emails the batch is in
  todo,      \* what its query returned and it has not come to
  apply,     \* by declaration: the request that applies it
  left       \* bound: calls still to come, by operation

rowVars == <<contract, decl, apply>>
mailVars == <<link, job, phase, todo>>
vars == <<ledgerVars, rowVars, mailVars, left>>

NoJob == [at |-> "idle", what |-> "ack", form |-> None, token |-> None,
          whole |-> FALSE, ok |-> FALSE]
Nobody == [at |-> "idle", ok |-> FALSE]

TypeOK ==
  /\ LedgerTypeOK
  /\ contract \in [status: {"active", "withdrawn"}, review: BOOLEAN]
  /\ decl \in [Forms -> Declaration \cup {None}]
  /\ link \subseteq Public \X Nonces
  /\ job \in [Jobs -> Job]
  /\ phase \in 1 .. 4 /\ todo \subseteq Forms
  /\ apply \in [Forms -> [at: {"idle", "begin", "own", "locked", "contract", "status"},
                        ok: BOOLEAN]]

\* The package is bought, the grant has expired, and both debits were made, of
\* which the first was reversed.
Sold ==
  /\ plan = MaxPlan /\ sync = [step |-> "idle", fingerprint |-> 0]
  /\ prices = <<[fingerprint |-> MaxPlan, price |-> MaxPlan]>>
  /\ remote = [v \in 1 .. MaxPlan + 1 |-> IF v = 1 THEN MaxPlan ELSE 0]
  /\ attempt = [status |-> "paid", bound |-> TRUE] /\ request = "idle"
  /\ session = "paid" /\ events = {} /\ clock = 1
  /\ LET first == CHOOSE ref \in Debits : TRUE
         second == CHOOSE ref \in Debits \ {first} : TRUE IN
     entries = <<[Entry("grant", "plan", Granted, 0) EXCEPT !.remaining = 0],
                 [Entry("purchase", "package", Tokens, 0) EXCEPT !.remaining = Tokens - 1],
                 Entry("debit", first, 0, Granted), Entry("adjustment", first, Granted, 0),
                 Entry("debit", second, 0, 1)>>
  /\ purchase = [status |-> "active", refund |-> 0, by |-> "nobody"]
  /\ withdraw = [step |-> "idle", cents |-> 0] /\ refund = 0

Init ==
  /\ left \in Loads
  /\ IF left.form + left.own = 0 THEN LedgerInit ELSE Sold
  /\ contract = [status |-> "active", review |-> FALSE]
  /\ decl = [d \in Forms |-> None]
  /\ link = {} /\ phase = 1 /\ todo = {}
  /\ job = [j \in Jobs |-> NoJob]
  /\ apply = [d \in Forms |-> Nobody]

Count(op) == left[op] > 0 /\ left' = [left EXCEPT ![op] = @ - 1]
Is(d, statuses) == decl[d] # None /\ decl[d].status \in statuses

\* The transaction of a confirmation or a decision holds the row.
Unlocked(d) == apply[d].at # "locked"

-------------------------------------------------------------------------------
(* Intake, and the mails of a declaration.                                   *)

Row(owner, linked) ==
  [status |-> "received", owner |-> owner, linked |-> linked, late |-> clock = 2,
   lapsed |-> FALSE, hash |-> None, ack |-> "pending", confirm |-> "pending"]

Goto(j, at) == job' = [job EXCEPT ![j].at = at]
Finishing(d) == [NoJob EXCEPT !.at = "finish", !.form = d, !.whole = TRUE]
\* The job is done with its declaration; the batch goes to the next.
Rest(j) == [NoJob EXCEPT !.at = IF j = Batch THEN "next" ELSE "idle"]
Done(j) == job' = [job EXCEPT ![j] = Rest(j)]

\* create_public_declaration: stored and answered whether or not the address is
\* the owner's; the server may stop before the thread has started.
Submit(d) ==
  /\ d \in Public /\ decl[d] = None /\ Count("form")
  /\ \E owner \in BOOLEAN : decl' = [decl EXCEPT ![d] = Row(owner, FALSE)]
  /\ job' \in {job, [job EXCEPT ![d] = Finishing(d)]}
  /\ UNCHANGED <<ledgerVars, contract, apply, link, phase, todo>>

Matches(d) == decl[d].owner /\ purchase.status # "none" /\ contract.status = "active"

\* _confirmation_token: a nonce that is not around. Bound: there is one left.
Unused(d) == {n \in Nonces :
  n # decl[d].hash /\ <<d, n>> \notin link /\ \A j \in Jobs : job[j].token # n}
Fresh(d) == CHOOSE n \in Unused(d) : TRUE

Look(j, what, d, token, whole) ==
  job' = [job EXCEPT ![j] = [at |-> "look", what |-> what, form |-> d, token |-> token,
                             whole |-> whole, ok |-> FALSE]]

\* finish_public_declaration under the row's lock.
Finish(j) ==
  LET d == job[j].form IN
  /\ job[j].at = "finish" /\ Unlocked(d)
  /\ \/ decl[d].status # "received" /\ Done(j) /\ UNCHANGED decl
     \/ /\ decl[d].status = "received" /\ Matches(d) /\ Unused(d) # {}
        /\ decl' = [decl EXCEPT ![d].status = "awaiting_confirmation", ![d].linked = TRUE,
                                ![d].hash = Fresh(d)]
        /\ Look(j, "confirm", d, Fresh(d), TRUE)
     \/ /\ decl[d].status = "received" /\ ~Matches(d)
        /\ decl' = [decl EXCEPT ![d].status = "needs_review"]
        /\ Look(j, "ack", d, None, TRUE)
  /\ UNCHANGED <<ledgerVars, contract, apply, link, phase, todo, left>>

\* After the link, finish_public_declaration sends the acknowledgement.
AfterMail(j) ==
  IF job[j].whole /\ job[j].what = "confirm"
  THEN Look(j, "ack", job[j].form, None, TRUE) ELSE Done(j)

\* send_confirmation_email and send_acknowledgement: a mail that was sent is
\* not sent again ...
LookUp(j) ==
  /\ job[j].at = "look"
  /\ IF decl[job[j].form][job[j].what] = "sent" THEN AfterMail(j) ELSE Goto(j, "deliver")
  /\ UNCHANGED <<ledgerVars, rowVars, link, phase, todo, left>>

\* ... the mail server takes it or not ...
Deliver(j) ==
  /\ job[j].at = "deliver"
  /\ \/ /\ job' = [job EXCEPT ![j].at = "mark", ![j].ok = TRUE]
        /\ link' = IF job[j].what = "confirm"
                   THEN link \cup {<<job[j].form, job[j].token>>} ELSE link
        /\ UNCHANGED left
     \/ Goto(j, "mark") /\ Count("refuse") /\ UNCHANGED link
  /\ UNCHANGED <<ledgerVars, rowVars, phase, todo>>

\* ... and the row says so.
Mark(j) ==
  LET d == job[j].form  status == IF job[j].ok THEN "sent" ELSE "failed" IN
  /\ job[j].at = "mark" /\ Unlocked(d)
  /\ decl' = [decl EXCEPT ![d] = IF job[j].what = "ack" THEN [@ EXCEPT !.ack = status]
                                                       ELSE [@ EXCEPT !.confirm = status]]
  /\ AfterMail(j)
  /\ UNCHANGED <<ledgerVars, contract, apply, link, phase, todo, left>>

JobDies(j) ==
  /\ job[j].at # "idle" /\ Count("die")
  /\ job' = [job EXCEPT ![j] = NoJob]
  /\ todo' = IF j = Batch THEN {} ELSE todo
  /\ UNCHANGED <<ledgerVars, rowVars, link, phase>>

-------------------------------------------------------------------------------
(* retry_declaration_emails: four loops over what a query returned.          *)

Unsent == {"pending", "failed"}
BugStuck == {}
Stuck == {d \in Public : Is(d, {"received"})}
Unacknowledged == {d \in Forms : decl[d] # None /\ decl[d].ack \in Unsent}
Undelivered(lapsed) ==
  {d \in Public : Is(d, {"awaiting_confirmation"}) /\ decl[d].confirm \in Unsent
                  /\ decl[d].lapsed = lapsed}
\* Without the fault the batch leaves alone what a thread is mailing.
Apart(d) == "overlap" \in Faults \/ job[d].at = "idle"

Due(loop) == CASE loop = 1 -> Stuck
               [] loop = 2 -> Unacknowledged
               [] loop = 3 -> {d \in Undelivered(FALSE) : Apart(d)}
               [] loop = 4 -> Undelivered(TRUE)

\* The loops' queries run one after the other, each when its loop begins.
BeginLoop(loop) ==
  /\ phase' = loop /\ todo' = Due(loop) /\ Goto(Batch, "next")
  /\ UNCHANGED <<ledgerVars, rowVars, link, left>>
BeginBatch == job[Batch].at = "idle" /\ (\E d \in Forms : decl[d] # None) /\ BeginLoop(1)
NextLoop == job[Batch].at = "next" /\ todo = {} /\ phase < 4 /\ BeginLoop(phase + 1)
EndBatch ==
  /\ job[Batch].at = "next" /\ todo = {} /\ phase = 4
  /\ phase' = 1 /\ Goto(Batch, "idle")
  /\ UNCHANGED <<ledgerVars, rowVars, link, todo, left>>

TakeUp(d, at) == job[Batch].at = "next" /\ phase = at /\ d \in todo /\ todo' = todo \ {d}

FinishStuck(d) ==
  /\ TakeUp(d, 1)
  /\ job' = [job EXCEPT ![Batch] = Finishing(d)]
  /\ UNCHANGED <<ledgerVars, rowVars, link, phase, left>>

Acknowledge(d) ==
  /\ TakeUp(d, 2)
  /\ Look(Batch, "ack", d, None, FALSE)
  /\ UNCHANGED <<ledgerVars, rowVars, link, phase, left>>

BugSaved(d, n) == decl
Saved(d, n) == [decl EXCEPT ![d].hash = n]
\* A new token replaces the old one, whose links are dead from now on; then its
\* mail. The row is the one the query returned.
Renew(d) ==
  /\ TakeUp(d, 3) /\ Unlocked(d) /\ Unused(d) # {}
  /\ decl' = Saved(d, Fresh(d))
  /\ link' = {l \in link : l[1] # d}
  /\ Look(Batch, "confirm", d, Fresh(d), FALSE)
  /\ UNCHANGED <<ledgerVars, contract, apply, phase, left>>

\* A link that could not be delivered in its time: the operator decides.
GiveUp(d) ==
  /\ TakeUp(d, 4) /\ Unlocked(d)
  /\ decl' = [decl EXCEPT ![d].status = "needs_review"]
  /\ UNCHANGED <<ledgerVars, contract, apply, link, job, phase, left>>

\* Fourteen days after a declaration the purchase's own fourteen days are over.
Lapse(d) ==
  /\ clock = 2 /\ Is(d, {"awaiting_confirmation"}) /\ ~decl[d].lapsed
  /\ decl' = [decl EXCEPT ![d].lapsed = TRUE]
  /\ UNCHANGED <<ledgerVars, contract, apply, mailVars, left>>

-------------------------------------------------------------------------------
(* apply_withdrawal_declaration: the withdrawal of Ledger as of the receipt. *)

\* What is saved when the withdrawal has succeeded, or was refused for review.
Contract(ok) == IF ok THEN [contract EXCEPT !.status = "withdrawn"]
                      ELSE [contract EXCEPT !.review = TRUE]
Outcome(ok) == IF ok THEN "effective" ELSE "needs_review"
\* A token is of no use to a declaration that does not wait any more.
Conclude(d, ok) ==
  /\ contract' = Contract(ok)
  /\ decl' = [decl EXCEPT ![d].status = Outcome(ok), ![d].hash = None]

\* A withdrawn purchase counts as done, one declared too late is refused.
Withdrawn == withdraw.step = "idle" /\ purchase.status = "withdrawn"
Refused(d) == withdraw.step = "idle" /\ purchase.status = "active" /\ decl[d].late

\* A link and the operator: all in one transaction, open while Stripe is called.
ApplyLocked(d) ==
  \/ /\ Withdrawn \/ Refused(d)
     /\ Conclude(d, Withdrawn)
     /\ UNCHANGED <<ledgerVars, apply>>
  \/ /\ ~decl[d].late /\ LockPurchase
     /\ apply' = [apply EXCEPT ![d].at = "locked"]
     /\ UNCHANGED <<contract, decl>>

\* confirm_public_declaration
Confirm(d) ==
  /\ Is(d, {"awaiting_confirmation"}) /\ Unlocked(d) /\ Count("click")
  /\ <<d, decl[d].hash>> \in link /\ ~decl[d].lapsed
  /\ ApplyLocked(d)
  /\ UNCHANGED mailVars

\* billing_resolve_declaration; --contract names the contract of the package.
Accept(d) ==
  /\ decl[d] # None /\ ~Is(d, {"effective", "rejected"}) /\ apply[d].at = "idle"
  /\ purchase.status # "none" /\ Count("resolve")
  /\ ApplyLocked(d)
  /\ UNCHANGED mailVars

Reject(d) ==
  /\ decl[d] # None /\ ~Is(d, {"effective", "rejected"}) /\ Unlocked(d)
  /\ Count("resolve")
  /\ decl' = [decl EXCEPT ![d].status = "rejected"]
  /\ UNCHANGED <<ledgerVars, contract, apply, mailVars>>

\* contract_withdraw and create_owner_declaration: a request that finds an
\* earlier declaration of the owner returns it; this one stores a new one.
DeclareOwn(d) ==
  /\ d \in Own /\ decl[d] = None /\ Count("own")
  /\ \A e \in Own : ~Is(e, {"received", "effective"})
  /\ decl' = [decl EXCEPT ![d] = Row(TRUE, TRUE)]
  /\ apply' = [apply EXCEPT ![d].at = "begin"]
  /\ UNCHANGED <<ledgerVars, contract, mailVars>>

\* The owner's request commits the withdrawal, the contract and the declaration
\* one by one.
ApplyOwn(d) ==
  /\ apply[d].at = "begin"
  /\ \/ /\ Withdrawn \/ Refused(d)
        /\ apply' = [apply EXCEPT ![d] = [at |-> "contract", ok |-> Withdrawn]]
        /\ UNCHANGED ledgerVars
     \/ /\ ~decl[d].late /\ LockPurchase
        /\ apply' = [apply EXCEPT ![d].at = "own"]
  /\ UNCHANGED <<contract, decl, mailVars, left>>

SaveContract(d) ==
  /\ apply[d].at = "contract"
  /\ contract' = Contract(apply[d].ok)
  /\ apply' = [apply EXCEPT ![d].at = "status"]
  /\ UNCHANGED <<ledgerVars, decl, mailVars, left>>

SaveDeclaration(d) ==
  /\ apply[d].at = "status"
  /\ decl' = [decl EXCEPT ![d].status = Outcome(apply[d].ok)]
  /\ apply' = [apply EXCEPT ![d] = Nobody]
  /\ UNCHANGED <<ledgerVars, contract, mailVars, left>>

RequestDies(d) ==
  /\ apply[d].at \in {"begin", "contract", "status"} /\ Count("die")
  /\ apply' = [apply EXCEPT ![d] = Nobody]
  /\ UNCHANGED <<ledgerVars, contract, decl, mailVars>>

\* Who runs the open withdrawal, if not the purchase's own endpoint.
Applying(at) == {d \in Forms : apply[d].at = at}
\* The transaction rolled back; what an owner had declared stays received.
Released ==
  /\ apply' = [d \in Forms |-> IF apply[d].at \in {"own", "locked"} THEN Nobody ELSE apply[d]]
  /\ UNCHANGED <<contract, decl>>

CallStripe ==
  /\ CreateRefund
  /\ IF withdraw'.step = "commit" THEN UNCHANGED rowVars ELSE Released
  /\ UNCHANGED <<mailVars, left>>

CommitApplied ==
  /\ CommitWithdraw
  /\ \/ /\ Applying("locked") = {}
        /\ apply' = [d \in Forms |-> IF apply[d].at = "own"
                                     THEN [at |-> "contract", ok |-> TRUE] ELSE apply[d]]
        /\ UNCHANGED <<contract, decl>>
     \/ \E d \in Applying("locked") :
          /\ Conclude(d, TRUE)
          /\ apply' = [apply EXCEPT ![d] = Nobody]
  /\ UNCHANGED <<mailVars, left>>

ApplyingDies ==
  /\ WithdrawDies /\ Released
  /\ UNCHANGED <<mailVars, left>>

-------------------------------------------------------------------------------
JobStep(j) == Finish(j) \/ LookUp(j) \/ Deliver(j) \/ Mark(j)
BatchStep ==
  \/ BeginBatch \/ NextLoop \/ EndBatch
  \/ \E d \in Forms : FinishStuck(d) \/ Acknowledge(d) \/ Renew(d) \/ GiveUp(d)
OwnStep(d) == ApplyOwn(d) \/ SaveContract(d) \/ SaveDeclaration(d)

LedgerStep(step) == step /\ UNCHANGED <<rowVars, mailVars, left>>

Next ==
  \/ LedgerStep(LedgerNext)
  \/ CallStripe \/ CommitApplied \/ ApplyingDies
  \/ \E d \in Public : Submit(d) \/ Lapse(d) \/ Confirm(d)
  \/ \E j \in Jobs : JobStep(j) \/ JobDies(j)
  \/ BatchStep
  \/ \E d \in Own : DeclareOwn(d) \/ OwnStep(d) \/ RequestDies(d)
  \/ \E d \in Forms : Accept(d) \/ Reject(d)

\* Stripe sends an event until it is answered, a request or a thread that is
\* not killed goes on, and the batch is run daily.
Fairness ==
  /\ \A event \in CheckoutEvents : WF_vars(LedgerStep(DeliverCheckout(event)))
  /\ WF_vars(LedgerStep(StoreSession)) /\ WF_vars(LedgerStep(CreateSession))
  /\ SF_vars(LedgerStep(DeliverRefund))
  /\ WF_vars(CallStripe) /\ WF_vars(CommitApplied)
  /\ \A j \in Public : WF_vars(JobStep(j))
  /\ WF_vars(JobStep(Batch) \/ BatchStep)
  /\ \A d \in Own : WF_vars(OwnStep(d))

Spec == Init /\ [][Next]_vars /\ Fairness

-------------------------------------------------------------------------------
\* _confirmation_token and send_confirmation_email: while the declaration waits
\* and its mail counts as sent, the owner has got the link that confirms it.
LinkConfirms == \A d \in Public :
  Is(d, {"awaiting_confirmation"}) /\ decl[d].confirm = "sent" => <<d, decl[d].hash>> \in link

\* create_public_declaration and billing_process_declarations: a declaration
\* that was stored ends acknowledged and with its link, or with the operator,
\* although threads die and mails are refused.
DeclarationIsAnswered == \A d \in Public :
  (decl[d] # None) ~> (/\ decl[d] # None /\ decl[d].ack = "sent"
                       /\ ~Is(d, {"received"})
                       /\ Is(d, {"awaiting_confirmation"}) => decl[d].confirm = "sent")

\* An owner's declaration does not stay received.
OwnIsDecided == \A d \in Own : Is(d, {"received"}) ~> ~Is(d, {"received"})
===============================================================================
