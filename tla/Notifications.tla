---------------------------- MODULE Notifications ----------------------------
(***************************************************************************)
(* Notifications (notifications): notify() with its delivery rows and      *)
(* dispatchers, resolve(), the feed's marks, the derivation of todos from  *)
(* their providers and the e-mail digests of them.                         *)
(*                                                                         *)
(* Processes are requests and commands that each do one thing.  A          *)
(* transaction is one action; get_or_create is atomic, for its retries     *)
(* end with the row that won.                                              *)
(***************************************************************************)
EXTENDS Naturals, FiniteSets

CONSTANTS
  Users, Events, Messages, Todos,  \* who is told, and what about
  Channels,    \* channels the types reach: "email", "todo", ...
  Critical,    \* targets whose type is delivered past an opt-out
  Processes,   \* that work at the same time
  Load,        \* bound: how many requests about rooms, other requests and
               \* changes of the world one behaviour sees
  MaxEpisode,  \* bound: episodes of one target
  NoUser, NoTarget

Targets == Events \cup Messages \cup Todos
Thresholds == {"t1", "t2", "t3"}
Recipients == Targets \X (1 .. MaxEpisode) \X Users
Deliveries == Targets \X (1 .. MaxEpisode) \X Users \X (Channels \cup Thresholds)

ASSUME NotificationsAssumption ==
  /\ Critical \subseteq Targets /\ MaxEpisode \in Nat \ {0}
  /\ Channels \cap Thresholds = {}

VARIABLES
  episode,     \* episodes (Notification rows) a target has had
  open,        \* targets whose last episode is not resolved
  recipients,  \* NotificationRecipient rows
  finished,    \* those of them marked done or dismissed
  deliveries,  \* NotificationDelivery rows
  sent, failed,      \* those with that status; the others are pending
  dispatched, again, \* deliveries handed to a dispatcher: once, more than once
  received,    \* deliveries the mail or push provider took
  optin,       \* users with NotificationPreference.email_opt_in
  emitted,     \* <<todo, user>> the providers emit
  stage,       \* 1: visible, 2: close to its due date, 3: overdue
  job,         \* per process
  load         \* how many are to come

rowVars == <<episode, open, recipients, finished, deliveries, sent, failed>>
ghostVars == <<dispatched, again, received>>
worldVars == <<optin, emitted, stage>>
notifyVars == <<rowVars, ghostVars, worldVars, job, load>>

Idle == [at |-> "idle", target |-> NoTarget, ep |-> 0, left |-> {}, user |-> NoUser,
           channels |-> {}, todos |-> {}, claims |-> {}, won |-> {}]
Steps == {"idle", "request", "author", "recipient", "channel", "dispatch", "stale",
          "threshold", "claim", "mail", "record"}

NotificationsTypeOK ==
  /\ episode \in [Targets -> 0 .. MaxEpisode] /\ open \subseteq Targets
  /\ finished \subseteq recipients /\ recipients \subseteq Recipients
  /\ sent \cup failed \subseteq deliveries /\ deliveries \subseteq Deliveries
  /\ again \cup received \subseteq dispatched /\ dispatched \subseteq Deliveries
  /\ optin \subseteq Users /\ emitted \subseteq Todos \X Users
  /\ stage \in [Todos -> 1 .. 3]
  /\ \A p \in Processes : job[p].at \in Steps
  /\ load \in [1 .. 3 -> Nat]

Count(i) ==
  /\ load[i] > 0
  /\ load' = [load EXCEPT ![i] = @ - 1]
Serve(p, i) == job[p].at = "idle" /\ Count(i)
On(p, at) == job[p].at = at /\ UNCHANGED load
Finish(p) == job' = [job EXCEPT ![p] = Idle]
Recipient(p) == <<job[p].target, job[p].ep, job[p].user>>
Delivery(r, c) == <<r[1], r[2], r[3], c>>

(***************************************************************************)
(* notify().                                                               *)
(***************************************************************************)
Enabled(u, c) == c # "email" \/ u \in optin
ResolveChannels(t, u) == {c \in Channels : Enabled(u, c) \/ t \in Critical}

Notify(p, t, us) ==
  job' = [job EXCEPT ![p] = [Idle EXCEPT !.at = "author", !.target = t, !.left = us]]

\* notify() for given recipients, or notify_subscribers() for those it found
Emit(p) ==
  /\ Serve(p, 2)
  /\ \E t \in Events, us \in SUBSET Users \ {{}} : Notify(p, t, us)
  /\ UNCHANGED <<rowVars, ghostVars, worldVars>>

Author(p) ==
  LET t == job[p].target IN
  /\ On(p, "author")
  /\ t \in open \/ episode[t] < MaxEpisode
  /\ episode' = [episode EXCEPT ![t] = IF t \in open THEN @ ELSE @ + 1]
  /\ open' = open \cup {t}
  /\ job' = [job EXCEPT ![p].at = "recipient", ![p].ep = episode'[t]]
  /\ UNCHANGED <<recipients, finished, deliveries, sent, failed, ghostVars, worldVars>>

AddRecipient(p) ==
  /\ On(p, "recipient")
  /\ IF job[p].left = {}
       THEN Finish(p) /\ UNCHANGED recipients
       ELSE \E u \in job[p].left :
              /\ recipients' = recipients \cup {<<job[p].target, job[p].ep, u>>}
              /\ job' = [job EXCEPT ![p].at = "channel", ![p].user = u, ![p].left = @ \ {u},
                                    ![p].channels = ResolveChannels(job[p].target, u)]
  /\ UNCHANGED <<episode, open, finished, deliveries, sent, failed, ghostVars, worldVars>>

\* only the process that creates the delivery row dispatches it
Claim(p) ==
  /\ On(p, "channel")
  /\ IF job[p].channels = {}
       THEN job' = [job EXCEPT ![p].at = "recipient"] /\ UNCHANGED deliveries
       ELSE \E c \in job[p].channels :
              LET d == Delivery(Recipient(p), c) IN
              /\ deliveries' = deliveries \cup {d}
              /\ job' = IF d \in deliveries
                          THEN [job EXCEPT ![p].channels = @ \ {c}]
                          ELSE [job EXCEPT ![p].channels = @ \ {c}, ![p].at = "dispatch",
                                           ![p].claims = {d}]
  /\ UNCHANGED <<episode, open, recipients, finished, sent, failed, ghostVars, worldVars>>

Handed(ds) ==
  /\ dispatched' = dispatched \cup ds
  /\ again' = again \cup (ds \cap dispatched)

\* The todo channel answers None and the row stays pending.  The others answer
\* True: the e-mail and push senders log the provider's refusal and go on.
\* An exception before them is False.
Dispatch(p) ==
  LET d == CHOOSE c \in job[p].claims : TRUE IN
  /\ On(p, "dispatch")
  /\ Handed(job[p].claims)
  /\ \/ d[4] = "todo" /\ UNCHANGED received
        /\ job' = [job EXCEPT ![p].at = "channel", ![p].claims = {}]
     \/ d[4] # "todo" /\ received' \in {received, received \cup {d}}
        /\ job' = [job EXCEPT ![p].at = "record", ![p].won = {d}]
     \/ d[4] # "todo" /\ UNCHANGED received
        /\ job' = [job EXCEPT ![p].at = "record"]
  /\ UNCHANGED <<rowVars, worldVars>>

\* notify() goes on with the next channel, a digest is over; rows a
\* reconciliation deleted meanwhile are not updated
Record(p) ==
  /\ On(p, "record")
  /\ sent' = sent \cup (job[p].won \cap deliveries)
  /\ failed' = failed \cup ((job[p].claims \ job[p].won) \cap deliveries)
  /\ IF job[p].target = NoTarget
       THEN Finish(p)
       ELSE job' = [job EXCEPT ![p].at = "channel", ![p].claims = {}, ![p].won = {}]
  /\ UNCHANGED <<episode, open, recipients, finished, deliveries, ghostVars, worldVars>>

\* resolve(): one transaction with the notification's row locked
Resolve(p) ==
  /\ Serve(p, 2)
  /\ \E t \in Events \cap open :
       /\ finished' = finished \cup {r \in recipients : r[1] = t /\ r[2] = episode[t]}
       /\ open' = open \ {t}
  /\ Finish(p)
  /\ UNCHANGED <<episode, recipients, deliveries, sent, failed, ghostVars, worldVars>>

\* CanonicalMarkView, "done" or "dismissed"
Mark(p) ==
  /\ Serve(p, 2)
  /\ \E r \in recipients \ finished : finished' = finished \cup {r}
  /\ Finish(p)
  /\ UNCHANGED <<episode, open, recipients, deliveries, sent, failed, ghostVars, worldVars>>

(***************************************************************************)
(* Todos: the feed and send_todo_digests() for one user.                   *)
(***************************************************************************)
EmittedFor(u) == {d \in Todos : <<d, u>> \in emitted}
TodoRow(d, u) == <<d, 1, u>>

\* derive_todos_for_user(): conflict-tolerant inserts, whoever wins
Derived(u) ==
  /\ episode' = [t \in Targets |-> IF t \in EmittedFor(u) THEN 1 ELSE episode[t]]
  /\ open' = open \cup EmittedFor(u)
  /\ recipients' = recipients \cup {TodoRow(d, u) : d \in EmittedFor(u)}
  /\ UNCHANGED <<finished, deliveries, sent, failed>>

Feed(p) ==
  /\ Serve(p, 2)
  /\ \E u \in Users : EmittedFor(u) # {} /\ Derived(u)
  /\ Finish(p)
  /\ UNCHANGED <<ghostVars, worldVars>>

Digest(p) ==
  /\ Serve(p, 2)
  /\ \E u \in Users :
       /\ Derived(u)
       /\ job' = [job EXCEPT ![p] = [Idle EXCEPT !.at = "stale", !.user = u,
                                                   !.todos = EmittedFor(u)]]
  /\ UNCHANGED <<ghostVars, worldVars>>

\* _reconcile_todo_overlays(): the deletions cascade, and a reminder of a todo
\* that comes back is a first one.  Another run that holds a deleted recipient
\* fails at its next claim, and updates no row that is gone.
Stale(p) ==
  LET u == job[p].user
      stale == {r \in recipients : r[1] \in Todos \ job[p].todos /\ r[3] = u}
      rest == recipients \ stale
      orphans == {r[1] : r \in stale} \ {r[1] : r \in rest}
      Kept(ds) == {d \in ds : <<d[1], d[2], d[3]>> \notin stale}
  IN
  /\ On(p, "stale")
  /\ recipients' = rest /\ finished' = finished \ stale
  /\ episode' = [t \in Targets |-> IF t \in orphans THEN 0 ELSE episode[t]]
  /\ open' = open \ orphans
  /\ deliveries' = Kept(deliveries) /\ sent' = Kept(sent) /\ failed' = Kept(failed)
  /\ dispatched' = Kept(dispatched) /\ again' = Kept(again) /\ received' = Kept(received)
  /\ job' = [q \in Processes |->
               IF q = p THEN [job[p] EXCEPT !.at = "threshold"]
               ELSE IF Kept(job[q].claims) # job[q].claims THEN Idle
               ELSE [job[q] EXCEPT !.won = Kept(@)]]
  /\ UNCHANGED worldVars

NewThresholds(d, u) ==
  {c \in Thresholds : /\ CASE c = "t1" -> TRUE
                           [] c = "t2" -> stage[d] >= 2
                           [] c = "t3" -> stage[d] = 3
                      /\ Delivery(TodoRow(d, u), c) \notin deliveries}

\* the rows the derivation returned, as it read them
Pending(p) ==
  LET u == job[p].user IN
  /\ On(p, "threshold")
  /\ LET active == {d \in job[p].todos : TodoRow(d, u) \notin finished}
         new == UNION {{Delivery(TodoRow(d, u), c) : c \in NewThresholds(d, u)} : d \in active}
     IN IF /\ \A d \in active : TodoRow(d, u) \in recipients
           /\ new # {} /\ u \in optin
          THEN job' = [job EXCEPT ![p].at = "claim", ![p].claims = new]
          ELSE Finish(p)
  /\ UNCHANGED <<rowVars, ghostVars, worldVars>>

\* a group's thresholds are claimed in their order
Foremost(ds) == {d \in ds : \A e \in ds : e[1] # d[1] \/ d[4] = "t1" \/ d[4] = e[4] \/ e[4] = "t3"}

\* a row of a recipient that was deleted cannot be inserted: the scan fails
ClaimThreshold(p) ==
  /\ On(p, "claim") /\ job[p].claims # {}
  /\ \E d \in Foremost(job[p].claims) :
       IF <<d[1], d[2], d[3]>> \in recipients
         THEN /\ deliveries' = deliveries \cup {d}
              /\ job' = [job EXCEPT ![p].claims = @ \ {d},
                                    ![p].won = IF d \in deliveries THEN @ ELSE @ \cup {d}]
         ELSE Finish(p) /\ UNCHANGED deliveries
  /\ UNCHANGED <<episode, open, recipients, finished, sent, failed, ghostVars, worldVars>>

\* One mail for everything claimed.  _send_email() looks the opt-in up again
\* and swallows what the mail server answers, so the digest never fails.
Mail(p) ==
  LET u == job[p].user IN
  /\ On(p, "claim") /\ job[p].claims = {}
  /\ IF job[p].won = {}
       THEN Finish(p) /\ UNCHANGED ghostVars
       ELSE /\ Handed(job[p].won \cap deliveries)
            /\ \/ UNCHANGED received
               \/ u \in optin /\ received' = received \cup (job[p].won \cap deliveries)
            /\ job' = [job EXCEPT ![p].at = "record"]
  /\ UNCHANGED <<rowVars, worldVars>>

(***************************************************************************)
(* The users, the providers and the server.                                *)
(***************************************************************************)
OptIn == \E u \in Users : optin' = (optin \ {u}) \cup ({u} \ optin)
Emits == \E d \in Todos, u \in Users :
           emitted' = (emitted \ {<<d, u>>}) \cup ({<<d, u>>} \ emitted)
Advance == \E d \in Todos : stage[d] < 3 /\ stage' = [stage EXCEPT ![d] = @ + 1]
World ==
  /\ \/ OptIn /\ UNCHANGED <<emitted, stage>>
     \/ Emits /\ UNCHANGED <<optin, stage>>
     \/ Advance /\ UNCHANGED <<optin, emitted>>
  /\ Count(3)
  /\ UNCHANGED <<rowVars, ghostVars, job>>

Dies(p) ==
  /\ job[p].at \notin {"idle", "request"} /\ UNCHANGED load
  /\ Finish(p)
  /\ UNCHANGED <<rowVars, ghostVars, worldVars>>

NotifyInit ==
  /\ episode = [t \in Targets |-> 0] /\ open = {}
  /\ recipients = {} /\ finished = {} /\ deliveries = {} /\ sent = {} /\ failed = {}
  /\ dispatched = {} /\ again = {} /\ received = {}
  /\ optin \in {{}, Users} /\ emitted \in {{}, Todos \X Users}
  /\ stage \in [Todos -> 1 .. 3]
  /\ job = [p \in Processes |-> Idle]
  /\ load \in Load
  /\ load[2] = 0 => emitted = {} /\ stage = [d \in Todos |-> 1] /\ optin = Users

NotifyNext ==
  \/ \E p \in Processes :
       \/ Emit(p) \/ Author(p) \/ AddRecipient(p) \/ Claim(p) \/ Dispatch(p) \/ Record(p)
       \/ Resolve(p) \/ Mark(p) \/ Feed(p)
       \/ Digest(p) \/ Stale(p) \/ Pending(p) \/ ClaimThreshold(p) \/ Mail(p) \/ Dies(p)
  \/ World

NotifySpec == NotifyInit /\ [][NotifyNext]_notifyVars

\* A digest threshold that counts as sent was mailed: "a threshold is never
\* marked "sent" for a recipient who never received anything" (todo/digests.py).
SentMeansMailed == \A d \in sent : d[4] \in Thresholds => d \in received

\* However many processes notify about a thing, remind of a todo or repeat a
\* request, a user is told once per episode on each channel, and once per
\* threshold of a todo that stays (claim first, then dispatch).
ToldOnce == again = {}
=============================================================================
