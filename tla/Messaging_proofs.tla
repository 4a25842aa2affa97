--------------------------- MODULE Messaging_proofs ---------------------------
(***************************************************************************)
(* Messaging and Notifications, for any number of users, messages, files   *)
(* and processes: a delivery is handed out once, a message is framed once  *)
(* and told to members only, the storage holds what the messages, the      *)
(* requests at work and the dead ones account for, and both endpoints of   *)
(* the read status agree.                                                  *)
(***************************************************************************)
EXTENDS Messaging, TLAPS

-------------------------------------------------------------------------------
(* What a process is at.                                                     *)

IsJob(j) == j = [at |-> j.at, target |-> j.target, ep |-> j.ep, left |-> j.left,
                 user |-> j.user, channels |-> j.channels, todos |-> j.todos,
                 claims |-> j.claims, won |-> j.won]

JobsTyped ==
  job = [p \in Processes |-> job[p]] /\ \A p \in Processes : IsJob(job[p])

Becomes(p, new) == job' = [job EXCEPT ![p] = new]

\* A job is still one when a field of it is set, and has its other fields.
LEMMA JobAt ==
  ASSUME NEW j, IsJob(j), NEW x, NEW new, new = [j EXCEPT !.at = x]
  PROVE  IsJob(new) /\ new.at = x /\ new.claims = j.claims /\ new.won = j.won
<1>1. new = [at |-> x, target |-> j.target, ep |-> j.ep, left |-> j.left, user |-> j.user,
             channels |-> j.channels, todos |-> j.todos, claims |-> j.claims, won |-> j.won]
  BY DEF IsJob
<1> QED BY <1>1 DEF IsJob

LEMMA JobTarget ==
  ASSUME NEW j, IsJob(j), NEW x, NEW new, new = [j EXCEPT !.target = x]
  PROVE  IsJob(new) /\ new.target = x /\ new.at = j.at /\ new.claims = j.claims /\ new.won = j.won
<1>1. new = [at |-> j.at, target |-> x, ep |-> j.ep, left |-> j.left, user |-> j.user,
             channels |-> j.channels, todos |-> j.todos, claims |-> j.claims, won |-> j.won]
  BY DEF IsJob
<1> QED BY <1>1 DEF IsJob

LEMMA JobEp ==
  ASSUME NEW j, IsJob(j), NEW x, NEW new, new = [j EXCEPT !.ep = x]
  PROVE  IsJob(new) /\ new.ep = x /\ new.at = j.at /\ new.claims = j.claims /\ new.won = j.won
<1>1. new = [at |-> j.at, target |-> j.target, ep |-> x, left |-> j.left, user |-> j.user,
             channels |-> j.channels, todos |-> j.todos, claims |-> j.claims, won |-> j.won]
  BY DEF IsJob
<1> QED BY <1>1 DEF IsJob

LEMMA JobLeft ==
  ASSUME NEW j, IsJob(j), NEW x, NEW new, new = [j EXCEPT !.left = x]
  PROVE  IsJob(new) /\ new.left = x /\ new.at = j.at /\ new.claims = j.claims /\ new.won = j.won
<1>1. new = [at |-> j.at, target |-> j.target, ep |-> j.ep, left |-> x, user |-> j.user,
             channels |-> j.channels, todos |-> j.todos, claims |-> j.claims, won |-> j.won]
  BY DEF IsJob
<1> QED BY <1>1 DEF IsJob

LEMMA JobUser ==
  ASSUME NEW j, IsJob(j), NEW x, NEW new, new = [j EXCEPT !.user = x]
  PROVE  IsJob(new) /\ new.user = x /\ new.at = j.at /\ new.claims = j.claims /\ new.won = j.won
<1>1. new = [at |-> j.at, target |-> j.target, ep |-> j.ep, left |-> j.left, user |-> x,
             channels |-> j.channels, todos |-> j.todos, claims |-> j.claims, won |-> j.won]
  BY DEF IsJob
<1> QED BY <1>1 DEF IsJob

LEMMA JobChannels ==
  ASSUME NEW j, IsJob(j), NEW x, NEW new, new = [j EXCEPT !.channels = x]
  PROVE  IsJob(new) /\ new.channels = x /\ new.at = j.at /\ new.claims = j.claims /\ new.won = j.won
<1>1. new = [at |-> j.at, target |-> j.target, ep |-> j.ep, left |-> j.left, user |-> j.user,
             channels |-> x, todos |-> j.todos, claims |-> j.claims, won |-> j.won]
  BY DEF IsJob
<1> QED BY <1>1 DEF IsJob

LEMMA JobTodos ==
  ASSUME NEW j, IsJob(j), NEW x, NEW new, new = [j EXCEPT !.todos = x]
  PROVE  IsJob(new) /\ new.todos = x /\ new.at = j.at /\ new.claims = j.claims /\ new.won = j.won
<1>1. new = [at |-> j.at, target |-> j.target, ep |-> j.ep, left |-> j.left, user |-> j.user,
             channels |-> j.channels, todos |-> x, claims |-> j.claims, won |-> j.won]
  BY DEF IsJob
<1> QED BY <1>1 DEF IsJob

LEMMA JobClaims ==
  ASSUME NEW j, IsJob(j), NEW x, NEW new, new = [j EXCEPT !.claims = x]
  PROVE  IsJob(new) /\ new.claims = x /\ new.at = j.at /\ new.won = j.won
<1>1. new = [at |-> j.at, target |-> j.target, ep |-> j.ep, left |-> j.left, user |-> j.user,
             channels |-> j.channels, todos |-> j.todos, claims |-> x, won |-> j.won]
  BY DEF IsJob
<1> QED BY <1>1 DEF IsJob

LEMMA JobWon ==
  ASSUME NEW j, IsJob(j), NEW x, NEW new, new = [j EXCEPT !.won = x]
  PROVE  IsJob(new) /\ new.won = x /\ new.at = j.at /\ new.claims = j.claims
<1>1. new = [at |-> j.at, target |-> j.target, ep |-> j.ep, left |-> j.left, user |-> j.user,
             channels |-> j.channels, todos |-> j.todos, claims |-> j.claims, won |-> x]
  BY DEF IsJob
<1> QED BY <1>1 DEF IsJob

LEMMA IdleJob ==
  IsJob(Idle) /\ Idle.at = "idle" /\ Idle.claims = {} /\ Idle.won = {}
BY DEF IsJob, Idle

LEMMA JobSet ==
  ASSUME JobsTyped, NEW p, NEW new, IsJob(new), Becomes(p, new)
  PROVE  /\ JobsTyped'
         /\ \A q \in Processes : job'[q] = IF q = p THEN new ELSE job[q]
BY DEF JobsTyped, Becomes

-------------------------------------------------------------------------------
(* ToldOnce.                                                                 *)

\* The rows a process has won and has still to hand to a dispatcher.
Holds(j) == IF j.at = "dispatch" THEN j.claims ELSE IF j.at = "claim" THEN j.won ELSE {}

Tidy(j) ==
  /\ j.at \in {"stale", "threshold"} => j.won = {}
  /\ j.at \in {"idle", "request"} => j.claims = {}

\* A row that was won is a row, and is neither handed out nor won by another.
ToldInv ==
  /\ JobsTyped
  /\ again = {}
  /\ dispatched \subseteq deliveries
  /\ \A p \in Processes : Holds(job[p]) \subseteq deliveries /\ Holds(job[p]) \cap dispatched = {}
  /\ \A p, q \in Processes : p # q => Holds(job[p]) \cap Holds(job[q]) = {}
  /\ \A p \in Processes : Tidy(job[p])

\* A step of Notifications leaves the requests of rooms to themselves.
Serving == \A q \in Processes : job[q].at = "request" => job'[q].at = "request"

\* A process goes on, and may have won rows that are new.
LEMMA ToldWins ==
  ASSUME ToldInv, NEW p \in Processes, NEW new, IsJob(new), Becomes(p, new), Tidy(new),
         deliveries \subseteq deliveries', UNCHANGED <<dispatched, again>>,
         Holds(new) \subseteq Holds(job[p]) \cup (deliveries' \ deliveries)
  PROVE  ToldInv' /\ \A q \in Processes : q # p => job'[q] = job[q]
<1>1. /\ JobsTyped'
      /\ \A q \in Processes : job'[q] = IF q = p THEN new ELSE job[q]
  BY JobSet DEF ToldInv
<1>2. \A q \in Processes : job'[q] = job[q] \/ (q = p /\ job'[q] = new)
  BY <1>1
<1>3. \A q \in Processes : /\ Holds(job'[q]) \subseteq deliveries'
                           /\ Holds(job'[q]) \cap dispatched' = {}
                           /\ Tidy(job'[q])
  BY <1>2 DEF ToldInv
<1>4. \A q \in Processes : Holds(job'[q]) \subseteq Holds(job[q]) \cup (deliveries' \ deliveries)
                           /\ (q # p => Holds(job'[q]) \subseteq Holds(job[q]))
  BY <1>2
<1>5. \A q, r \in Processes : q # r => Holds(job'[q]) \cap Holds(job'[r]) = {}
  BY <1>4 DEF ToldInv
<1> QED BY <1>1, <1>3, <1>5 DEF ToldInv, Holds, Tidy

\* A process goes on without winning or handing out anything.
LEMMA ToldMoves ==
  ASSUME ToldInv, NEW p \in Processes, NEW new, IsJob(new), Becomes(p, new),
         Holds(new) = {}, Tidy(new), UNCHANGED <<deliveries, dispatched, again>>
  PROVE  ToldInv' /\ \A q \in Processes : q # p => job'[q] = job[q]
<1>1. /\ deliveries \subseteq deliveries'
      /\ Holds(new) \subseteq Holds(job[p]) \cup (deliveries' \ deliveries)
  OBVIOUS
<1> QED BY <1>1, ToldWins

LEMMA ToldIdles ==
  ASSUME ToldInv, NEW p \in Processes, Finish(p), UNCHANGED <<deliveries, dispatched, again>>
  PROVE  ToldInv' /\ \A q \in Processes : q # p => job'[q] = job[q]
<1> DEFINE new == Idle
<1>1. IsJob(new) /\ Holds(new) = {} /\ Tidy(new) /\ Becomes(p, new)
  BY IdleJob DEF Finish, Becomes, Tidy, Holds
<1> HIDE DEF new
<1> QED BY <1>1, ToldMoves

LEMMA ToldNotifies ==
  ASSUME ToldInv, NEW p \in Processes, NEW t, NEW us, Notify(p, t, us),
         UNCHANGED <<deliveries, dispatched, again>>
  PROVE  ToldInv' /\ \A q \in Processes : q # p => job'[q] = job[q]
<1> DEFINE one == [Idle EXCEPT !.at = "author"]
           two == [one EXCEPT !.target = t]
           new == [two EXCEPT !.left = us]
<1>1. Becomes(p, new)
  BY DEF Notify, Becomes
<1>2. IsJob(one) /\ one.at = "author"
  BY IdleJob, JobAt
<1> HIDE DEF one
<1>3. IsJob(two) /\ two.at = one.at
  BY <1>2, JobTarget
<1> HIDE DEF two
<1>4. IsJob(new) /\ new.at = two.at
  BY <1>3, JobLeft
<1> HIDE DEF new
<1>5. Holds(new) = {} /\ Tidy(new)
  BY <1>2, <1>3, <1>4 DEF Tidy, Holds
<1> QED BY <1>1, <1>4, <1>5, ToldMoves

Goes(p, at) == job' = [job EXCEPT ![p].at = at]

\* A process is at another step; it wins nothing by that.
LEMMA ToldGoes ==
  ASSUME ToldInv, NEW p \in Processes, NEW at,
         at \notin {"dispatch", "claim", "stale", "threshold"},
         at \in {"idle", "request"} => job[p].claims = {},
         Goes(p, at), UNCHANGED <<deliveries, dispatched, again>>
  PROVE  /\ ToldInv' /\ job'[p].at = at
         /\ \A q \in Processes : q # p => job'[q] = job[q]
<1> DEFINE old == job[p]
           new == [old EXCEPT !.at = at]
<1>1. Becomes(p, new) /\ IsJob(old) /\ (at \in {"idle", "request"} => old.claims = {})
  BY DEF Becomes, Goes, ToldInv, JobsTyped
<1> HIDE DEF old
<1>2. IsJob(new) /\ new.at = at /\ new.claims = old.claims
  BY <1>1, JobAt
<1> HIDE DEF new
<1>3. Holds(new) = {} /\ Tidy(new)
  BY <1>1, <1>2 DEF Tidy, Holds
<1>4. ToldInv' /\ \A q \in Processes : q # p => job'[q] = job[q]
  BY <1>1, <1>2, <1>3, ToldMoves
<1>5. job'[p] = new
  BY <1>1, <1>2, JobSet DEF ToldInv
<1> QED BY <1>2, <1>4, <1>5

LEMMA AuthorTold ==
  ASSUME ToldInv, NEW p \in Processes, Author(p)
  PROVE  ToldInv' /\ Serving
<1>0. job[p].at = "author" /\ UNCHANGED <<deliveries, dispatched, again>>
  BY DEF Author, On, ghostVars
<1>1. job' = [job EXCEPT ![p].at = "recipient", ![p].ep = episode'[job[p].target]]
  BY DEF Author
<1>2. PICK ep : ep = episode'[job[p].target]
  OBVIOUS
<1> DEFINE old == job[p]
           one == [old EXCEPT !.at = "recipient"]
           new == [one EXCEPT !.ep = ep]
<1>3. Becomes(p, new)
  BY <1>1, <1>2 DEF Becomes
<1>4. IsJob(old)
  BY DEF ToldInv, JobsTyped
<1> HIDE DEF old
<1>5. IsJob(one) /\ one.at = "recipient"
  BY <1>4, JobAt
<1> HIDE DEF one
<1>6. IsJob(new) /\ new.at = one.at
  BY <1>5, JobEp
<1> HIDE DEF new
<1>7. Holds(new) = {} /\ Tidy(new)
  BY <1>5, <1>6 DEF Tidy, Holds
<1>8. ToldInv' /\ \A q \in Processes : q # p => job'[q] = job[q]
  BY <1>0, <1>3, <1>6, <1>7, ToldMoves
<1> QED BY <1>0, <1>8 DEF Serving

LEMMA AddRecipientTold ==
  ASSUME ToldInv, NEW p \in Processes, AddRecipient(p)
  PROVE  ToldInv' /\ Serving
<1>1. job[p].at = "recipient" /\ UNCHANGED <<deliveries, dispatched, again>>
  BY DEF AddRecipient, On, ghostVars
<1>2. CASE Finish(p)
  <2>1. ToldInv' /\ \A q \in Processes : q # p => job'[q] = job[q]
    BY <1>1, <1>2, ToldIdles
  <2> QED BY <1>1, <2>1 DEF Serving
<1>3. CASE ~Finish(p)
  <2>1. PICK u, left, channels :
          job' = [job EXCEPT ![p].at = "channel", ![p].user = u, ![p].left = left,
                             ![p].channels = channels]
    BY <1>3 DEF AddRecipient
  <2> DEFINE old == job[p]
             one == [old EXCEPT !.at = "channel"]
             two == [one EXCEPT !.user = u]
             three == [two EXCEPT !.left = left]
             new == [three EXCEPT !.channels = channels]
  <2>2. Becomes(p, new) /\ IsJob(old)
    BY <2>1 DEF Becomes, ToldInv, JobsTyped
  <2> HIDE DEF old
  <2>3. IsJob(one) /\ one.at = "channel"
    BY <2>2, JobAt
  <2> HIDE DEF one
  <2>4. IsJob(two) /\ two.at = one.at
    BY <2>3, JobUser
  <2> HIDE DEF two
  <2>5. IsJob(three) /\ three.at = two.at
    BY <2>4, JobLeft
  <2> HIDE DEF three
  <2>6. IsJob(new) /\ new.at = three.at
    BY <2>5, JobChannels
  <2> HIDE DEF new
  <2>7. Holds(new) = {} /\ Tidy(new)
    BY <2>3, <2>4, <2>5, <2>6 DEF Tidy, Holds
  <2>8. ToldInv' /\ \A q \in Processes : q # p => job'[q] = job[q]
    BY <1>1, <2>2, <2>6, <2>7, ToldMoves
  <2> QED BY <1>1, <2>8 DEF Serving
<1> QED BY <1>2, <1>3

\* A row that is new is nobody's, and has not been handed out.
LEMMA ClaimTold ==
  ASSUME ToldInv, NEW p \in Processes, Claim(p)
  PROVE  ToldInv' /\ Serving
<1>1. job[p].at = "channel" /\ UNCHANGED <<dispatched, again>>
  BY DEF Claim, On, ghostVars
<1>2. CASE job[p].channels = {}
  <2> DEFINE at == "recipient"
  <2>1. Goes(p, at) /\ UNCHANGED <<deliveries, dispatched, again>>
    BY <1>1, <1>2 DEF Claim, Goes
  <2>2. at \notin {"dispatch", "claim", "stale", "threshold", "idle", "request"}
    OBVIOUS
  <2> HIDE DEF at
  <2>3. ToldInv' /\ \A q \in Processes : q # p => job'[q] = job[q]
    BY <2>1, <2>2, ToldGoes
  <2> QED BY <1>1, <2>3 DEF Serving
<1>3. CASE job[p].channels # {}
  <2>1. PICK c \in job[p].channels :
          LET d == Delivery(Recipient(p), c) IN
          /\ deliveries' = deliveries \cup {d}
          /\ job' = IF d \in deliveries
                      THEN [job EXCEPT ![p].channels = @ \ {c}]
                      ELSE [job EXCEPT ![p].channels = @ \ {c}, ![p].at = "dispatch",
                                       ![p].claims = {d}]
    BY <1>3 DEF Claim
  <2> DEFINE d == Delivery(Recipient(p), c)
             old == job[p]
             channels == job[p].channels \ {c}
             one == [old EXCEPT !.channels = channels]
             two == [one EXCEPT !.at = "dispatch"]
             ds == {d}
             new == [two EXCEPT !.claims = ds]
  <2>2. IsJob(old) /\ old.at = "channel"
    BY <1>1 DEF ToldInv, JobsTyped
  <2>3. CASE d \in deliveries
    <3>1. Becomes(p, one) /\ deliveries' = deliveries
      BY <2>1, <2>3 DEF Becomes
    <3> HIDE DEF old, channels
    <3>2. IsJob(one) /\ one.at = old.at
      BY <2>2, JobChannels
    <3> HIDE DEF one
    <3>3. Holds(one) = {} /\ Tidy(one)
      BY <2>2, <3>2 DEF Tidy, Holds
    <3>4. ToldInv' /\ \A q \in Processes : q # p => job'[q] = job[q]
      BY <1>1, <3>1, <3>2, <3>3, ToldMoves
    <3> QED BY <1>1, <3>4 DEF Serving
  <2>4. CASE d \notin deliveries
    <3>1. Becomes(p, new) /\ deliveries' = deliveries \cup {d}
      BY <2>1, <2>4 DEF Becomes
    <3> HIDE DEF old, channels, d, ds
    <3>2. IsJob(one)
      BY <2>2, JobChannels
    <3> HIDE DEF one
    <3>3. IsJob(two) /\ two.at = "dispatch"
      BY <3>2, JobAt
    <3> HIDE DEF two
    <3>4. IsJob(new) /\ new.at = two.at /\ new.claims = ds
      BY <3>3, JobClaims
    <3> HIDE DEF new
    <3>5. Holds(new) = {d} /\ Tidy(new)
      BY <3>3, <3>4 DEF Holds, Tidy, ds
    <3>6. deliveries \subseteq deliveries' /\ deliveries' \ deliveries = {d}
      BY <2>4, <3>1
    <3>7. ToldInv' /\ \A q \in Processes : q # p => job'[q] = job[q]
      BY <1>1, <3>1, <3>4, <3>5, <3>6, ToldWins
    <3> QED BY <1>1, <3>7 DEF Serving
  <2> QED BY <2>3, <2>4
<1> QED BY <1>2, <1>3

\* What a process won is handed out once, and it holds nothing after it.
LEMMA HandedOnce ==
  ASSUME ToldInv, NEW p \in Processes, NEW new, IsJob(new), Becomes(p, new),
         Holds(new) = {}, Tidy(new),
         NEW ds, ds \subseteq Holds(job[p]), Handed(ds), deliveries' = deliveries
  PROVE  ToldInv' /\ \A q \in Processes : q # p => job'[q] = job[q]
<1>1. /\ JobsTyped'
      /\ \A q \in Processes : job'[q] = IF q = p THEN new ELSE job[q]
  BY JobSet DEF ToldInv
<1>2. dispatched' = dispatched \cup ds /\ again' = {} /\ dispatched' \subseteq deliveries'
  BY DEF Handed, ToldInv
<1>3. \A q \in Processes : /\ Holds(job'[q]) \subseteq deliveries'
                           /\ Holds(job'[q]) \cap dispatched' = {}
                           /\ Tidy(job'[q])
  BY <1>1, <1>2 DEF ToldInv
<1>4. \A q, r \in Processes : q # r => Holds(job'[q]) \cap Holds(job'[r]) = {}
  BY <1>1 DEF ToldInv
<1> QED BY <1>1, <1>2, <1>3, <1>4 DEF ToldInv, Holds, Tidy

LEMMA DispatchTold ==
  ASSUME ToldInv, NEW p \in Processes, Dispatch(p)
  PROVE  ToldInv' /\ Serving
<1>1. /\ job[p].at = "dispatch" /\ deliveries' = deliveries
      /\ Handed(job[p].claims)
  BY DEF Dispatch, On, rowVars
<1>2. IsJob(job[p]) /\ Holds(job[p]) = job[p].claims
  BY <1>1 DEF ToldInv, JobsTyped, Holds
<1>3. PICK d :
        \/ job' = [job EXCEPT ![p].at = "channel", ![p].claims = {}]
        \/ job' = [job EXCEPT ![p].at = "record", ![p].won = {d}]
        \/ job' = [job EXCEPT ![p].at = "record"]
  BY DEF Dispatch
<1> DEFINE old == job[p]
<1>4. PICK new : IsJob(new) /\ Becomes(p, new) /\ new.at \in {"channel", "record"}
  <2>1. CASE job' = [job EXCEPT ![p].at = "channel", ![p].claims = {}]
    <3> DEFINE one == [old EXCEPT !.at = "channel"]
               two == [one EXCEPT !.claims = {}]
    <3>1. Becomes(p, two)
      BY <2>1 DEF Becomes
    <3> HIDE DEF old
    <3>2. IsJob(one) /\ one.at = "channel"
      BY <1>2, JobAt DEF old
    <3> HIDE DEF one
    <3>3. IsJob(two) /\ two.at = one.at
      BY <3>2, JobClaims
    <3> HIDE DEF two
    <3> QED BY <3>1, <3>2, <3>3
  <2>2. CASE job' = [job EXCEPT ![p].at = "record", ![p].won = {d}]
    <3> DEFINE one == [old EXCEPT !.at = "record"]
               two == [one EXCEPT !.won = {d}]
    <3>1. Becomes(p, two)
      BY <2>2 DEF Becomes
    <3> HIDE DEF old
    <3>2. IsJob(one) /\ one.at = "record"
      BY <1>2, JobAt DEF old
    <3> HIDE DEF one
    <3>3. IsJob(two) /\ two.at = one.at
      BY <3>2, JobWon
    <3> HIDE DEF two
    <3> QED BY <3>1, <3>2, <3>3
  <2>3. CASE job' = [job EXCEPT ![p].at = "record"]
    <3> DEFINE one == [old EXCEPT !.at = "record"]
    <3>1. Becomes(p, one)
      BY <2>3 DEF Becomes
    <3> HIDE DEF old
    <3>2. IsJob(one) /\ one.at = "record"
      BY <1>2, JobAt DEF old
    <3> HIDE DEF one
    <3> QED BY <3>1, <3>2
  <2> QED BY <1>3, <2>1, <2>2, <2>3
<1>5. Holds(new) = {} /\ Tidy(new)
  BY <1>4 DEF Holds, Tidy
<1>6. ToldInv' /\ \A q \in Processes : q # p => job'[q] = job[q]
  <2>1. PICK ds : ds = job[p].claims
    OBVIOUS
  <2>2. ds \subseteq Holds(job[p]) /\ Handed(ds)
    BY <1>1, <1>2, <2>1
  <2> QED BY <1>1, <1>4, <1>5, <2>2, HandedOnce
<1> QED BY <1>1, <1>6 DEF Serving

LEMMA RecordTold ==
  ASSUME ToldInv, NEW p \in Processes, Record(p)
  PROVE  ToldInv' /\ Serving
<1>1. job[p].at = "record" /\ UNCHANGED <<deliveries, dispatched, again>>
  BY DEF Record, On, ghostVars
<1>2. CASE Finish(p)
  <2>1. ToldInv' /\ \A q \in Processes : q # p => job'[q] = job[q]
    BY <1>1, <1>2, ToldIdles
  <2> QED BY <1>1, <2>1 DEF Serving
<1>3. CASE job' = [job EXCEPT ![p].at = "channel", ![p].claims = {}, ![p].won = {}]
  <2> DEFINE old == job[p]
             one == [old EXCEPT !.at = "channel"]
             two == [one EXCEPT !.claims = {}]
             new == [two EXCEPT !.won = {}]
  <2>1. Becomes(p, new) /\ IsJob(old)
    BY <1>3 DEF Becomes, ToldInv, JobsTyped
  <2> HIDE DEF old
  <2>2. IsJob(one) /\ one.at = "channel"
    BY <2>1, JobAt
  <2> HIDE DEF one
  <2>3. IsJob(two) /\ two.at = one.at
    BY <2>2, JobClaims
  <2> HIDE DEF two
  <2>4. IsJob(new) /\ new.at = two.at
    BY <2>3, JobWon
  <2> HIDE DEF new
  <2>5. Holds(new) = {} /\ Tidy(new)
    BY <2>2, <2>3, <2>4 DEF Holds, Tidy
  <2>6. ToldInv' /\ \A q \in Processes : q # p => job'[q] = job[q]
    BY <1>1, <2>1, <2>4, <2>5, ToldMoves
  <2> QED BY <1>1, <2>6 DEF Serving
<1> QED BY <1>2, <1>3 DEF Record

\* Requests that do one thing and are over.
LEMMA OneThingTold ==
  ASSUME ToldInv, NEW p \in Processes, Resolve(p) \/ Mark(p) \/ Feed(p) \/ Dies(p)
  PROVE  ToldInv' /\ Serving
<1>1. Finish(p) /\ UNCHANGED <<deliveries, dispatched, again>> /\ job[p].at # "request"
  BY DEF Resolve, Mark, Feed, Derived, Dies, Serve, ghostVars, rowVars
<1>2. ToldInv' /\ \A q \in Processes : q # p => job'[q] = job[q]
  BY <1>1, ToldIdles
<1> QED BY <1>1, <1>2 DEF Serving

LEMMA EmitTold ==
  ASSUME ToldInv, NEW p \in Processes, Emit(p)
  PROVE  ToldInv' /\ Serving
<1>1. job[p].at = "idle" /\ UNCHANGED <<deliveries, dispatched, again>>
  BY DEF Emit, Serve, ghostVars, rowVars
<1>2. PICK t, us : Notify(p, t, us)
  BY DEF Emit
<1>3. ToldInv' /\ \A q \in Processes : q # p => job'[q] = job[q]
  BY <1>1, <1>2, ToldNotifies
<1> QED BY <1>1, <1>3 DEF Serving

LEMMA DigestTold ==
  ASSUME ToldInv, NEW p \in Processes, Digest(p)
  PROVE  ToldInv' /\ Serving
<1>1. job[p].at = "idle" /\ UNCHANGED <<deliveries, dispatched, again>>
  BY DEF Digest, Derived, Serve, ghostVars
<1>2. PICK u, ts : job' = [job EXCEPT ![p] = [Idle EXCEPT !.at = "stale", !.user = u,
                                                         !.todos = ts]]
  BY DEF Digest
<1> DEFINE one == [Idle EXCEPT !.at = "stale"]
           two == [one EXCEPT !.user = u]
           new == [two EXCEPT !.todos = ts]
<1>3. Becomes(p, new)
  BY <1>2 DEF Becomes
<1>4. IsJob(one) /\ one.at = "stale" /\ one.won = {}
  BY IdleJob, JobAt
<1> HIDE DEF one
<1>5. IsJob(two) /\ two.at = one.at /\ two.won = one.won
  BY <1>4, JobUser
<1> HIDE DEF two
<1>6. IsJob(new) /\ new.at = two.at /\ new.won = two.won
  <2>1. new = [two EXCEPT !.todos = ts]
    OBVIOUS
  <2>2. IsJob(two)
    BY <1>5
  <2> HIDE DEF new
  <2> QED BY <2>1, <2>2, JobTodos
<1> HIDE DEF new
<1>7. Holds(new) = {} /\ Tidy(new)
  BY <1>4, <1>5, <1>6 DEF Holds, Tidy
<1>8. ToldInv' /\ \A q \in Processes : q # p => job'[q] = job[q]
  BY <1>1, <1>3, <1>6, <1>7, ToldMoves
<1> QED BY <1>1, <1>8 DEF Serving

LEMMA PendingTold ==
  ASSUME ToldInv, NEW p \in Processes, Pending(p)
  PROVE  ToldInv' /\ Serving
<1>1. job[p].at = "threshold" /\ UNCHANGED <<deliveries, dispatched, again>>
  BY DEF Pending, On, ghostVars, rowVars
<1>2. CASE Finish(p)
  <2>1. ToldInv' /\ \A q \in Processes : q # p => job'[q] = job[q]
    BY <1>1, <1>2, ToldIdles
  <2> QED BY <1>1, <2>1 DEF Serving
<1>3. CASE ~Finish(p)
  <2>1. PICK ds : job' = [job EXCEPT ![p].at = "claim", ![p].claims = ds]
    BY <1>3 DEF Pending
  <2> DEFINE old == job[p]
             one == [old EXCEPT !.at = "claim"]
             new == [one EXCEPT !.claims = ds]
  <2>2. Becomes(p, new) /\ IsJob(old) /\ old.won = {}
    BY <1>1, <2>1 DEF Becomes, ToldInv, JobsTyped, Tidy
  <2> HIDE DEF old
  <2>3. IsJob(one) /\ one.at = "claim" /\ one.won = old.won
    BY <2>2, JobAt
  <2> HIDE DEF one
  <2>4. IsJob(new) /\ new.at = one.at /\ new.won = one.won
    BY <2>3, JobClaims
  <2> HIDE DEF new
  <2>5. Holds(new) = {} /\ Tidy(new)
    BY <2>2, <2>3, <2>4 DEF Holds, Tidy
  <2>6. ToldInv' /\ \A q \in Processes : q # p => job'[q] = job[q]
    BY <1>1, <2>2, <2>4, <2>5, ToldMoves
  <2> QED BY <1>1, <2>6 DEF Serving
<1> QED BY <1>2, <1>3

LEMMA ClaimThresholdTold ==
  ASSUME ToldInv, NEW p \in Processes, ClaimThreshold(p)
  PROVE  ToldInv' /\ Serving
<1>1. job[p].at = "claim" /\ UNCHANGED <<dispatched, again>>
  BY DEF ClaimThreshold, On, ghostVars
<1>2. CASE Finish(p) /\ UNCHANGED deliveries
  <2>1. ToldInv' /\ \A q \in Processes : q # p => job'[q] = job[q]
    BY <1>1, <1>2, ToldIdles
  <2> QED BY <1>1, <2>1 DEF Serving
<1>3. CASE ~(Finish(p) /\ UNCHANGED deliveries)
  <2>1. PICK d :
          /\ deliveries' = deliveries \cup {d}
          /\ job' = [job EXCEPT ![p].claims = @ \ {d},
                                ![p].won = IF d \in deliveries THEN @ ELSE @ \cup {d}]
    BY <1>3 DEF ClaimThreshold
  <2> DEFINE old == job[p]
             claims == job[p].claims \ {d}
             won == IF d \in deliveries THEN job[p].won ELSE job[p].won \cup {d}
             one == [old EXCEPT !.claims = claims]
             new == [one EXCEPT !.won = won]
  <2>2. IsJob(old) /\ old.at = "claim" /\ Holds(old) = old.won
    BY <1>1 DEF ToldInv, JobsTyped, Holds
  <2>3. Becomes(p, new)
    BY <2>1 DEF Becomes
  <2>4. won \subseteq old.won \cup ({d} \ deliveries)
    OBVIOUS
  <2>5. deliveries \subseteq deliveries' /\ deliveries' \ deliveries = {d} \ deliveries
    BY <2>1
  <2>6. Holds(job[p]) = old.won
    BY <2>2
  <2> HIDE DEF old, claims, won
  <2>7. IsJob(one) /\ one.at = old.at
    BY <2>2, JobClaims
  <2> HIDE DEF one
  <2>8. IsJob(new) /\ new.at = one.at /\ new.won = won
    BY <2>7, JobWon
  <2> HIDE DEF new
  <2>9. Holds(new) = won /\ Tidy(new)
    BY <2>2, <2>7, <2>8 DEF Holds, Tidy
  <2>10. Holds(new) \subseteq Holds(job[p]) \cup (deliveries' \ deliveries)
    BY <2>4, <2>5, <2>6, <2>9
  <2>11. ToldInv' /\ \A q \in Processes : q # p => job'[q] = job[q]
    BY <1>1, <2>3, <2>5, <2>8, <2>9, <2>10, ToldWins
  <2> QED BY <1>1, <2>11 DEF Serving
<1> QED BY <1>2, <1>3

LEMMA MailTold ==
  ASSUME ToldInv, NEW p \in Processes, Mail(p)
  PROVE  ToldInv' /\ Serving
<1>1. job[p].at = "claim" /\ deliveries' = deliveries
  BY DEF Mail, On, rowVars
<1>2. CASE Finish(p) /\ UNCHANGED ghostVars
  <2>1. UNCHANGED <<deliveries, dispatched, again>>
    BY <1>1, <1>2 DEF ghostVars
  <2>2. ToldInv' /\ \A q \in Processes : q # p => job'[q] = job[q]
    BY <1>2, <2>1, ToldIdles
  <2> QED BY <1>1, <2>2 DEF Serving
<1>3. CASE ~(Finish(p) /\ UNCHANGED ghostVars)
  <2>1. PICK ds : ds = job[p].won \cap deliveries
    OBVIOUS
  <2>2. Handed(ds) /\ job' = [job EXCEPT ![p].at = "record"]
    BY <1>3, <2>1 DEF Mail
  <2>3. ds \subseteq Holds(job[p])
    BY <1>1, <2>1 DEF Holds
  <2> DEFINE old == job[p]
             new == [old EXCEPT !.at = "record"]
  <2>4. Becomes(p, new) /\ IsJob(old)
    BY <2>2 DEF Becomes, ToldInv, JobsTyped
  <2> HIDE DEF old
  <2>5. IsJob(new) /\ new.at = "record"
    BY <2>4, JobAt
  <2> HIDE DEF new
  <2>6. Holds(new) = {} /\ Tidy(new)
    BY <2>5 DEF Holds, Tidy
  <2>7. Handed(ds)
    BY <2>2
  <2>8. ToldInv' /\ \A q \in Processes : q # p => job'[q] = job[q]
    BY <1>1, <2>3, <2>4, <2>5, <2>6, <2>7, HandedOnce
  <2> QED BY <1>1, <2>8 DEF Serving
<1> QED BY <1>2, <1>3

\* The deletions of a reconciliation take a row from everyone alike.
LEMMA StaleTold ==
  ASSUME ToldInv, NEW p \in Processes, Stale(p)
  PROVE  ToldInv' /\ Serving
<1> DEFINE Kept(stale, ds) == {d \in ds : <<d[1], d[2], d[3]>> \notin stale}
<1>1. PICK stale :
        /\ deliveries' = Kept(stale, deliveries)
        /\ dispatched' = Kept(stale, dispatched) /\ again' = Kept(stale, again)
        /\ job' = [q \in Processes |->
             IF q = p THEN [job[p] EXCEPT !.at = "threshold"]
             ELSE IF Kept(stale, job[q].claims) # job[q].claims THEN Idle
             ELSE [job[q] EXCEPT !.won = Kept(stale, @)]]
  <2> DEFINE stale == {r \in recipients : r[1] \in Todos \ job[p].todos /\ r[3] = job[p].user}
  <2> SUFFICES /\ deliveries' = Kept(stale, deliveries)
               /\ dispatched' = Kept(stale, dispatched) /\ again' = Kept(stale, again)
               /\ job' = [q \in Processes |->
                    IF q = p THEN [job[p] EXCEPT !.at = "threshold"]
                    ELSE IF Kept(stale, job[q].claims) # job[q].claims THEN Idle
                    ELSE [job[q] EXCEPT !.won = Kept(stale, @)]]
    OBVIOUS
  <2> QED BY DEF Stale
<1> DEFINE Rest(ds) == Kept(stale, ds)
<1>2. \A ds, d : d \in Rest(ds) <=> d \in ds /\ <<d[1], d[2], d[3]>> \notin stale
  OBVIOUS
<1>3. /\ deliveries' = Rest(deliveries) /\ dispatched' = Rest(dispatched)
      /\ again' = Rest(again)
  BY <1>1
<1>4. job[p].at = "stale"
  BY DEF Stale, On
<1>5. ASSUME NEW q \in Processes
      PROVE  /\ IsJob(job'[q]) /\ Tidy(job'[q])
             /\ Holds(job'[q]) \subseteq Rest(Holds(job[q]))
             /\ job[q].at = "request" => job'[q].at = "request"
  <2> DEFINE old == job[q]
  <2>1. IsJob(old) /\ Tidy(old)
    BY DEF ToldInv, JobsTyped
  <2>2. CASE q = p
    <3> DEFINE new == [old EXCEPT !.at = "threshold"]
    <3>1. job'[q] = new
      BY <1>1, <2>2
    <3>2. old.at = "stale"
      BY <1>4, <2>2
    <3>3. job[q].at = "stale"
      BY <1>4, <2>2
    <3> HIDE DEF old
    <3>4. IsJob(new) /\ new.at = "threshold" /\ new.won = old.won
      BY <2>1, JobAt
    <3> HIDE DEF new
    <3>5. Tidy(new) /\ Holds(new) = {}
      BY <2>1, <3>2, <3>4 DEF Tidy, Holds
    <3> QED BY <3>1, <3>3, <3>4, <3>5
  <2>3. CASE q # p /\ Rest(old.claims) # old.claims
    <3>1. job'[q] = Idle
      BY <1>1, <2>3
    <3>2. job[q].at # "request"
      BY <1>2, <2>1, <2>3 DEF Tidy
    <3>3. Holds(Idle) = {} /\ Tidy(Idle)
      BY IdleJob DEF Holds, Tidy
    <3> QED BY <3>1, <3>2, <3>3, IdleJob
  <2>4. CASE q # p /\ Rest(old.claims) = old.claims
    <3>1. PICK won : won = Rest(old.won)
      OBVIOUS
    <3> DEFINE new == [old EXCEPT !.won = won]
    <3>2. job'[q] = new
      BY <1>1, <2>4, <3>1
    <3>3. old = job[q]
      OBVIOUS
    <3> HIDE DEF old
    <3>4. IsJob(new) /\ new.at = old.at /\ new.won = won /\ new.claims = old.claims
      <4>1. new = [at |-> old.at, target |-> old.target, ep |-> old.ep, left |-> old.left,
                   user |-> old.user, channels |-> old.channels, todos |-> old.todos,
                   claims |-> old.claims, won |-> won]
        BY <2>1 DEF IsJob
      <4> QED BY <4>1 DEF IsJob
    <3> HIDE DEF new
    <3>5. won \subseteq old.won
      BY <1>2, <3>1
    <3>6. Tidy(new)
      BY <2>1, <3>4, <3>5 DEF Tidy
    <3>7. Holds(new) \subseteq Rest(Holds(old))
      <4>1. CASE old.at = "dispatch"
        BY <2>4, <3>4, <4>1 DEF Holds
      <4>2. CASE old.at = "claim"
        BY <3>1, <3>4, <4>2 DEF Holds
      <4>3. CASE old.at \notin {"dispatch", "claim"}
        BY <3>4, <4>3 DEF Holds
      <4> QED BY <4>1, <4>2, <4>3
    <3> QED BY <3>2, <3>3, <3>4, <3>6, <3>7
  <2> QED BY <2>2, <2>3, <2>4
<1>6. JobsTyped'
  BY <1>1, <1>5 DEF JobsTyped
<1>7. again' = {} /\ dispatched' \subseteq deliveries'
  BY <1>2, <1>3 DEF ToldInv
<1> HIDE DEF Rest
<1>8. \A q \in Processes : Holds(job'[q]) \subseteq deliveries'
                           /\ Holds(job'[q]) \cap dispatched' = {}
  BY <1>2, <1>3, <1>5 DEF ToldInv
<1>9. \A q, r \in Processes : q # r => Holds(job'[q]) \cap Holds(job'[r]) = {}
  BY <1>2, <1>5 DEF ToldInv
<1> QED BY <1>5, <1>6, <1>7, <1>8, <1>9 DEF ToldInv, Serving, Holds, Tidy

LEMMA NotifyTold ==
  ASSUME ToldInv, NotifyNext
  PROVE  ToldInv' /\ Serving
<1>1. CASE World
  BY <1>1 DEF World, rowVars, ghostVars, ToldInv, JobsTyped, Serving
<1>2. ASSUME NEW p \in Processes,
             \/ Emit(p) \/ Author(p) \/ AddRecipient(p) \/ Claim(p) \/ Dispatch(p) \/ Record(p)
             \/ Resolve(p) \/ Mark(p) \/ Feed(p)
             \/ Digest(p) \/ Stale(p) \/ Pending(p) \/ ClaimThreshold(p) \/ Mail(p) \/ Dies(p)
      PROVE  ToldInv' /\ Serving
  BY <1>2, EmitTold, AuthorTold, AddRecipientTold, ClaimTold, DispatchTold, RecordTold,
     OneThingTold, DigestTold, StaleTold, PendingTold, ClaimThresholdTold, MailTold
<1> QED BY <1>1, <1>2 DEF NotifyNext

LEMMA ToldStarts ==
  ASSUME NotifyInit PROVE ToldInv
<1> DEFINE j == Idle
<1>1. IsJob(j) /\ Holds(j) = {} /\ Tidy(j)
  BY IdleJob DEF Holds, Tidy
<1>2. job = [p \in Processes |-> j]
  BY DEF NotifyInit
<1> HIDE DEF j
<1>3. \A p \in Processes : job[p] = j
  BY <1>2
<1>4. JobsTyped
  BY <1>1, <1>2, <1>3 DEF JobsTyped
<1>5. again = {} /\ dispatched = {} /\ deliveries = {}
  BY DEF NotifyInit
<1> QED BY <1>1, <1>3, <1>4, <1>5 DEF ToldInv, Holds, Tidy

\* Notifications on its own.
THEOREM NotifiedOnce == NotifySpec => []ToldOnce
<1>1. ASSUME ToldInv, UNCHANGED notifyVars PROVE ToldInv'
  BY <1>1 DEF notifyVars, rowVars, ghostVars, ToldInv, JobsTyped
<1>2. ToldInv /\ [NotifyNext]_notifyVars => ToldInv'
  BY <1>1, NotifyTold
<1>3. ToldInv => ToldOnce
  BY DEF ToldInv, ToldOnce
<1> QED BY <1>2, <1>3, ToldStarts, PTL DEF NotifySpec

-------------------------------------------------------------------------------
(* Requests about a room.                                                    *)

\* What a step does to the process of a request.
Starts(p) == job[p].at = "idle" /\ Goes(p, "request")
Ends(p) == job[p].at = "request" /\ Goes(p, "idle")
Stays == UNCHANGED job
Untold == UNCHANGED <<deliveries, dispatched, again>>

LEMMA RoomTold ==
  ASSUME ToldInv, NEW p \in Processes, Untold, Stays \/ Starts(p) \/ Ends(p)
  PROVE  /\ ToldInv' /\ \A q \in Processes : q # p => job'[q] = job[q]
         /\ Starts(p) => job'[p].at = "request"
<1>1. CASE Stays
  <2>1. ToldInv' /\ job' = job
    BY <1>1 DEF Stays, Untold, ToldInv, JobsTyped, Holds, Tidy
  <2>2. ASSUME Starts(p) PROVE job'[p].at = "request"
    <3> DEFINE at == "request"
    <3>1. Goes(p, at) /\ job[p].claims = {}
      BY <2>2 DEF Starts, ToldInv, Tidy
    <3>2. at \notin {"dispatch", "claim", "stale", "threshold"}
      OBVIOUS
    <3>3. UNCHANGED <<deliveries, dispatched, again>>
      BY DEF Untold
    <3> HIDE DEF at
    <3>4. job'[p].at = at
      BY <3>1, <3>2, <3>3, ToldGoes
    <3> QED BY <3>4 DEF at
  <2> QED BY <2>1, <2>2
<1>2. ASSUME NEW at \in {"idle", "request"}, Goes(p, at), job[p].at \in {"idle", "request"}
      PROVE  /\ ToldInv' /\ job'[p].at = at
             /\ \A q \in Processes : q # p => job'[q] = job[q]
  <2>1. job[p].claims = {}
    BY <1>2 DEF ToldInv, Tidy
  <2>2. at \notin {"dispatch", "claim", "stale", "threshold"}
    BY <1>2
  <2>3. UNCHANGED <<deliveries, dispatched, again>>
    BY DEF Untold
  <2> QED BY <1>2, <2>1, <2>2, <2>3, ToldGoes
<1>3. CASE Starts(p)
  BY <1>2, <1>3 DEF Starts
<1>4. CASE Ends(p)
  BY <1>2, <1>4 DEF Ends, Starts
<1> QED BY <1>1, <1>3, <1>4

-------------------------------------------------------------------------------
(* The request a process serves.                                             *)

IsReq(r) == r = [op |-> r.op, user |-> r.user, key |-> r.key, stamp |-> r.stamp,
                 files |-> r.files, stored |-> r.stored, option |-> r.option, set |-> r.set,
                 flag |-> r.flag]

ReqsTyped ==
  req = [p \in Processes |-> req[p]] /\ \A p \in Processes : IsReq(req[p])

Takes(p, r) == req' = [req EXCEPT ![p] = r]

\* A request is still one when a field of it is set, and has its other fields.
LEMMA ReqOp ==
  ASSUME NEW r, IsReq(r), NEW x, NEW new, new = [r EXCEPT !.op = x]
  PROVE  /\ IsReq(new) /\ new.op = x
         /\ new.user = r.user /\ new.key = r.key /\ new.stamp = r.stamp /\ new.files = r.files
         /\ new.stored = r.stored /\ new.flag = r.flag
<1>1. new = [op |-> x, user |-> r.user, key |-> r.key, stamp |-> r.stamp, files |-> r.files,
             stored |-> r.stored, option |-> r.option, set |-> r.set, flag |-> r.flag]
  BY DEF IsReq
<1> QED BY <1>1 DEF IsReq

LEMMA ReqUser ==
  ASSUME NEW r, IsReq(r), NEW x, NEW new, new = [r EXCEPT !.user = x]
  PROVE  /\ IsReq(new) /\ new.user = x
         /\ new.op = r.op /\ new.key = r.key /\ new.stamp = r.stamp /\ new.files = r.files
         /\ new.stored = r.stored /\ new.flag = r.flag
<1>1. new = [op |-> r.op, user |-> x, key |-> r.key, stamp |-> r.stamp, files |-> r.files,
             stored |-> r.stored, option |-> r.option, set |-> r.set, flag |-> r.flag]
  BY DEF IsReq
<1> QED BY <1>1 DEF IsReq

LEMMA ReqKey ==
  ASSUME NEW r, IsReq(r), NEW x, NEW new, new = [r EXCEPT !.key = x]
  PROVE  /\ IsReq(new) /\ new.key = x
         /\ new.op = r.op /\ new.user = r.user /\ new.stamp = r.stamp /\ new.files = r.files
         /\ new.stored = r.stored /\ new.flag = r.flag
<1>1. new = [op |-> r.op, user |-> r.user, key |-> x, stamp |-> r.stamp, files |-> r.files,
             stored |-> r.stored, option |-> r.option, set |-> r.set, flag |-> r.flag]
  BY DEF IsReq
<1> QED BY <1>1 DEF IsReq

LEMMA ReqStamp ==
  ASSUME NEW r, IsReq(r), NEW x, NEW new, new = [r EXCEPT !.stamp = x]
  PROVE  /\ IsReq(new) /\ new.stamp = x
         /\ new.op = r.op /\ new.user = r.user /\ new.key = r.key /\ new.files = r.files
         /\ new.stored = r.stored /\ new.flag = r.flag
<1>1. new = [op |-> r.op, user |-> r.user, key |-> r.key, stamp |-> x, files |-> r.files,
             stored |-> r.stored, option |-> r.option, set |-> r.set, flag |-> r.flag]
  BY DEF IsReq
<1> QED BY <1>1 DEF IsReq

LEMMA ReqFiles ==
  ASSUME NEW r, IsReq(r), NEW x, NEW new, new = [r EXCEPT !.files = x]
  PROVE  /\ IsReq(new) /\ new.files = x
         /\ new.op = r.op /\ new.user = r.user /\ new.key = r.key /\ new.stamp = r.stamp
         /\ new.stored = r.stored /\ new.flag = r.flag
<1>1. new = [op |-> r.op, user |-> r.user, key |-> r.key, stamp |-> r.stamp, files |-> x,
             stored |-> r.stored, option |-> r.option, set |-> r.set, flag |-> r.flag]
  BY DEF IsReq
<1> QED BY <1>1 DEF IsReq

LEMMA ReqStored ==
  ASSUME NEW r, IsReq(r), NEW x, NEW new, new = [r EXCEPT !.stored = x]
  PROVE  /\ IsReq(new) /\ new.stored = x
         /\ new.op = r.op /\ new.user = r.user /\ new.key = r.key /\ new.stamp = r.stamp
         /\ new.files = r.files /\ new.flag = r.flag
<1>1. new = [op |-> r.op, user |-> r.user, key |-> r.key, stamp |-> r.stamp,
             files |-> r.files, stored |-> x, option |-> r.option, set |-> r.set,
             flag |-> r.flag]
  BY DEF IsReq
<1> QED BY <1>1 DEF IsReq

LEMMA ReqOption ==
  ASSUME NEW r, IsReq(r), NEW x, NEW new, new = [r EXCEPT !.option = x]
  PROVE  /\ IsReq(new) /\ new.option = x
         /\ new.op = r.op /\ new.user = r.user /\ new.key = r.key /\ new.stamp = r.stamp
         /\ new.files = r.files /\ new.stored = r.stored /\ new.flag = r.flag
<1>1. new = [op |-> r.op, user |-> r.user, key |-> r.key, stamp |-> r.stamp,
             files |-> r.files, stored |-> r.stored, option |-> x, set |-> r.set,
             flag |-> r.flag]
  BY DEF IsReq
<1> QED BY <1>1 DEF IsReq

LEMMA ReqSet ==
  ASSUME NEW r, IsReq(r), NEW x, NEW new, new = [r EXCEPT !.set = x]
  PROVE  /\ IsReq(new) /\ new.set = x
         /\ new.op = r.op /\ new.user = r.user /\ new.key = r.key /\ new.stamp = r.stamp
         /\ new.files = r.files /\ new.stored = r.stored /\ new.flag = r.flag
<1>1. new = [op |-> r.op, user |-> r.user, key |-> r.key, stamp |-> r.stamp,
             files |-> r.files, stored |-> r.stored, option |-> r.option, set |-> x,
             flag |-> r.flag]
  BY DEF IsReq
<1> QED BY <1>1 DEF IsReq

LEMMA ReqFlag ==
  ASSUME NEW r, IsReq(r), NEW x, NEW new, new = [r EXCEPT !.flag = x]
  PROVE  /\ IsReq(new) /\ new.flag = x
         /\ new.op = r.op /\ new.user = r.user /\ new.key = r.key /\ new.stamp = r.stamp
         /\ new.files = r.files /\ new.stored = r.stored
<1>1. new = [op |-> r.op, user |-> r.user, key |-> r.key, stamp |-> r.stamp,
             files |-> r.files, stored |-> r.stored, option |-> r.option, set |-> r.set,
             flag |-> x]
  BY DEF IsReq
<1> QED BY <1>1 DEF IsReq

LEMMA NothingAsked ==
  IsReq(NoRequest) /\ NoRequest.op = "none" /\ NoRequest.stored = 0
BY DEF IsReq, NoRequest

LEMMA ReqSame ==
  ASSUME ReqsTyped, NEW p, NEW r, IsReq(r), Takes(p, r)
  PROVE  ReqsTyped' /\ \A q \in Processes : req'[q] = IF q = p THEN r ELSE req[q]
BY DEF ReqsTyped, Takes

-------------------------------------------------------------------------------
(* What holds of the room and the requests at work.                          *)

\* What a request relies on since it looked.
Relies(r) ==
  /\ r.op \in {"insert"} \cup Sending =>
       /\ r.key \in Messages /\ r.user \in Users
       /\ r.files \in 0 .. MaxFiles /\ r.stored \in 0 .. r.files
  /\ r.op \in {"insert", "touch"} => r.stored = 0
  /\ r.op = "file" => r.stored < r.files
  /\ r.op \in Sending => r.stamp \in Nat \ {0} /\ message[r.key] = NoRow
  /\ r.op \in {"publish", "notify"} =>
       r.key \in Messages /\ message[r.key] # NoRow /\ message[r.key].sender = r.user
  /\ r.op = "publish" => framed[r.key] = 0
  /\ r.op \in {"edit", "delete"} => r.key \in Messages /\ message[r.key] # NoRow
  /\ r.op = "read" => r.user \in Users /\ participant[r.user] # NoRow /\ r.stamp \in Nat

\* Until its frame is out, a message belongs to the request that sends it.
InFlight == Sending \cup {"publish"}
Apart(r, s) == r.op \in InFlight /\ s.op \in InFlight => r.key # s.key

Rows ==
  /\ participant \in [Users -> ParticipantRow \cup {NoRow}]
  /\ message \in [Messages -> MessageRow \cup {NoRow}]
  /\ clock \in Nat

Frames ==
  /\ framed \in [Messages -> {0, 1}]
  /\ \A k \in Messages : message[k] = NoRow => framed[k] = 0

Requests ==
  /\ ReqsTyped
  /\ \A p \in Processes : Relies(req[p])
  /\ \A p \in Processes : req[p].op # "none" => job[p].at = "request"
  /\ \A p, q \in Processes : p # q => Apart(req[p], req[q])

CoreInv == Rows /\ Frames /\ Requests

\* A file is of the message it was sent with, and is there.
Files(k) == IF message[k] = NoRow THEN {} ELSE message[k].files
Pieces(k, p, n) == {<<k, p, i>> : i \in 1 .. n}
Brings(r, p) == IF r.op \in Sending THEN Pieces(r.key, p, r.stored) ELSE {}

BlobInv ==
  /\ \A k \in Messages : \A f \in Files(k) : f[1] = k
  /\ \A k \in Messages : Files(k) \subseteq blob
  /\ \A p \in Processes : Brings(req[p], p) \subseteq blob
  /\ \A f \in blob : \/ \E k \in Messages : f \in Files(k)
                     \/ \E p \in Processes : f \in Brings(req[p], p)
                     \/ f \in died

\* Nobody but those who could be told was told, and whoever is resolved now could be.
MayInv ==
  /\ heard = [k \in Messages |-> heard[k]] /\ may = [k \in Messages |-> may[k]]
  /\ \A k \in Messages :
       IF message[k] = NoRow THEN heard[k] = {}
       ELSE heard[k] \subseteq may[k] /\ Reachable(message[k].sender) \subseteq may[k]

RoomInv == ToldInv /\ CoreInv /\ BlobInv /\ MayInv

\* Messages keep their sender and their files, whatever else is written to them.
MessagesKept ==
  /\ message' \in [Messages -> MessageRow \cup {NoRow}]
  /\ \A k \in Messages :
       /\ message'[k] = NoRow <=> message[k] = NoRow
       /\ message[k] # NoRow => /\ message'[k].sender = message[k].sender
                                /\ message'[k].files = message[k].files
ParticipantsKept ==
  /\ participant' \in [Users -> ParticipantRow \cup {NoRow}]
  /\ \A u \in Users : participant[u] # NoRow => participant'[u] # NoRow

\* A step that takes nothing away from what the others rely on.
LEMMA ReliesStill ==
  ASSUME CoreInv, NEW r, Relies(r), MessagesKept, ParticipantsKept, UNCHANGED framed
  PROVE  Relies(r)'
<1>1. r.key \in Messages =>
        /\ message'[r.key] = NoRow <=> message[r.key] = NoRow
        /\ message[r.key] # NoRow => message'[r.key].sender = message[r.key].sender
  BY DEF MessagesKept
<1>2. r.user \in Users /\ participant[r.user] # NoRow => participant'[r.user] # NoRow
  BY DEF ParticipantsKept
<1> QED BY <1>1, <1>2 DEF Relies, Sending

Alone(p, r) == \A q \in Processes : q # p => Apart(r, req[q])

LEMMA RequestsGoOn ==
  ASSUME CoreInv, NEW p \in Processes, NEW r, IsReq(r), Takes(p, r), Relies(r)',
         r.op # "none" => job'[p].at = "request",
         \A q \in Processes : q # p => job'[q] = job[q],
         Alone(p, r), MessagesKept, ParticipantsKept, clock' \in Nat, UNCHANGED framed
  PROVE  CoreInv'
<1>1. ReqsTyped' /\ \A q \in Processes : req'[q] = IF q = p THEN r ELSE req[q]
  BY ReqSame DEF CoreInv, Requests
<1>2. \A q \in Processes : Relies(req[q])'
  <2> TAKE q \in Processes
  <2>1. CASE q = p
    BY <1>1, <2>1 DEF Relies
  <2>2. CASE q # p
    <3>1. PICK s : s = req[q]
      OBVIOUS
    <3>2. Relies(s)
      BY <3>1 DEF CoreInv, Requests
    <3>3. Relies(s)'
      BY <3>2, ReliesStill
    <3>4. req'[q] = s
      BY <1>1, <2>2, <3>1
    <3> QED BY <3>3, <3>4 DEF Relies
  <2> QED BY <2>1, <2>2
<1>3. \A q \in Processes : req'[q].op # "none" => job'[q].at = "request"
  BY <1>1 DEF CoreInv, Requests
<1>4. \A q, s \in Processes : q # s => Apart(req'[q], req'[s])
  BY <1>1 DEF CoreInv, Requests, Alone, Apart
<1>5. Requests'
  BY <1>1, <1>2, <1>3, <1>4 DEF Requests, Apart
<1>6. Rows' /\ Frames'
  BY DEF Rows, Frames, CoreInv, MessagesKept, ParticipantsKept
<1> QED BY <1>5, <1>6 DEF CoreInv

LEMMA BlobsStay ==
  ASSUME CoreInv, BlobInv, NEW p \in Processes, NEW r, IsReq(r), Takes(p, r), MessagesKept,
         UNCHANGED <<blob, died>>, Brings(r, p) = Brings(req[p], p)
  PROVE  BlobInv'
<1>1. \A q \in Processes : Brings(req'[q], q) = Brings(req[q], q)
  <2>1. \A q \in Processes : req'[q] = IF q = p THEN r ELSE req[q]
    BY ReqSame DEF CoreInv, Requests
  <2> QED BY <2>1
<1>2. \A k \in Messages : Files(k)' = Files(k)
  BY DEF Files, MessagesKept
<1> QED BY <1>1, <1>2 DEF BlobInv, Brings, Files

LEMMA MayStays ==
  ASSUME MayInv, MessagesKept, UNCHANGED <<participant, may, heard>>
  PROVE  MayInv'
<1>1. \A s : Reachable(s)' = Reachable(s)
  BY DEF Reachable, Live
<1> QED BY <1>1 DEF MayInv, MessagesKept, Reachable

\* The step leaves the rows, the storage and what was heard as they were.
RoomStays == UNCHANGED <<participant, message, blob, framed, heard, may, died>> /\ Untold

LEMMA NothingWritten ==
  ASSUME CoreInv, RoomStays
  PROVE  MessagesKept /\ ParticipantsKept
BY DEF CoreInv, Rows, RoomStays, MessagesKept, ParticipantsKept

\* What a step of a request does to its process.
Serves(p, r) ==
  \/ Starts(p)
  \/ Ends(p) /\ r.op = "none"
  \/ Stays /\ req[p].op # "none"

LEMMA Served ==
  ASSUME ToldInv, CoreInv, NEW p \in Processes, NEW r, Serves(p, r), Untold
  PROVE  /\ ToldInv' /\ \A q \in Processes : q # p => job'[q] = job[q]
         /\ r.op # "none" => job'[p].at = "request"
<1>1. Stays \/ Starts(p) \/ Ends(p)
  BY DEF Serves
<1>2. /\ ToldInv' /\ \A q \in Processes : q # p => job'[q] = job[q]
      /\ Starts(p) => job'[p].at = "request"
  BY <1>1, RoomTold
<1>3. Stays /\ req[p].op # "none" => job'[p].at = "request"
  BY DEF Stays, CoreInv, Requests
<1> QED BY <1>2, <1>3 DEF Serves

LEMMA RequestMoves ==
  ASSUME ToldInv, CoreInv, NEW p \in Processes, NEW r, IsReq(r), Takes(p, r), Serves(p, r),
         Untold, MessagesKept, ParticipantsKept, clock' \in Nat, UNCHANGED framed,
         Relies(r), Alone(p, r)
  PROVE  ToldInv' /\ CoreInv'
<1>1. /\ ToldInv' /\ \A q \in Processes : q # p => job'[q] = job[q]
      /\ r.op # "none" => job'[p].at = "request"
  BY Served
<1>2. Relies(r)'
  BY ReliesStill
<1>3. CoreInv'
  BY <1>1, <1>2, RequestsGoOn
<1> QED BY <1>1, <1>3

\* A step that only writes down what the process is to do.
LEMMA RequestOnly ==
  ASSUME RoomInv, NEW p \in Processes, NEW r, IsReq(r), Takes(p, r), Serves(p, r),
         RoomStays, clock' \in Nat, Relies(r), Alone(p, r), Brings(r, p) = Brings(req[p], p)
  PROVE  RoomInv'
<1>1. ToldInv /\ CoreInv /\ BlobInv /\ MayInv
  BY DEF RoomInv
<1>2. Untold /\ UNCHANGED framed /\ UNCHANGED <<blob, died>> /\ UNCHANGED <<participant, may, heard>>
  BY DEF RoomStays
<1>3. MessagesKept /\ ParticipantsKept
  BY <1>1, NothingWritten
<1>4. ToldInv' /\ CoreInv'
  BY <1>1, <1>2, <1>3, RequestMoves
<1>7. BlobInv'
  BY <1>1, <1>2, <1>3, BlobsStay
<1>8. MayInv'
  BY <1>1, <1>2, <1>3, MayStays
<1> QED BY <1>4, <1>7, <1>8 DEF RoomInv

\* A request that is not one of send_message() has nothing at stake.
Plain(r) ==
  r.op \notin {"insert", "publish", "notify", "edit", "delete", "read"} \cup Sending

LEMMA PlainRelies ==
  ASSUME NEW r, Plain(r)
  PROVE  /\ Relies(r) /\ \A p \in Processes : Brings(r, p) = {}
         /\ \A p \in Processes : Alone(p, r)
BY DEF Plain, Relies, Alone, Apart, InFlight, Brings, Sending

LEMMA PlainPrime ==
  ASSUME NEW r, Plain(r)
  PROVE  Relies(r)'
BY DEF Plain, Relies, Sending

LEMMA Started ==
  ASSUME RoomInv, NEW p \in Processes, NEW r, IsReq(r), Takes(p, r), Starts(p),
         RoomStays, UNCHANGED clock, Relies(r), r.op \notin InFlight
  PROVE  RoomInv'
<1>1. req[p].op = "none"
  BY DEF RoomInv, CoreInv, Requests, Starts
<1>2. Brings(r, p) = Brings(req[p], p)
  BY <1>1 DEF Brings, InFlight, Sending
<1>3. Alone(p, r)
  BY DEF Alone, Apart
<1>4. Serves(p, r)
  BY DEF Serves
<1>5. clock' \in Nat
  BY DEF RoomInv, CoreInv, Rows
<1> QED BY <1>2, <1>3, <1>4, <1>5, RequestOnly

LEMMA Untouched ==
  ASSUME RoomAsItWas \/ (Settled /\ UNCHANGED <<participant, may>>)
  PROVE  RoomStays /\ UNCHANGED clock
BY DEF RoomAsItWas, Settled, RoomStays, Untold, Unnotified, spyVars, rowVars, ghostVars

LEMMA SendKept ==
  ASSUME RoomInv, NEW p \in Processes, Send(p)
  PROVE  RoomInv'
<1>1. PICK u \in Users, k \in Messages, n \in 0 .. MaxFiles, isPoll \in BOOLEAN :
        /\ Begin(p, "send", u) /\ Live(u)
        /\ message[k] # NoRow => message[k].sender = u
        /\ \A q \in Processes : req[q].op \in Sending /\ req[q].key = k => req[q].user = u
        /\ isPoll => n = 0
        /\ req' = [req EXCEPT ![p] = [NoRequest EXCEPT !.op = "insert", !.user = u, !.key = k,
                                                       !.files = n, !.flag = isPoll]]
        /\ RoomAsItWas
  BY Zenon DEF Send
<1> DEFINE one == [NoRequest EXCEPT !.op = "insert"]
           two == [one EXCEPT !.user = u]
           three == [two EXCEPT !.key = k]
           four == [three EXCEPT !.files = n]
           r == [four EXCEPT !.flag = isPoll]
<1>2. Takes(p, r)
  BY <1>1 DEF Takes
<1>3. IsReq(one) /\ one.op = "insert" /\ one.stored = 0
  BY NothingAsked, ReqOp
<1> HIDE DEF one
<1>4. IsReq(two) /\ two.op = one.op /\ two.stored = one.stored /\ two.user = u
  BY <1>3, ReqUser
<1> HIDE DEF two
<1>5. IsReq(three) /\ three.op = two.op /\ three.stored = two.stored /\ three.user = two.user
      /\ three.key = k
  BY <1>4, ReqKey
<1> HIDE DEF three
<1>6. IsReq(four) /\ four.op = three.op /\ four.stored = three.stored /\ four.user = three.user
      /\ four.key = three.key /\ four.files = n
  BY <1>5, ReqFiles
<1> HIDE DEF four
<1>7. IsReq(r) /\ r.op = four.op /\ r.stored = four.stored /\ r.user = four.user
      /\ r.key = four.key /\ r.files = four.files
  BY <1>6, ReqFlag
<1> HIDE DEF r
<1>8. r.op = "insert" /\ r.stored = 0 /\ r.user = u /\ r.key = k /\ r.files = n
  BY <1>3, <1>4, <1>5, <1>6, <1>7
<1>9. Relies(r)
  <2>1. r.stored \in 0 .. r.files
    BY <1>8, MessagingAssumption
  <2> QED BY <1>8, <2>1 DEF Relies, Sending
<1>10. r.op \notin InFlight
  BY <1>8 DEF InFlight, Sending
<1>11. Starts(p)
  BY <1>1 DEF Begin, Serve, Starts, Goes
<1>12. RoomStays /\ UNCHANGED clock
  BY <1>1, Untouched
<1> QED BY <1>2, <1>7, <1>9, <1>10, <1>11, <1>12, Started

\* edit and delete: the view's copy of a message.
LEMMA OpenKept ==
  ASSUME RoomInv, NEW p \in Processes, Edit(p) \/ Delete(p)
  PROVE  RoomInv'
<1>1. PICK op, u, k, flag :
        op \in {"edit", "delete"} /\ k \in Messages /\ Open(p, op, u, k, flag)
  BY DEF Edit, Delete
<1>2. /\ Begin(p, op, u) /\ message[k] # NoRow /\ RoomAsItWas
      /\ req' = [req EXCEPT ![p] = [NoRequest EXCEPT !.op = op, !.user = u, !.key = k,
                                                     !.flag = flag]]
  BY <1>1 DEF Open
<1> DEFINE one == [NoRequest EXCEPT !.op = op]
           two == [one EXCEPT !.user = u]
           three == [two EXCEPT !.key = k]
           r == [three EXCEPT !.flag = flag]
<1>3. Takes(p, r)
  BY <1>2 DEF Takes
<1>4. IsReq(one) /\ one.op = op
  BY NothingAsked, ReqOp
<1> HIDE DEF one
<1>5. IsReq(two) /\ two.op = one.op
  BY <1>4, ReqUser
<1> HIDE DEF two
<1>6. IsReq(three) /\ three.op = two.op /\ three.key = k
  <2>1. three = [two EXCEPT !.key = k]
    OBVIOUS
  <2>2. IsReq(two)
    BY <1>5
  <2> HIDE DEF three
  <2> QED BY <2>1, <2>2, ReqKey
<1> HIDE DEF three
<1>7. IsReq(r) /\ r.op = three.op /\ r.key = three.key
  <2>1. r = [three EXCEPT !.flag = flag]
    OBVIOUS
  <2>2. IsReq(three)
    BY <1>6
  <2> HIDE DEF r
  <2> QED BY <2>1, <2>2, ReqFlag
<1> HIDE DEF r
<1>8. r.op = op /\ r.key = k
  BY <1>4, <1>5, <1>6, <1>7
<1>9. Relies(r) /\ r.op \notin InFlight
  BY <1>1, <1>2, <1>8 DEF Relies, InFlight, Sending
<1>10. Starts(p)
  BY <1>2 DEF Begin, Serve, Starts, Goes
<1>11. RoomStays /\ UNCHANGED clock
  BY <1>2, Untouched
<1> QED BY <1>3, <1>7, <1>9, <1>10, <1>11, Started

LEMMA VoteKept ==
  ASSUME RoomInv, NEW p \in Processes, Vote(p)
  PROVE  RoomInv'
<1>1. PICK u, k, o :
        /\ Begin(p, "vote", u) /\ RoomAsItWas
        /\ req' = [req EXCEPT ![p] = [NoRequest EXCEPT !.op = "vote", !.user = u, !.key = k,
                                                       !.option = o]]
  BY DEF Vote
<1> DEFINE one == [NoRequest EXCEPT !.op = "vote"]
           two == [one EXCEPT !.user = u]
           three == [two EXCEPT !.key = k]
           r == [three EXCEPT !.option = o]
<1>2. Takes(p, r)
  BY <1>1 DEF Takes
<1>3. IsReq(one) /\ one.op = "vote"
  BY NothingAsked, ReqOp
<1> HIDE DEF one
<1>4. IsReq(two) /\ two.op = one.op
  BY <1>3, ReqUser
<1> HIDE DEF two
<1>5. IsReq(three) /\ three.op = two.op
  BY <1>4, ReqKey
<1> HIDE DEF three
<1>6. IsReq(r) /\ r.op = three.op
  BY <1>5, ReqOption
<1> HIDE DEF r
<1>7. Plain(r) /\ r.op \notin InFlight
  BY <1>3, <1>4, <1>5, <1>6 DEF Plain, Sending, InFlight
<1>8. Starts(p)
  BY <1>1 DEF Begin, Serve, Starts, Goes
<1>9. RoomStays /\ UNCHANGED clock
  BY <1>1, Untouched
<1> QED BY <1>2, <1>6, <1>7, <1>8, <1>9, PlainRelies, Started

LEMMA MarkReadKept ==
  ASSUME RoomInv, NEW p \in Processes, MarkRead(p)
  PROVE  RoomInv'
<1>1. PICK u \in Users :
        /\ Begin(p, "read", u) /\ Live(u)
        /\ req' = [req EXCEPT ![p] = [NoRequest EXCEPT !.op = "read", !.user = u, !.stamp = clock,
                                                       !.stored = participant[u].read]]
        /\ Settled /\ UNCHANGED <<participant, may>>
  BY Zenon DEF MarkRead
<1>2. PICK c, m : c = clock /\ m = participant[u].read
  OBVIOUS
<1> DEFINE one == [NoRequest EXCEPT !.op = "read"]
           two == [one EXCEPT !.user = u]
           three == [two EXCEPT !.stamp = c]
           r == [three EXCEPT !.stored = m]
<1>3. Takes(p, r)
  BY <1>1, <1>2 DEF Takes
<1>4. IsReq(one) /\ one.op = "read"
  BY NothingAsked, ReqOp
<1> HIDE DEF one
<1>5. IsReq(two) /\ two.op = one.op /\ two.user = u
  BY <1>4, ReqUser
<1> HIDE DEF two
<1>6. IsReq(three) /\ three.op = two.op /\ three.user = two.user /\ three.stamp = c
  BY <1>5, ReqStamp
<1> HIDE DEF three
<1>7. IsReq(r) /\ r.op = three.op /\ r.user = three.user /\ r.stamp = three.stamp
  BY <1>6, ReqStored
<1> HIDE DEF r
<1>8. r.op = "read" /\ r.user = u /\ r.stamp = c
  BY <1>4, <1>5, <1>6, <1>7
<1>9. c \in Nat /\ participant[u] # NoRow
  BY <1>1, <1>2 DEF RoomInv, CoreInv, Rows, Live
<1>10. Relies(r) /\ r.op \notin InFlight
  BY <1>8, <1>9 DEF Relies, InFlight, Sending
<1>11. Starts(p)
  BY <1>1 DEF Begin, Serve, Starts, Goes
<1>12. RoomStays /\ UNCHANGED clock
  BY <1>1, Untouched
<1> QED BY <1>3, <1>7, <1>10, <1>11, <1>12, Started

LEMMA ReconcileKept ==
  ASSUME RoomInv, NEW p \in Processes, Reconcile(p)
  PROVE  RoomInv'
<1>1. PICK u, absent :
        /\ Serve(p, 1) /\ job' = [job EXCEPT ![p].at = "request"]
        /\ req' = [req EXCEPT ![p] = [NoRequest EXCEPT !.op = "members", !.user = u,
                                                       !.set = provider, !.flag = absent]]
        /\ Settled /\ UNCHANGED <<participant, may>>
  BY Zenon DEF Reconcile
<1>2. PICK us : us = provider
  OBVIOUS
<1> DEFINE one == [NoRequest EXCEPT !.op = "members"]
           two == [one EXCEPT !.user = u]
           three == [two EXCEPT !.set = us]
           r == [three EXCEPT !.flag = absent]
<1>3. Takes(p, r)
  BY <1>1, <1>2 DEF Takes
<1>4. IsReq(one) /\ one.op = "members"
  BY NothingAsked, ReqOp
<1> HIDE DEF one
<1>5. IsReq(two) /\ two.op = one.op
  BY <1>4, ReqUser
<1> HIDE DEF two
<1>6. IsReq(three) /\ three.op = two.op
  BY <1>5, ReqSet
<1> HIDE DEF three
<1>7. IsReq(r) /\ r.op = three.op
  <2>1. r = [three EXCEPT !.flag = absent]
    OBVIOUS
  <2>2. IsReq(three)
    BY <1>6
  <2> HIDE DEF r
  <2> QED BY <2>1, <2>2, ReqFlag
<1> HIDE DEF r
<1>8. Plain(r) /\ r.op \notin InFlight
  BY <1>4, <1>5, <1>6, <1>7 DEF Plain, Sending, InFlight
<1>9. Starts(p)
  BY <1>1 DEF Serve, Starts, Goes
<1>10. RoomStays /\ UNCHANGED clock
  BY <1>1, Untouched
<1> QED BY <1>3, <1>7, <1>8, <1>9, <1>10, PlainRelies, Started

LEMMA ClearVotesKept ==
  ASSUME RoomInv, NEW p \in Processes, ClearVotes(p)
  PROVE  RoomInv'
<1>1. PICK vs : req' = [req EXCEPT ![p].op = "cast", ![p].set = vs]
  BY DEF ClearVotes
<1>2. req[p].op = "vote" /\ Stays /\ RoomAsItWas
  BY DEF ClearVotes, At, Stays
<1> DEFINE old == req[p]
           one == [old EXCEPT !.op = "cast"]
           r == [one EXCEPT !.set = vs]
<1>3. Takes(p, r) /\ IsReq(old)
  BY <1>1 DEF Takes, RoomInv, CoreInv, Requests, ReqsTyped
<1> HIDE DEF old
<1>4. IsReq(one) /\ one.op = "cast"
  BY <1>3, ReqOp
<1> HIDE DEF one
<1>5. IsReq(r) /\ r.op = one.op
  <2>1. r = [one EXCEPT !.set = vs]
    OBVIOUS
  <2>2. IsReq(one)
    BY <1>4
  <2> HIDE DEF r
  <2> QED BY <2>1, <2>2, ReqSet
<1> HIDE DEF r
<1>6. Plain(r)
  BY <1>4, <1>5 DEF Plain, Sending
<1>7. Relies(r) /\ Alone(p, r) /\ Brings(r, p) = {}
  BY <1>6, PlainRelies
<1>8. Brings(r, p) = Brings(req[p], p)
  BY <1>2, <1>7 DEF Brings, Sending
<1>9. Serves(p, r)
  BY <1>2 DEF Serves
<1>10. RoomStays /\ UNCHANGED clock
  BY <1>2, Untouched
<1>11. clock' \in Nat
  BY <1>10 DEF RoomInv, CoreInv, Rows
<1> QED BY <1>3, <1>5, <1>7, <1>8, <1>9, <1>10, <1>11, RequestOnly

\* A request that has answered.
LEMMA Replied ==
  ASSUME RoomInv, NEW p \in Processes, job[p].at = "request", Reply(p), Untold,
         MessagesKept, ParticipantsKept, UNCHANGED <<clock, framed>>
  PROVE  /\ ToldInv' /\ CoreInv'
         /\ req[p].op \notin Sending /\ UNCHANGED <<blob, died>> => BlobInv'
<1>1. PICK r : r = NoRequest
  OBVIOUS
<1>2. IsReq(r) /\ r.op = "none"
  BY <1>1, NothingAsked
<1>3. Takes(p, r) /\ Ends(p)
  BY <1>1 DEF Reply, Takes, Ends, Goes
<1>4. Plain(r)
  BY <1>2 DEF Plain, Sending
<1>5. Alone(p, r) /\ Brings(r, p) = {}
  BY <1>4, PlainRelies
<1>6. Relies(r)'
  BY <1>4, PlainPrime
<1>7. ToldInv /\ CoreInv /\ BlobInv
  BY DEF RoomInv
<1>8. /\ ToldInv' /\ \A q \in Processes : q # p => job'[q] = job[q]
      /\ r.op # "none" => job'[p].at = "request"
  <2>1. Serves(p, r)
    BY <1>2, <1>3 DEF Serves
  <2> QED BY <1>7, <2>1, Served
<1>9. clock' \in Nat /\ UNCHANGED framed
  BY <1>7 DEF CoreInv, Rows
<1>10. CoreInv'
  BY <1>2, <1>3, <1>5, <1>6, <1>7, <1>8, <1>9, RequestsGoOn
<1>11. ASSUME req[p].op \notin Sending, UNCHANGED <<blob, died>> PROVE BlobInv'
  <2>1. Brings(r, p) = Brings(req[p], p)
    BY <1>5, <1>11 DEF Brings
  <2> QED BY <1>2, <1>3, <1>7, <1>11, <2>1, BlobsStay
<1> QED BY <1>8, <1>10, <1>11

\* The room is as it was; somebody else worked.
LEMMA Unmoved ==
  ASSUME RoomInv, ToldInv', Serving,
         UNCHANGED <<participant, message, clock, blob, req, framed, heard, may, died>>
  PROVE  RoomInv'
<1>1. Rows' /\ Frames'
  BY DEF RoomInv, CoreInv, Rows, Frames
<1>2. Requests'
  BY DEF RoomInv, CoreInv, Requests, ReqsTyped, Relies, Apart, Serving
<1>3. BlobInv'
  BY DEF RoomInv, BlobInv, Files, Brings
<1>4. MayInv'
  BY DEF RoomInv, MayInv, Reachable, Live
<1> QED BY <1>1, <1>2, <1>3, <1>4 DEF RoomInv, CoreInv

-------------------------------------------------------------------------------
(* Rows that are written.                                                    *)

LEMMA ParticipantWritten ==
  ASSUME NEW row \in ParticipantRow, NEW b \in BOOLEAN, NEW n \in Nat
  PROVE  /\ [row EXCEPT !.live = b] \in ParticipantRow
         /\ [row EXCEPT !.muted = b] \in ParticipantRow
         /\ [row EXCEPT !.archived = b] \in ParticipantRow
         /\ [row EXCEPT !.archived = b].live = row.live
         /\ [row EXCEPT !.archived = b].muted = row.muted
         /\ [row EXCEPT !.read = n] \in ParticipantRow
         /\ [row EXCEPT !.read = n].live = row.live
         /\ [row EXCEPT !.read = n].muted = row.muted
BY DEF ParticipantRow

LEMMA NewParticipant ==
  Manual \in ParticipantRow /\ Provided \in ParticipantRow
<1>1. Manual \in ParticipantRow
  BY DEF Manual, ParticipantRow
<1>2. ASSUME NEW row \in ParticipantRow PROVE [row EXCEPT !.source = "provider"] \in ParticipantRow
  BY <1>2 DEF ParticipantRow
<1> QED BY <1>1, <1>2 DEF Provided

LEMMA MessageWritten ==
  ASSUME NEW row \in MessageRow, NEW b \in BOOLEAN, NEW s \in {"none", "open", "closed"},
         NEW new, \/ new = [row EXCEPT !.text = b] \/ new = [row EXCEPT !.deleted = b]
                  \/ new = [row EXCEPT !.poll = s]
  PROVE  new \in MessageRow /\ new.sender = row.sender /\ new.files = row.files
<1>1. row = [sender |-> row.sender, at |-> row.at, text |-> row.text, deleted |-> row.deleted,
             poll |-> row.poll, files |-> row.files]
  BY DEF MessageRow
<1>2. CASE new = [row EXCEPT !.text = b]
  BY <1>1, <1>2 DEF MessageRow
<1>3. CASE new = [row EXCEPT !.deleted = b]
  BY <1>1, <1>3 DEF MessageRow
<1>4. CASE new = [row EXCEPT !.poll = s]
  BY <1>1, <1>4 DEF MessageRow
<1> QED BY <1>2, <1>3, <1>4

\* One message is written, and is of its sender with its files still.
LEMMA OneWritten ==
  ASSUME Rows, NEW k \in Messages, message[k] # NoRow, NEW new \in MessageRow,
         new.sender = message[k].sender, new.files = message[k].files,
         message' = [message EXCEPT ![k] = new]
  PROVE  MessagesKept
<1>1. new # NoRow
  BY NoRowAssumption
<1>2. \A j \in Messages : message'[j] = IF j = k THEN new ELSE message[j]
  BY DEF Rows
<1>3. message' \in [Messages -> MessageRow \cup {NoRow}]
  BY DEF Rows
<1> QED BY <1>1, <1>2, <1>3 DEF MessagesKept

\* One participant's row is written.
LEMMA OneParticipant ==
  ASSUME Rows, NEW u \in Users, participant[u] # NoRow, NEW new \in ParticipantRow,
         participant' = [participant EXCEPT ![u] = new]
  PROVE  /\ ParticipantsKept
         /\ \A v \in Users : participant'[v] = IF v = u THEN new ELSE participant[v]
<1>1. new # NoRow
  BY NoRowAssumption
<1>2. \A v \in Users : participant'[v] = IF v = u THEN new ELSE participant[v]
  BY DEF Rows
<1>3. participant' \in [Users -> ParticipantRow \cup {NoRow}]
  BY DEF Rows
<1> QED BY <1>1, <1>2, <1>3 DEF ParticipantsKept

LEMMA Unwritten ==
  ASSUME Rows
  PROVE  /\ UNCHANGED message => MessagesKept
         /\ UNCHANGED participant => ParticipantsKept
BY DEF Rows, MessagesKept, ParticipantsKept

LEMMA MayWatched ==
  ASSUME MayInv, Watched, UNCHANGED <<message, heard>>
  PROVE  MayInv'
<1> SUFFICES ASSUME NEW k \in Messages, message[k] # NoRow
             PROVE  /\ heard[k] \subseteq may'[k]
                    /\ Reachable(message[k].sender)' \subseteq may'[k]
  BY DEF MayInv, Reachable, Watched
<1>1. may'[k] = may[k] \cup {u \in Users \ {message[k].sender} :
           participant'[u] # NoRow /\ participant'[u].live /\ ~participant'[u].muted}
  BY DEF Watched
<1>2. heard[k] \subseteq may[k]
  BY DEF MayInv
<1>3. Reachable(message[k].sender)' =
        {u \in Users \ {message[k].sender} :
           participant'[u] # NoRow /\ participant'[u].live /\ ~participant'[u].muted}
  BY DEF Reachable, Live
<1> QED BY <1>1, <1>2, <1>3

Hears(u) == Live(u) /\ ~participant[u].muted

LEMMA MayAlike ==
  ASSUME MayInv, MessagesKept, \A u \in Users : Hears(u)' => Hears(u), UNCHANGED <<may, heard>>
  PROVE  MayInv'
<1> SUFFICES ASSUME NEW k \in Messages, message[k] # NoRow
             PROVE  Reachable(message[k].sender)' \subseteq may[k]
  BY DEF MayInv, MessagesKept, Reachable
<1>1. Reachable(message[k].sender) \subseteq may[k]
  BY DEF MayInv
<1>2. message'[k].sender = message[k].sender
  BY DEF MessagesKept
<1> QED BY <1>1, <1>2 DEF Reachable, Hears, Live

\* A step of no request: what it writes leaves the requests what they rely on.
LEMMA RoomWritten ==
  ASSUME RoomInv, MessagesKept, ParticipantsKept, Untold,
         UNCHANGED <<clock, req, job, framed, blob, died>>
  PROVE  ToldInv' /\ CoreInv' /\ BlobInv'
<1>1. ToldInv'
  BY DEF RoomInv, ToldInv, JobsTyped, Untold, Holds, Tidy
<1>2. Rows' /\ Frames'
  BY DEF RoomInv, CoreInv, Rows, Frames, MessagesKept, ParticipantsKept
<1>3. \A p \in Processes : Relies(req[p])'
  <2> TAKE p \in Processes
  <2>1. PICK r : r = req[p]
    OBVIOUS
  <2>2. CoreInv /\ Relies(r)
    BY <2>1 DEF RoomInv, CoreInv, Requests
  <2>3. Relies(r)'
    BY <2>2, ReliesStill
  <2>4. req'[p] = r
    BY <2>1
  <2> QED BY <2>3, <2>4 DEF Relies
<1>4. Requests'
  BY <1>3 DEF RoomInv, CoreInv, Requests, ReqsTyped, Apart
<1>5. \A k \in Messages : Files(k)' = Files(k)
  BY DEF Files, MessagesKept
<1>6. BlobInv'
  BY <1>5 DEF RoomInv, BlobInv, Brings, Files
<1> QED BY <1>1, <1>2, <1>4, <1>6 DEF CoreInv

-------------------------------------------------------------------------------
(* One lemma per step.                                                       *)

LEMMA AtRequest ==
  ASSUME NEW p, NEW op, At(p, op) PROVE job[p].at = "request" /\ req[p].op = op
BY DEF At, On

LEMMA UntoldHere ==
  ASSUME Unnotified PROVE Untold
BY DEF Unnotified, rowVars, ghostVars, Untold

LEMMA BreakGlassKept ==
  ASSUME RoomInv, NEW p \in Processes, BreakGlass(p)
  PROVE  RoomInv'
<1>1. Untold /\ Stays
  BY UntoldHere DEF BreakGlass, Stays
<1>2. ToldInv' /\ Serving
  BY <1>1, RoomTold DEF RoomInv, Serving, Stays
<1>3. UNCHANGED <<participant, message, clock, blob, req, framed, heard, may, died>>
  BY DEF BreakGlass, roomVars
<1> QED BY <1>2, <1>3, Unmoved

LEMMA DomainKept ==
  ASSUME RoomInv, DomainChanges
  PROVE  RoomInv'
<1>1. UNCHANGED <<job, deliveries, dispatched, again>>
  BY DEF DomainChanges, Unnotified, rowVars, ghostVars
<1>2. ToldInv' /\ Serving
  BY <1>1 DEF RoomInv, ToldInv, JobsTyped, Serving, Holds, Tidy
<1>3. UNCHANGED <<participant, message, clock, blob, req, framed, heard, may, died>>
  BY DEF DomainChanges, spyVars
<1> QED BY <1>2, <1>3, Unmoved

LEMMA CastVoteKept ==
  ASSUME RoomInv, NEW p \in Processes, CastVote(p)
  PROVE  RoomInv'
<1>1. job[p].at = "request" /\ req[p].op = "cast"
  BY AtRequest DEF CastVote
<1>2. /\ Reply(p) /\ Untold
      /\ UNCHANGED <<participant, message, clock, blob, framed, heard, may, died>>
  BY UntoldHere DEF CastVote, spyVars
<1>3. MessagesKept /\ ParticipantsKept
  BY <1>2, Unwritten DEF RoomInv, CoreInv
<1>4. ToldInv' /\ CoreInv' /\ BlobInv'
  BY <1>1, <1>2, <1>3, Replied DEF Sending
<1>5. MayInv'
  BY <1>2, <1>3, MayStays DEF RoomInv
<1> QED BY <1>4, <1>5 DEF RoomInv

\* Steps that rewrite a message and answer.
LEMMA Rewritten ==
  ASSUME RoomInv, NEW p \in Processes, job[p].at = "request", req[p].op \notin Sending,
         Reply(p), Untold, MessagesKept,
         UNCHANGED <<participant, clock, blob, framed, heard, may, died>>
  PROVE  RoomInv'
<1>1. ParticipantsKept
  BY Unwritten DEF RoomInv, CoreInv
<1>2. ToldInv' /\ CoreInv' /\ BlobInv'
  BY <1>1, Replied
<1>3. MayInv'
  BY MayStays DEF RoomInv
<1> QED BY <1>2, <1>3 DEF RoomInv

LEMMA SaveEditKept ==
  ASSUME RoomInv, NEW p \in Processes, SaveEdit(p)
  PROVE  RoomInv'
<1>1. job[p].at = "request" /\ req[p].op = "edit"
  BY AtRequest DEF SaveEdit
<1>2. /\ Reply(p) /\ Untold
      /\ UNCHANGED <<participant, clock, blob, framed, heard, may, died>>
  BY UntoldHere DEF SaveEdit, spyVars
<1>3. PICK k : k = req[p].key
  OBVIOUS
<1>4. k \in Messages /\ message[k] # NoRow
  BY <1>1, <1>3 DEF RoomInv, CoreInv, Requests, Relies
<1>5. message[k] \in MessageRow /\ Rows
  BY <1>4 DEF RoomInv, CoreInv, Rows
<1>6. PICK b \in BOOLEAN : b = (message[k].text \/ ~req[p].flag)
  OBVIOUS
<1> DEFINE new == [message[k] EXCEPT !.text = b]
<1>7. message' = [message EXCEPT ![k] = new]
  BY <1>3, <1>6 DEF SaveEdit
<1>8. new \in MessageRow /\ new.sender = message[k].sender /\ new.files = message[k].files
  BY <1>5, MessageWritten
<1> HIDE DEF new
<1>9. MessagesKept
  BY <1>4, <1>5, <1>7, <1>8, OneWritten
<1> QED BY <1>1, <1>2, <1>9, Rewritten DEF Sending

LEMMA SoftDeleteKept ==
  ASSUME RoomInv, NEW p \in Processes, SoftDelete(p)
  PROVE  RoomInv'
<1>1. job[p].at = "request" /\ req[p].op = "delete"
  BY AtRequest DEF SoftDelete
<1>2. /\ Reply(p) /\ Untold
      /\ UNCHANGED <<participant, clock, blob, framed, heard, may, died>>
  BY UntoldHere DEF SoftDelete, spyVars
<1>3. CASE UNCHANGED message
  BY <1>1, <1>2, <1>3, Unwritten, Rewritten DEF RoomInv, CoreInv, Sending
<1>4. CASE ~UNCHANGED message
  <2>1. PICK k : k = req[p].key
    OBVIOUS
  <2>2. k \in Messages /\ message[k] # NoRow
    BY <1>1, <2>1 DEF RoomInv, CoreInv, Requests, Relies
  <2>3. message[k] \in MessageRow /\ Rows
    BY <2>2 DEF RoomInv, CoreInv, Rows
  <2> DEFINE one == [message[k] EXCEPT !.deleted = TRUE]
             new == [one EXCEPT !.text = FALSE]
  <2>4. message' = [message EXCEPT ![k] = new]
    BY <1>4, <2>1 DEF SoftDelete
  <2>5. /\ one \in MessageRow /\ one.sender = message[k].sender
        /\ one.files = message[k].files
    BY <2>3, MessageWritten
  <2> HIDE DEF one
  <2>6. new \in MessageRow /\ new.sender = one.sender /\ new.files = one.files
    BY <2>5, MessageWritten
  <2> HIDE DEF new
  <2>7. MessagesKept
    BY <2>2, <2>3, <2>4, <2>5, <2>6, OneWritten
  <2> QED BY <1>1, <1>2, <2>7, Rewritten DEF Sending
<1> QED BY <1>3, <1>4

LEMMA ClosePollKept ==
  ASSUME RoomInv, NEW p \in Processes, ClosePoll(p)
  PROVE  RoomInv'
<1>1. /\ Untold
      /\ UNCHANGED <<job, req, participant, clock, blob, framed, heard, may, died>>
  BY UntoldHere DEF ClosePoll, spyVars
<1>2. PICK k \in Messages :
        message[k] # NoRow /\ message' = [message EXCEPT ![k].poll = "closed"]
  BY DEF ClosePoll
<1> DEFINE new == [message[k] EXCEPT !.poll = "closed"]
<1>3. message[k] \in MessageRow /\ Rows /\ message' = [message EXCEPT ![k] = new]
  BY <1>2 DEF RoomInv, CoreInv, Rows
<1>4. new \in MessageRow /\ new.sender = message[k].sender /\ new.files = message[k].files
  BY <1>3, MessageWritten
<1> HIDE DEF new
<1>5. MessagesKept /\ ParticipantsKept
  BY <1>1, <1>2, <1>3, <1>4, OneWritten, Unwritten
<1>6. ToldInv' /\ CoreInv' /\ BlobInv'
  BY <1>1, <1>5, RoomWritten
<1>7. MayInv'
  BY <1>1, <1>5, MayStays DEF RoomInv
<1> QED BY <1>6, <1>7 DEF RoomInv

LEMMA SettledKeeps ==
  ASSUME Settled
  PROVE  Untold /\ UNCHANGED <<message, clock, blob, framed, heard, died>>
BY UntoldHere DEF Settled

LEMMA SetPreferencesKept ==
  ASSUME RoomInv, NEW p \in Processes, SetPreferences(p)
  PROVE  RoomInv'
<1>1. Untold /\ UNCHANGED <<job, req, message, clock, blob, framed, heard, died>> /\ Watched
  BY SettledKeeps DEF SetPreferences
<1>2. PICK u \in Users : Live(u) /\ participant' = [participant EXCEPT ![u].muted = ~@]
  BY DEF SetPreferences, Own
<1>3. participant[u] # NoRow /\ participant[u] \in ParticipantRow /\ Rows
  BY <1>2 DEF RoomInv, CoreInv, Rows, Live
<1>4. PICK b \in BOOLEAN : b = ~participant[u].muted
  OBVIOUS
<1> DEFINE new == [participant[u] EXCEPT !.muted = b]
<1>5. participant' = [participant EXCEPT ![u] = new]
  BY <1>2, <1>4
<1>6. new \in ParticipantRow
  BY <1>3, ParticipantWritten
<1> HIDE DEF new
<1>7. MessagesKept /\ ParticipantsKept
  BY <1>1, <1>3, <1>5, <1>6, OneParticipant, Unwritten
<1>8. ToldInv' /\ CoreInv' /\ BlobInv'
  BY <1>1, <1>7, RoomWritten
<1>9. MayInv'
  BY <1>1, MayWatched DEF RoomInv
<1> QED BY <1>8, <1>9 DEF RoomInv

LEMMA ArchiveKept ==
  ASSUME RoomInv, NEW p \in Processes, Archive(p)
  PROVE  RoomInv'
<1>1. Untold /\ UNCHANGED <<job, req, message, clock, blob, framed, heard, may, died>>
  BY SettledKeeps DEF Archive
<1>2. PICK u \in Users : Live(u) /\ participant' = [participant EXCEPT ![u].archived = ~@]
  BY DEF Archive, Own
<1>3. participant[u] # NoRow /\ participant[u] \in ParticipantRow /\ Rows
  BY <1>2 DEF RoomInv, CoreInv, Rows, Live
<1>4. PICK b \in BOOLEAN : b = ~participant[u].archived
  OBVIOUS
<1> DEFINE new == [participant[u] EXCEPT !.archived = b]
<1>5. participant' = [participant EXCEPT ![u] = new]
  BY <1>2, <1>4
<1>6. /\ new \in ParticipantRow
      /\ new.live = participant[u].live /\ new.muted = participant[u].muted
  BY <1>3, ParticipantWritten
<1> HIDE DEF new
<1>7. /\ MessagesKept /\ ParticipantsKept
      /\ \A v \in Users : participant'[v] = IF v = u THEN new ELSE participant[v]
  BY <1>1, <1>3, <1>5, <1>6, OneParticipant, Unwritten
<1>8. ToldInv' /\ CoreInv' /\ BlobInv'
  BY <1>1, <1>7, RoomWritten
<1>9. \A v \in Users : Hears(v)' => Hears(v)
  BY <1>3, <1>6, <1>7 DEF Hears, Live
<1>10. MayInv'
  BY <1>1, <1>7, <1>9, MayAlike DEF RoomInv
<1> QED BY <1>8, <1>10 DEF RoomInv

LEMMA OpenDirectKept ==
  ASSUME RoomInv, NEW p \in Processes, OpenDirect(p)
  PROVE  RoomInv'
<1>1. Untold /\ UNCHANGED <<job, req, message, clock, blob, framed, heard, died>> /\ Watched
  BY SettledKeeps DEF OpenDirect
<1>2. PICK us : participant' = [w \in Users |-> IF w \in us /\ participant[w] = NoRow
                                                  THEN Manual ELSE participant[w]]
  BY DEF OpenDirect
<1>3. Rows
  BY DEF RoomInv, CoreInv
<1>4. Manual \in ParticipantRow /\ Manual # NoRow
  BY NewParticipant, NoRowAssumption
<1>5. ParticipantsKept
  BY <1>2, <1>3, <1>4 DEF ParticipantsKept, Rows
<1>6. MessagesKept
  BY <1>1, <1>3, Unwritten
<1>7. ToldInv' /\ CoreInv' /\ BlobInv'
  BY <1>1, <1>5, <1>6, RoomWritten
<1>8. MayInv'
  BY <1>1, MayWatched DEF RoomInv
<1> QED BY <1>7, <1>8 DEF RoomInv

LEMMA SaveReadKept ==
  ASSUME RoomInv, NEW p \in Processes, SaveRead(p)
  PROVE  RoomInv'
<1>1. job[p].at = "request" /\ req[p].op = "read"
  BY AtRequest DEF SaveRead
<1>2. Reply(p) /\ Untold /\ UNCHANGED <<message, clock, blob, framed, heard, may, died>>
  BY SettledKeeps DEF SaveRead
<1>3. PICK u : u = req[p].user
  OBVIOUS
<1>4. u \in Users /\ participant[u] # NoRow /\ req[p].stamp \in Nat
  BY <1>1, <1>3 DEF RoomInv, CoreInv, Requests, Relies
<1>5. participant[u] \in ParticipantRow /\ Rows
  BY <1>4 DEF RoomInv, CoreInv, Rows
<1>6. PICK n \in Nat :
        n = IF req[p].stamp > req[p].stored THEN req[p].stamp ELSE participant[u].read
  BY <1>4, <1>5 DEF ParticipantRow
<1> DEFINE new == [participant[u] EXCEPT !.read = n]
<1>7. participant' = [participant EXCEPT ![u] = new]
  BY <1>3, <1>6 DEF SaveRead
<1>8. /\ new \in ParticipantRow
      /\ new.live = participant[u].live /\ new.muted = participant[u].muted
  BY <1>5, ParticipantWritten
<1> HIDE DEF new
<1>9. /\ MessagesKept /\ ParticipantsKept
      /\ \A v \in Users : participant'[v] = IF v = u THEN new ELSE participant[v]
  BY <1>2, <1>4, <1>5, <1>7, <1>8, OneParticipant, Unwritten
<1>10. ToldInv' /\ CoreInv' /\ BlobInv'
  BY <1>1, <1>2, <1>9, Replied DEF Sending
<1>11. \A v \in Users : Hears(v)' => Hears(v)
  BY <1>4, <1>8, <1>9 DEF Hears, Live
<1>12. MayInv'
  BY <1>2, <1>9, <1>11, MayAlike DEF RoomInv
<1> QED BY <1>10, <1>12 DEF RoomInv

LEMMA ApplyMembersKept ==
  ASSUME RoomInv, NEW p \in Processes, ApplyMembers(p)
  PROVE  RoomInv'
<1>1. job[p].at = "request" /\ req[p].op = "members"
  BY AtRequest DEF ApplyMembers
<1>2. /\ Reply(p) /\ Untold /\ UNCHANGED <<message, clock, blob, framed, heard, died>>
      /\ Watched
  BY SettledKeeps DEF ApplyMembers
<1>3. PICK r : r = req[p]
  OBVIOUS
<1>4. participant' = [u \in Users |-> Reconciled(u, r)]
  BY <1>3 DEF ApplyMembers
<1>5. Rows
  BY DEF RoomInv, CoreInv
<1>6. ASSUME NEW u \in Users
      PROVE  /\ Reconciled(u, r) \in ParticipantRow \cup {NoRow}
             /\ participant[u] # NoRow => Reconciled(u, r) # NoRow
  <2>1. CASE participant[u] = NoRow
    BY <2>1, NewParticipant DEF Reconciled
  <2>2. CASE participant[u] # NoRow
    <3>1. participant[u] \in ParticipantRow
      BY <1>5, <2>2 DEF Rows
    <3>2. PICK b \in BOOLEAN : b = (u \in r.set \/ (participant[u].live /\ ~r.flag))
      OBVIOUS
    <3>3. [participant[u] EXCEPT !.live = b] \in ParticipantRow
      BY <3>1, ParticipantWritten
    <3>4. Reconciled(u, r) \in {participant[u], [participant[u] EXCEPT !.live = b]}
      BY <2>2, <3>2 DEF Reconciled
    <3> QED BY <3>1, <3>3, <3>4, NoRowAssumption
  <2> QED BY <2>1, <2>2
<1>7. ParticipantsKept
  BY <1>4, <1>6 DEF ParticipantsKept
<1>8. MessagesKept
  BY <1>2, <1>5, Unwritten
<1>9. ToldInv' /\ CoreInv' /\ BlobInv'
  BY <1>1, <1>2, <1>7, <1>8, Replied DEF Sending
<1>10. MayInv'
  BY <1>2, MayWatched DEF RoomInv
<1> QED BY <1>9, <1>10 DEF RoomInv

LEMMA TouchKept ==
  ASSUME RoomInv, NEW p \in Processes, Touch(p)
  PROVE  RoomInv'
<1>1. req[p].op = "touch"
  BY AtRequest DEF Touch
<1>2. PICK op : /\ op = IF req[p].files > 0 THEN "file" ELSE "commit"
                /\ op \in {"file", "commit"}
  OBVIOUS
<1>3. Stays /\ RoomAsItWas /\ req' = [req EXCEPT ![p].op = op]
  BY <1>2 DEF Touch, Step, Stays
<1> DEFINE old == req[p]
           r == [old EXCEPT !.op = op]
<1>4. Takes(p, r) /\ IsReq(old) /\ Relies(old) /\ Alone(p, old) /\ old.op = "touch"
  BY <1>1, <1>3 DEF Takes, RoomInv, CoreInv, Requests, ReqsTyped, Alone
<1>5. Brings(old, p) = Brings(req[p], p)
  OBVIOUS
<1>6. op = IF old.files > 0 THEN "file" ELSE "commit"
  BY <1>2
<1> HIDE DEF old
<1>7. /\ IsReq(r) /\ r.op = op
      /\ r.user = old.user /\ r.key = old.key /\ r.stamp = old.stamp /\ r.files = old.files
      /\ r.stored = old.stored /\ r.flag = old.flag
  BY <1>4, ReqOp
<1> HIDE DEF r
<1>8. Relies(r)
  BY <1>2, <1>4, <1>6, <1>7 DEF Relies, Sending
<1>9. Alone(p, r)
  BY <1>2, <1>4, <1>7 DEF Alone, Apart, InFlight, Sending
<1>10. Brings(r, p) = Brings(req[p], p)
  BY <1>2, <1>4, <1>5, <1>7 DEF Brings, Sending
<1>11. Serves(p, r)
  BY <1>1, <1>3 DEF Serves
<1>12. RoomStays /\ clock' \in Nat
  BY <1>3, Untouched DEF RoomInv, CoreInv, Rows
<1> QED BY <1>4, <1>7, <1>8, <1>9, <1>10, <1>11, <1>12, RequestOnly

LEMMA InsertKept ==
  ASSUME RoomInv, NEW p \in Processes, Insert(p)
  PROVE  RoomInv'
<1>1. /\ job[p].at = "request" /\ req[p].op = "insert" /\ Untold
      /\ UNCHANGED <<participant, blob, framed, heard, may, died>>
  BY AtRequest, UntoldHere DEF Insert, spyVars
<1>2. PICK k : k = req[p].key
  OBVIOUS
<1>3. k \in Messages /\ Rows
  BY <1>1, <1>2 DEF RoomInv, CoreInv, Requests, Relies
<1>4. CASE message[k] # NoRow /\ Repeated(p)
  <2>1. message[k] \in MessageRow /\ Reply(p) /\ UNCHANGED clock
    BY <1>3, <1>4 DEF Rows, Repeated
  <2>2. PICK s \in {"none", "open", "closed"} :
          s = IF req[p].flag /\ message[k].poll = "none" THEN "open" ELSE message[k].poll
    BY <2>1 DEF MessageRow
  <2> DEFINE new == [message[k] EXCEPT !.poll = s]
  <2>3. message' = [message EXCEPT ![k] = new]
    BY <1>2, <1>4, <2>2 DEF Repeated
  <2>4. new \in MessageRow /\ new.sender = message[k].sender /\ new.files = message[k].files
    BY <2>1, MessageWritten
  <2> HIDE DEF new
  <2>5. MessagesKept
    BY <1>3, <1>4, <2>3, <2>4, OneWritten
  <2> QED BY <1>1, <2>1, <2>5, Rewritten DEF Sending
<1>5. CASE ~(message[k] # NoRow /\ Repeated(p))
  <2>1. /\ message[k] = NoRow /\ clock' = clock + 1 /\ UNCHANGED <<job, message>>
        /\ req' = [req EXCEPT ![p].op = "touch", ![p].stamp = clock + 1]
    BY <1>2, <1>5 DEF Insert
  <2>2. PICK n : n = clock + 1
    OBVIOUS
  <2>3. n \in Nat \ {0} /\ clock' \in Nat
    BY <1>3, <2>1, <2>2 DEF Rows
  <2> DEFINE old == req[p]
             one == [old EXCEPT !.op = "touch"]
             r == [one EXCEPT !.stamp = n]
  <2>4. Takes(p, r) /\ IsReq(old) /\ Relies(old) /\ old.op = "insert" /\ old.key = k
    BY <1>1, <1>2, <2>1, <2>2 DEF Takes, RoomInv, CoreInv, Requests, ReqsTyped
  <2> HIDE DEF old
  <2>5. /\ IsReq(one) /\ one.op = "touch" /\ one.user = old.user /\ one.key = old.key
        /\ one.files = old.files /\ one.stored = old.stored
    BY <2>4, ReqOp
  <2> HIDE DEF one
  <2>6. /\ IsReq(r) /\ r.stamp = n /\ r.op = one.op /\ r.user = one.user /\ r.key = one.key
        /\ r.files = one.files /\ r.stored = one.stored
    BY <2>5, ReqStamp
  <2> HIDE DEF r
  <2>7. Relies(r) /\ r.stored = 0
    BY <2>1, <2>3, <2>4, <2>5, <2>6 DEF Relies, Sending
  <2>8. Alone(p, r)
    <3>1. ~Inserted(k)
      BY <1>2 DEF Insert
    <3>2. ASSUME NEW q \in Processes, req[q].op \in InFlight, req[q].key = k PROVE FALSE
      <4>1. CASE req[q].op \in Sending
        BY <3>1, <3>2, <4>1 DEF Inserted
      <4>2. CASE req[q].op = "publish"
        BY <2>1, <3>2, <4>2 DEF RoomInv, CoreInv, Requests, Relies
      <4> QED BY <3>2, <4>1, <4>2 DEF InFlight
    <3> QED BY <2>4, <2>5, <2>6, <3>2 DEF Alone, Apart
  <2>9. Brings(r, p) = {}
    BY <2>7 DEF Brings, Pieces
  <2>10. Brings(r, p) = Brings(req[p], p)
    BY <1>1, <2>9 DEF Brings, Sending
  <2>11. Serves(p, r)
    BY <1>1, <2>1 DEF Serves, Stays
  <2>12. RoomStays
    BY <1>1, <2>1 DEF RoomStays
  <2> QED BY <2>3, <2>4, <2>6, <2>7, <2>8, <2>10, <2>11, <2>12, RequestOnly
<1> QED BY <1>4, <1>5

\* What the storage holds when a request stores or loses something of its own.
LEMMA BlobsChange ==
  ASSUME CoreInv, BlobInv, NEW p \in Processes, NEW r, IsReq(r), Takes(p, r), MessagesKept,
         Brings(r, p) \subseteq blob',
         \A k \in Messages : Files(k) \subseteq blob',
         \A q \in Processes : q # p => Brings(req[q], q) \subseteq blob',
         blob' \subseteq blob \cup Brings(r, p),
         blob' \cap Brings(req[p], p) \subseteq Brings(r, p) \cup died',
         died \subseteq died'
  PROVE  BlobInv'
<1>1. \A q \in Processes : req'[q] = IF q = p THEN r ELSE req[q]
  BY ReqSame DEF CoreInv, Requests
<1>2. \A k \in Messages : Files(k)' = Files(k)
  BY DEF Files, MessagesKept
<1>3. \A q \in Processes : Brings(req'[q], q) \subseteq blob'
  BY <1>1
<1>4. \A f \in blob' : \/ \E k \in Messages : f \in Files(k)
                       \/ \E q \in Processes : f \in Brings(req'[q], q)
                       \/ f \in died'
  <2> TAKE f \in blob'
  <2>1. CASE f \in Brings(r, p)
    BY <1>1, <2>1
  <2>2. CASE f \notin Brings(r, p)
    <3>1. f \in blob /\ (f \in Brings(req[p], p) => f \in died')
      BY <2>2
    <3>2. \/ \E k \in Messages : f \in Files(k)
          \/ \E q \in Processes : f \in Brings(req[q], q)
          \/ f \in died
      BY <3>1 DEF BlobInv
    <3> QED BY <1>1, <3>1, <3>2
  <2> QED BY <2>1, <2>2
<1>5. \A k \in Messages : (\A f \in Files(k) : f[1] = k) /\ Files(k) \subseteq blob'
  BY DEF BlobInv
<1> QED BY <1>2, <1>3, <1>4, <1>5 DEF BlobInv, Brings, Files

\* Pieces are told apart by their message and their process.
LEMMA PiecesApart ==
  /\ \A k, p, n, f : f \in Pieces(k, p, n) => f[1] = k /\ f[2] = p
  /\ \A k, p, n, f : f \in Pieces(k, p, n) <=> \E i \in 1 .. n : f = <<k, p, i>>
BY DEF Pieces

LEMMA StoreFileKept ==
  ASSUME RoomInv, NEW p \in Processes, StoreFile(p)
  PROVE  RoomInv'
<1>1. /\ req[p].op = "file" /\ Untold /\ Stays
      /\ UNCHANGED <<participant, message, clock, framed, heard, may, died>>
  BY AtRequest, UntoldHere DEF StoreFile, spyVars, Stays
<1>2. PICK k, m : k = req[p].key /\ m = req[p].stored + 1
  OBVIOUS
<1>3. PICK op : /\ op = IF m = req[p].files THEN "commit" ELSE "file"
                /\ op \in {"commit", "file"}
  OBVIOUS
<1>4. /\ blob' = blob \cup {<<k, p, m>>}
      /\ req' = [req EXCEPT ![p].stored = m, ![p].op = op]
  BY <1>2, <1>3 DEF StoreFile
<1>5. ToldInv /\ CoreInv /\ BlobInv /\ MayInv
  BY DEF RoomInv
<1> DEFINE old == req[p]
           one == [old EXCEPT !.stored = m]
           r == [one EXCEPT !.op = op]
<1>6. /\ Takes(p, r) /\ IsReq(old) /\ Relies(old) /\ Alone(p, old) /\ old.op = "file"
      /\ old.key = k /\ m = old.stored + 1 /\ (op = IF m = old.files THEN "commit" ELSE "file")
  BY <1>1, <1>2, <1>3, <1>4, <1>5 DEF Takes, CoreInv, Requests, ReqsTyped, Alone
<1>7. Brings(old, p) = Brings(req[p], p)
  OBVIOUS
<1> HIDE DEF old
<1>8. /\ IsReq(one) /\ one.stored = m /\ one.user = old.user /\ one.key = old.key
      /\ one.files = old.files /\ one.stamp = old.stamp
  BY <1>6, ReqStored
<1> HIDE DEF one
<1>9. /\ IsReq(r) /\ r.op = op /\ r.stored = one.stored /\ r.user = one.user
      /\ r.key = one.key /\ r.files = one.files /\ r.stamp = one.stamp
  BY <1>8, ReqOp
<1> HIDE DEF r
<1>10. /\ old.stored \in Nat /\ m \in Nat /\ old.files \in 0 .. MaxFiles /\ m \in 1 .. old.files
  BY <1>6, MessagingAssumption DEF Relies, Sending
<1>11. Relies(r)
  <2>1. r.stored \in 0 .. r.files /\ (r.op = "file" => r.stored < r.files)
    BY <1>6, <1>8, <1>9, <1>10, MessagingAssumption
  <2> QED BY <1>3, <1>6, <1>8, <1>9, <1>10, <2>1 DEF Relies, Sending
<1>12. Alone(p, r)
  BY <1>3, <1>6, <1>8, <1>9 DEF Alone, Apart, InFlight, Sending
<1>13. MessagesKept /\ ParticipantsKept
  BY <1>1, <1>5, Unwritten DEF CoreInv
<1>14. CoreInv' /\ ToldInv'
  <2>1. Serves(p, r)
    BY <1>1 DEF Serves
  <2>2. clock' \in Nat /\ UNCHANGED framed /\ Untold
    BY <1>1, <1>5 DEF CoreInv, Rows
  <2>3. Takes(p, r) /\ IsReq(r)
    BY <1>6, <1>9
  <2> QED BY <1>5, <1>11, <1>12, <1>13, <2>1, <2>2, <2>3, RequestMoves
<1>15. BlobInv'
  <2>1. Brings(r, p) = Pieces(k, p, m) /\ Brings(old, p) = Pieces(k, p, old.stored)
    BY <1>3, <1>6, <1>8, <1>9 DEF Brings, Sending
  <2>2. 1 .. m = (1 .. old.stored) \cup {m}
    BY <1>6, <1>10
  <2>3. Pieces(k, p, m) = Pieces(k, p, old.stored) \cup {<<k, p, m>>}
    BY <2>2 DEF Pieces
  <2>4. Brings(r, p) = Brings(req[p], p) \cup {<<k, p, m>>}
    BY <1>7, <2>1, <2>3
  <2>5. /\ Brings(req[p], p) \subseteq blob /\ \A j \in Messages : Files(j) \subseteq blob
        /\ \A q \in Processes : Brings(req[q], q) \subseteq blob
    BY <1>5 DEF BlobInv
  <2>6. /\ Brings(r, p) \subseteq blob' /\ \A j \in Messages : Files(j) \subseteq blob'
        /\ \A q \in Processes : q # p => Brings(req[q], q) \subseteq blob'
        /\ blob' \subseteq blob \cup Brings(r, p)
        /\ blob' \cap Brings(req[p], p) \subseteq Brings(r, p) \cup died'
        /\ died \subseteq died'
    BY <1>1, <1>4, <2>4, <2>5
  <2> QED BY <1>5, <1>6, <1>9, <1>13, <2>6, BlobsChange
<1>16. MayInv'
  BY <1>1, <1>5, <1>13, MayStays
<1> QED BY <1>14, <1>15, <1>16 DEF RoomInv

LEMMA RejectFileKept ==
  ASSUME RoomInv, NEW p \in Processes, RejectFile(p)
  PROVE  RoomInv'
<1>1. /\ job[p].at = "request" /\ req[p].op = "file" /\ Untold /\ Reply(p)
      /\ UNCHANGED <<participant, message, clock, framed, heard, may, died>>
  BY AtRequest, UntoldHere DEF RejectFile, spyVars
<1>2. PICK k, n, r : k = req[p].key /\ n = req[p].stored /\ r = NoRequest
  OBVIOUS
<1>3. blob' = blob \ Pieces(k, p, n + 1)
  BY <1>2 DEF RejectFile, Blobs, Pieces
<1>4. CoreInv /\ BlobInv /\ MayInv
  BY DEF RoomInv
<1>5. MessagesKept /\ ParticipantsKept
  BY <1>1, <1>4, Unwritten DEF CoreInv
<1>6. ToldInv' /\ CoreInv'
  BY <1>1, <1>5, Replied
<1>7. BlobInv'
  <2>1. IsReq(r) /\ Takes(p, r) /\ Brings(r, p) = {}
    <3>1. IsReq(r) /\ r.op = "none"
      BY <1>2, NothingAsked
    <3> QED BY <1>1, <1>2, <3>1 DEF Reply, Takes, Brings, Sending
  <2>2. /\ Brings(req[p], p) = Pieces(k, p, n) /\ message[k] = NoRow
        /\ n \in Nat
    BY <1>1, <1>2, <1>4, MessagingAssumption
    DEF Brings, Sending, CoreInv, Requests, Relies
  <2>3. ASSUME NEW j \in Messages PROVE Files(j) \subseteq blob'
    <3>1. CASE j = k
      BY <2>2, <3>1 DEF Files
    <3>2. CASE j # k
      BY <1>3, <1>4, <3>2, PiecesApart DEF BlobInv
    <3> QED BY <3>1, <3>2
  <2>4. ASSUME NEW q \in Processes, q # p PROVE Brings(req[q], q) \subseteq blob'
    <3>1. \A f \in Brings(req[q], q) : f[2] = q
      BY PiecesApart DEF Brings
    <3> QED BY <1>3, <1>4, <2>4, <3>1, PiecesApart DEF BlobInv
  <2>5. blob' \cap Brings(req[p], p) = {}
    <3>1. \A i \in 1 .. n : i \in 1 .. (n + 1)
      BY <2>2
    <3>2. Pieces(k, p, n) \subseteq Pieces(k, p, n + 1)
      BY <3>1 DEF Pieces
    <3> QED BY <1>3, <2>2, <3>2
  <2>6. /\ Brings(r, p) \subseteq blob' /\ blob' \subseteq blob \cup Brings(r, p)
        /\ blob' \cap Brings(req[p], p) \subseteq Brings(r, p) \cup died'
        /\ died \subseteq died'
    BY <1>1, <1>3, <2>1, <2>5
  <2> QED BY <1>4, <1>5, <2>1, <2>3, <2>4, <2>6, BlobsChange
<1>8. MayInv'
  BY <1>1, <1>4, <1>5, MayStays
<1> QED BY <1>6, <1>7, <1>8 DEF RoomInv

LEMMA RequestDiesKept ==
  ASSUME RoomInv, NEW p \in Processes, RequestDies(p)
  PROVE  RoomInv'
<1>1. /\ job[p].at = "request" /\ Untold /\ Reply(p)
      /\ UNCHANGED <<participant, message, clock, blob, framed, heard, may>>
  BY UntoldHere DEF RequestDies, On
<1>2. died' = died \cup Brings(req[p], p)
  BY DEF RequestDies, Brings, Blobs, Pieces
<1>3. PICK r : r = NoRequest
  OBVIOUS
<1>4. CoreInv /\ BlobInv /\ MayInv
  BY DEF RoomInv
<1>5. MessagesKept /\ ParticipantsKept
  BY <1>1, <1>4, Unwritten DEF CoreInv
<1>6. ToldInv' /\ CoreInv'
  BY <1>1, <1>5, Replied
<1>7. BlobInv'
  <2>1. IsReq(r) /\ Takes(p, r) /\ Brings(r, p) = {}
    <3>1. IsReq(r) /\ r.op = "none"
      BY <1>3, NothingAsked
    <3> QED BY <1>1, <1>3, <3>1 DEF Reply, Takes, Brings, Sending
  <2>2. /\ \A j \in Messages : Files(j) \subseteq blob
        /\ \A q \in Processes : Brings(req[q], q) \subseteq blob
    BY <1>4 DEF BlobInv
  <2>3. /\ Brings(r, p) \subseteq blob' /\ \A j \in Messages : Files(j) \subseteq blob'
        /\ \A q \in Processes : q # p => Brings(req[q], q) \subseteq blob'
        /\ blob' \subseteq blob \cup Brings(r, p)
        /\ blob' \cap Brings(req[p], p) \subseteq Brings(r, p) \cup died'
        /\ died \subseteq died'
    BY <1>1, <1>2, <2>1, <2>2
  <2> QED BY <1>4, <1>5, <2>1, <2>3, BlobsChange
<1>8. MayInv'
  BY <1>1, <1>4, <1>5, MayStays
<1> QED BY <1>6, <1>7, <1>8 DEF RoomInv

\* Whoever is resolved at a callback could be told of the message.
LEMMA HeardMore ==
  ASSUME CoreInv, MayInv, NEW k \in Messages, message[k] # NoRow,
         NEW us, us \subseteq Reachable(message[k].sender),
         heard' = [heard EXCEPT ![k] = @ \cup us], UNCHANGED <<message, participant, may>>
  PROVE  MayInv'
<1>1. \A j \in Messages : heard'[j] = IF j = k THEN heard[k] \cup us ELSE heard[j]
  BY DEF MayInv
<1>2. \A s : Reachable(s)' = Reachable(s)
  BY DEF Reachable, Live
<1>3. heard' = [j \in Messages |-> heard'[j]] /\ may' = [j \in Messages |-> may'[j]]
  BY <1>1 DEF MayInv
<1>4. ASSUME NEW j \in Messages, message[j] # NoRow
      PROVE  heard'[j] \subseteq may'[j] /\ Reachable(message[j].sender) \subseteq may'[j]
  BY <1>1, <1>4 DEF MayInv
<1>5. ASSUME NEW j \in Messages, message[j] = NoRow
      PROVE  heard'[j] = {}
  BY <1>1, <1>5 DEF MayInv
<1> QED BY <1>2, <1>3, <1>4, <1>5 DEF MayInv, Reachable

LEMMA PublishKept ==
  ASSUME RoomInv, NEW p \in Processes, Publish(p)
  PROVE  RoomInv'
<1>1. /\ req[p].op = "publish" /\ Untold /\ Stays
      /\ UNCHANGED <<participant, message, clock, blob, may, died>>
  BY AtRequest, UntoldHere DEF Publish, Step, Stays
<1>2. PICK k, u : k = req[p].key /\ u = req[p].user
  OBVIOUS
<1>3. PICK us : us = ResolveRecipients(u)
  OBVIOUS
<1>4. /\ framed' = [framed EXCEPT ![k] = @ + 1]
      /\ heard' = [heard EXCEPT ![k] = @ \cup us]
      /\ req' = [req EXCEPT ![p].op = "notify"]
  BY <1>2, <1>3 DEF Publish, Step
<1>5. ToldInv /\ CoreInv /\ BlobInv /\ MayInv
  BY DEF RoomInv
<1>6. k \in Messages /\ message[k] # NoRow /\ message[k].sender = u /\ framed[k] = 0
  BY <1>1, <1>2, <1>5 DEF CoreInv, Requests, Relies
<1>7. PICK old : old = req[p]
  OBVIOUS
<1>8. PICK r : r = [old EXCEPT !.op = "notify"]
  OBVIOUS
<1>9. Takes(p, r) /\ IsReq(old) /\ old.op = "publish" /\ old.key = k /\ old.user = u
  BY <1>1, <1>2, <1>4, <1>5, <1>7, <1>8 DEF Takes, CoreInv, Requests, ReqsTyped
<1>10. IsReq(r) /\ r.op = "notify" /\ r.key = k /\ r.user = u
  BY <1>8, <1>9, ReqOp
<1>11. ToldInv' /\ \A q \in Processes : job'[q] = job[q]
  BY <1>1, <1>5, RoomTold DEF Stays
<1>12. ReqsTyped' /\ \A q \in Processes : req'[q] = IF q = p THEN r ELSE req[q]
  BY <1>5, <1>9, <1>10, ReqSame DEF CoreInv, Requests
<1>13. \A j \in Messages : framed'[j] = IF j = k THEN 1 ELSE framed[j]
  BY <1>4, <1>6, <1>5 DEF CoreInv, Frames
<1>14. MessagesKept /\ ParticipantsKept
  BY <1>1, <1>5, Unwritten DEF CoreInv
<1>15. CoreInv'
  <2>1. Rows'
    BY <1>1, <1>5 DEF CoreInv, Rows
  <2>2. Frames'
    <3>1. framed' \in [Messages -> {0, 1}]
      BY <1>4, <1>5, <1>6 DEF CoreInv, Frames
    <3> QED BY <1>1, <1>5, <1>6, <1>13, <3>1 DEF CoreInv, Frames
  <2>3. \A q \in Processes : Relies(req[q])'
    <3> TAKE q \in Processes
    <3>1. CASE q = p
      BY <1>1, <1>6, <1>10, <1>12, <3>1 DEF Relies, Sending
    <3>2. CASE q # p
      <4>1. Relies(req[q]) /\ Apart(req[q], req[p])
        BY <1>5, <3>2 DEF CoreInv, Requests
      <4>2. req[q].op = "publish" => req[q].key # k
        BY <1>1, <1>2, <4>1 DEF Apart, InFlight
      <4>3. req[q].op = "publish" => framed'[req[q].key] = 0
        BY <1>13, <4>1, <4>2 DEF Relies
      <4>4. req'[q] = req[q]
        BY <1>12, <3>2
      <4> QED BY <1>1, <4>1, <4>3, <4>4 DEF Relies
    <3> QED BY <3>1, <3>2
  <2>4. \A q \in Processes : req'[q].op # "none" => job'[q].at = "request"
    BY <1>1, <1>5, <1>11, <1>12 DEF CoreInv, Requests
  <2>5. \A q, s \in Processes : q # s => Apart(req'[q], req'[s])
    BY <1>5, <1>10, <1>12 DEF CoreInv, Requests, Apart, InFlight, Sending
  <2>6. Requests'
    BY <1>12, <2>3, <2>4, <2>5 DEF Requests, Apart
  <2> QED BY <2>1, <2>2, <2>6 DEF CoreInv
<1>16. BlobInv'
  <2>1. Brings(r, p) = Brings(req[p], p)
    BY <1>1, <1>10 DEF Brings, Sending
  <2> QED BY <1>1, <1>5, <1>9, <1>10, <1>14, <2>1, BlobsStay
<1>17. us \subseteq Reachable(message[k].sender)
  BY <1>3, <1>6 DEF ResolveRecipients
<1>18. MayInv'
  BY <1>1, <1>4, <1>5, <1>6, <1>17, HeardMore
<1> QED BY <1>11, <1>15, <1>16, <1>18 DEF RoomInv

LEMMA NotifyMessageKept ==
  ASSUME RoomInv, NEW p \in Processes, NotifyMessage(p)
  PROVE  RoomInv'
<1>1. /\ req[p].op = "notify" /\ Untold
      /\ UNCHANGED <<participant, message, clock, blob, framed, may, died>>
  BY AtRequest, UntoldHere DEF NotifyMessage
<1>2. PICK k, u : k = req[p].key /\ u = req[p].user
  OBVIOUS
<1>3. PICK us, r : us = ResolveRecipients(u) /\ r = NoRequest
  OBVIOUS
<1>4. /\ heard' = [heard EXCEPT ![k] = @ \cup us]
      /\ Notify(p, k, us) /\ Takes(p, r)
  BY <1>2, <1>3 DEF NotifyMessage, Takes
<1>5. ToldInv /\ CoreInv /\ BlobInv /\ MayInv
  BY DEF RoomInv
<1>6. k \in Messages /\ message[k] # NoRow /\ message[k].sender = u
  BY <1>1, <1>2, <1>5 DEF CoreInv, Requests, Relies
<1>7. IsReq(r) /\ r.op = "none"
  BY <1>3, NothingAsked
<1>8. ToldInv' /\ \A q \in Processes : q # p => job'[q] = job[q]
  BY <1>1, <1>4, <1>5, ToldNotifies DEF Untold
<1>9. MessagesKept /\ ParticipantsKept
  BY <1>1, <1>5, Unwritten DEF CoreInv
<1>10. Plain(r)
  BY <1>7 DEF Plain, Sending
<1>11. Alone(p, r) /\ Brings(r, p) = {}
  BY <1>10, PlainRelies
<1>12. Relies(r)'
  BY <1>10, PlainPrime
<1>13. CoreInv'
  <2>1. clock' \in Nat /\ UNCHANGED framed
    BY <1>1, <1>5 DEF CoreInv, Rows
  <2>2. r.op # "none" => job'[p].at = "request"
    BY <1>7
  <2> QED BY <1>4, <1>5, <1>7, <1>8, <1>9, <1>11, <1>12, <2>1, <2>2, RequestsGoOn
<1>14. BlobInv'
  <2>1. Brings(r, p) = Brings(req[p], p)
    BY <1>1, <1>11 DEF Brings, Sending
  <2> QED BY <1>1, <1>4, <1>5, <1>7, <1>9, <2>1, BlobsStay
<1>15. us \subseteq Reachable(message[k].sender)
  BY <1>3, <1>6 DEF ResolveRecipients
<1>16. MayInv'
  BY <1>1, <1>4, <1>5, <1>6, <1>15, HeardMore
<1> QED BY <1>8, <1>13, <1>14, <1>16 DEF RoomInv

LEMMA CommitKept ==
  ASSUME RoomInv, NEW p \in Processes, Commit(p)
  PROVE  RoomInv'
<1>1. /\ req[p].op = "commit" /\ Untold /\ Stays
      /\ UNCHANGED <<clock, blob, framed, heard, died>>
  BY AtRequest, UntoldHere DEF Commit, Step, Stays
<1>2. PICK old : old = req[p]
  OBVIOUS
<1>3. PICK k, u, files : k = old.key /\ u = old.user /\ files = Pieces(k, p, old.stored)
  OBVIOUS
<1>4. PICK poll \in {"none", "open", "closed"} : poll = IF old.flag THEN "open" ELSE "none"
  OBVIOUS
<1>5. PICK new : new = [sender |-> u, at |-> old.stamp, text |-> TRUE, deleted |-> FALSE,
                        poll |-> poll, files |-> files]
  OBVIOUS
<1>6. message' = [message EXCEPT ![k] = new]
  BY <1>2, <1>3, <1>4, <1>5 DEF Commit, Blobs, Pieces
<1>7. /\ participant' = [v \in Users |-> IF Live(v) /\ v # u
                                           THEN [participant[v] EXCEPT !.archived = FALSE]
                                           ELSE participant[v]]
      /\ may' = [may EXCEPT ![k] = Reachable(u)]
      /\ req' = [req EXCEPT ![p].op = "publish"]
  BY <1>2, <1>3 DEF Commit, Step
<1>8. ToldInv /\ CoreInv /\ BlobInv /\ MayInv
  BY DEF RoomInv
<1>9. IsReq(old) /\ Relies(old) /\ old.op = "commit"
  BY <1>1, <1>2, <1>8 DEF CoreInv, Requests, ReqsTyped
<1>10. /\ k \in Messages /\ u \in Users /\ old.stamp \in Nat \ {0} /\ message[k] = NoRow
       /\ old.files \in 0 .. MaxFiles /\ old.stored \in 0 .. old.files
  BY <1>3, <1>9 DEF Relies, Sending
<1>11. files \in SUBSET (Messages \X Processes \X (1 .. MaxFiles))
  <2>1. \A i \in 1 .. old.stored : i \in 1 .. MaxFiles
    BY <1>10, MessagingAssumption
  <2> QED BY <1>3, <1>10, <2>1 DEF Pieces
<1>12. new \in MessageRow /\ new.sender = u /\ new.files = files
  BY <1>4, <1>5, <1>10, <1>11 DEF MessageRow
<1>13. new # NoRow
  BY <1>12, NoRowAssumption
<1>14. /\ message' \in [Messages -> MessageRow \cup {NoRow}]
       /\ \A j \in Messages : message'[j] = IF j = k THEN new ELSE message[j]
  BY <1>6, <1>8, <1>10, <1>12 DEF CoreInv, Rows
<1>15. ASSUME NEW v \in Users
       PROVE  /\ participant'[v] \in ParticipantRow \cup {NoRow}
              /\ participant[v] # NoRow => participant'[v] # NoRow
              /\ Hears(v)' => Hears(v)
  <2>1. CASE Live(v) /\ v # u
    <3>1. participant[v] \in ParticipantRow /\ participant[v] # NoRow
      BY <1>8, <2>1 DEF CoreInv, Rows, Live
    <3>2. PICK row : row = [participant[v] EXCEPT !.archived = FALSE]
      OBVIOUS
    <3>3. /\ row \in ParticipantRow
          /\ row.live = participant[v].live /\ row.muted = participant[v].muted
      BY <3>1, <3>2, ParticipantWritten
    <3>4. participant'[v] = row
      BY <1>7, <2>1, <3>2
    <3> QED BY <3>1, <3>3, <3>4, NoRowAssumption DEF Hears, Live
  <2>2. CASE ~(Live(v) /\ v # u)
    <3>1. participant'[v] = participant[v]
      BY <1>7, <2>2
    <3> QED BY <1>8, <3>1 DEF CoreInv, Rows, Hears, Live
  <2> QED BY <2>1, <2>2
<1>16. ParticipantsKept
  BY <1>7, <1>15 DEF ParticipantsKept
<1>17. PICK r : r = [old EXCEPT !.op = "publish"]
  OBVIOUS
<1>18. IsReq(r) /\ r.op = "publish" /\ r.key = k /\ r.user = u
  BY <1>3, <1>9, <1>17, ReqOp
<1>19. Takes(p, r)
  BY <1>2, <1>7, <1>17 DEF Takes
<1>20. ReqsTyped' /\ \A q \in Processes : req'[q] = IF q = p THEN r ELSE req[q]
  BY <1>8, <1>18, <1>19, ReqSame DEF CoreInv, Requests
<1>21. ToldInv' /\ \A q \in Processes : job'[q] = job[q]
  BY <1>1, <1>8, RoomTold DEF Stays
<1>22. CoreInv'
  <2>1. Rows'
    BY <1>1, <1>8, <1>14, <1>16 DEF CoreInv, Rows, ParticipantsKept
  <2>2. Frames'
    BY <1>1, <1>8, <1>13, <1>14 DEF CoreInv, Frames
  <2>3. \A q \in Processes : Relies(req[q])'
    <3> TAKE q \in Processes
    <3>1. CASE q = p
      <4>1. req'[q] = r /\ message'[k] = new /\ framed'[k] = 0
        BY <1>1, <1>8, <1>10, <1>14, <1>20, <3>1 DEF CoreInv, Frames
      <4> QED BY <1>10, <1>12, <1>13, <1>18, <4>1 DEF Relies, Sending
    <3>2. CASE q # p
      <4>1. PICK s : s = req[q]
        OBVIOUS
      <4>2. Relies(s) /\ Apart(s, old) /\ req'[q] = s
        BY <1>2, <1>8, <1>20, <3>2, <4>1 DEF CoreInv, Requests
      <4>3. s.op \in Sending => s.key # k
        BY <1>3, <1>9, <4>2 DEF Apart, InFlight, Sending
      <4>4. s.op \in Sending => message'[s.key] = NoRow
        BY <1>14, <4>2, <4>3 DEF Relies
      <4>5. s.key \in Messages /\ message[s.key] # NoRow => message'[s.key] = message[s.key]
        BY <1>10, <1>14
      <4>6. s.user \in Users /\ participant[s.user] # NoRow => participant'[s.user] # NoRow
        BY <1>15
      <4> QED BY <1>1, <4>2, <4>4, <4>5, <4>6 DEF Relies
    <3> QED BY <3>1, <3>2
  <2>4. \A q \in Processes : req'[q].op # "none" => job'[q].at = "request"
    BY <1>1, <1>8, <1>20, <1>21 DEF CoreInv, Requests
  <2>5. \A q, s \in Processes : q # s => Apart(req'[q], req'[s])
    BY <1>2, <1>3, <1>8, <1>9, <1>18, <1>20 DEF CoreInv, Requests, Apart, InFlight, Sending
  <2>6. Requests'
    BY <1>20, <2>3, <2>4, <2>5 DEF Requests, Apart
  <2> QED BY <2>1, <2>2, <2>6 DEF CoreInv
<1>23. BlobInv'
  <2>1. Brings(req[p], p) = files /\ Brings(r, p) = {}
    BY <1>2, <1>3, <1>9, <1>18 DEF Brings, Sending
  <2>2. \A j \in Messages : Files(j)' = IF j = k THEN files ELSE Files(j)
    BY <1>12, <1>13, <1>14 DEF Files
  <2>3. /\ files \subseteq blob /\ \A j \in Messages : Files(j) \subseteq blob
        /\ \A q \in Processes : Brings(req[q], q) \subseteq blob
    BY <1>8, <2>1 DEF BlobInv
  <2>4. \A q \in Processes : Brings(req'[q], q) \subseteq blob'
    BY <1>1, <1>20, <2>1, <2>3
  <2>5. \A j \in Messages : Files(j)' \subseteq blob' /\ \A f \in Files(j)' : f[1] = j
    BY <1>1, <1>3, <1>8, <2>2, <2>3, PiecesApart DEF BlobInv
  <2>6. ASSUME NEW f \in blob'
        PROVE  \/ \E j \in Messages : f \in Files(j)'
               \/ \E q \in Processes : f \in Brings(req'[q], q)
               \/ f \in died'
    <3>1. \/ \E j \in Messages : f \in Files(j)
          \/ \E q \in Processes : f \in Brings(req[q], q)
          \/ f \in died'
      BY <1>1, <1>8 DEF BlobInv
    <3>2. \A j \in Messages : f \in Files(j) => f \in Files(j)'
      BY <1>10, <2>2 DEF Files
    <3>3. \A q \in Processes : f \in Brings(req[q], q) => f \in Brings(req'[q], q) \/ f \in Files(k)'
      BY <1>10, <1>20, <2>1, <2>2
    <3> QED BY <1>10, <3>1, <3>2, <3>3
  <2> QED BY <2>4, <2>5, <2>6 DEF BlobInv, Brings, Files
<1>24. MayInv'
  <2>1. \A j \in Messages : may'[j] = IF j = k THEN Reachable(u) ELSE may[j]
    BY <1>7, <1>8 DEF MayInv
  <2>2. \A s : Reachable(s)' \subseteq Reachable(s)
    BY <1>15 DEF Reachable, Hears, Live
  <2>3. heard' = [j \in Messages |-> heard'[j]] /\ may' = [j \in Messages |-> may'[j]]
    BY <1>1, <1>7, <1>8 DEF MayInv
  <2>4. heard[k] = {}
    BY <1>8, <1>10 DEF MayInv
  <2>5. ASSUME NEW j \in Messages, message'[j] # NoRow
        PROVE  heard'[j] \subseteq may'[j] /\ Reachable(message[j].sender)' \subseteq may'[j]
    <3>1. CASE j = k
      <4>1. message'[j].sender = u /\ may'[j] = Reachable(u) /\ heard'[j] = {}
        BY <1>1, <1>12, <1>14, <2>1, <2>4, <3>1
      <4>2. Reachable(u)' \subseteq may'[j] /\ Reachable(message[j].sender)' = Reachable(u)'
        BY <2>2, <4>1 DEF Reachable
      <4> QED BY <4>1, <4>2
    <3>2. CASE j # k
      <4>1. message'[j] = message[j] /\ may'[j] = may[j] /\ heard'[j] = heard[j]
        BY <1>1, <1>14, <2>1, <3>2
      <4>2. heard[j] \subseteq may[j] /\ Reachable(message[j].sender) \subseteq may[j]
        BY <1>8, <2>5, <4>1 DEF MayInv
      <4>3. PICK s : s = message[j].sender
        OBVIOUS
      <4>4. Reachable(s)' \subseteq Reachable(s) /\ Reachable(message[j].sender)' = Reachable(s)'
        BY <2>2, <4>1, <4>3 DEF Reachable
      <4> QED BY <4>1, <4>2, <4>3, <4>4
    <3> QED BY <3>1, <3>2
  <2>6. ASSUME NEW j \in Messages, message'[j] = NoRow
        PROVE  heard'[j] = {}
    BY <1>1, <1>8, <1>13, <1>14, <2>6 DEF MayInv
  <2> QED BY <2>3, <2>5, <2>6 DEF MayInv
<1> QED BY <1>21, <1>22, <1>23, <1>24 DEF RoomInv

-------------------------------------------------------------------------------
(* The invariant and what follows from it.                                   *)

LEMMA RoomStarts ==
  ASSUME Init PROVE RoomInv
<1>1. ToldInv
  BY ToldStarts DEF Init
<1>2. PICK r : r = NoRequest
  OBVIOUS
<1>3. /\ message = [k \in Messages |-> NoRow] /\ clock = 0 /\ blob = {}
      /\ req = [p \in Processes |-> r]
      /\ framed = [k \in Messages |-> 0] /\ heard = [k \in Messages |-> {}]
      /\ may = [k \in Messages |-> {}]
  BY <1>2 DEF Init
<1>4. IsReq(r) /\ Plain(r)
  BY <1>2, NothingAsked DEF Plain, Sending
<1>5. /\ Relies(r) /\ Apart(r, r) /\ r.op = "none"
      /\ \A p \in Processes : Brings(r, p) = {}
  BY <1>2, <1>4, NothingAsked, PlainRelies DEF Apart, InFlight, Sending
<1>6. participant \in [Users -> ParticipantRow \cup {NoRow}]
  <2>1. CASE participant = [u \in Users |-> NoRow]
    BY <2>1
  <2>2. CASE participant = [u \in Users |-> IF kind = "direct" \/ u \in Moderators
                                              THEN Manual ELSE Provided]
    BY <2>2, NewParticipant
  <2> QED BY <2>1, <2>2 DEF Init
<1>7. Rows /\ Frames
  BY <1>3, <1>6 DEF Rows, Frames
<1>8. \A p \in Processes : req[p] = r
  BY <1>3
<1>9. Requests
  BY <1>3, <1>4, <1>5, <1>8 DEF Requests, ReqsTyped
<1>10. BlobInv
  BY <1>3, <1>5, <1>8 DEF BlobInv, Files
<1>11. MayInv
  BY <1>3 DEF MayInv
<1> QED BY <1>1, <1>7, <1>9, <1>10, <1>11 DEF RoomInv, CoreInv

LEMMA ElsewhereKept ==
  ASSUME RoomInv, NotifyNext, Quiet
  PROVE  RoomInv'
<1>1. ToldInv' /\ Serving
  BY NotifyTold DEF RoomInv
<1>2. UNCHANGED <<participant, message, clock, blob, req, framed, heard, may, died>>
  BY DEF Quiet, roomVars, spyVars
<1> QED BY <1>1, <1>2, Unmoved

LEMMA RoomKept ==
  ASSUME RoomInv, [Next]_vars
  PROVE  RoomInv'
<1>1. ASSUME NEW p \in Processes,
             \/ Send(p) \/ Insert(p) \/ Touch(p) \/ StoreFile(p) \/ RejectFile(p) \/ Commit(p)
             \/ Publish(p) \/ NotifyMessage(p)
      PROVE  RoomInv'
  BY <1>1, SendKept, InsertKept, TouchKept, StoreFileKept, RejectFileKept, CommitKept,
     PublishKept, NotifyMessageKept
<1>2. ASSUME NEW p \in Processes,
             \/ Edit(p) \/ SaveEdit(p) \/ Delete(p) \/ SoftDelete(p) \/ BreakGlass(p)
             \/ Vote(p) \/ ClearVotes(p) \/ CastVote(p) \/ ClosePoll(p)
      PROVE  RoomInv'
  BY <1>2, OpenKept, SaveEditKept, SoftDeleteKept, BreakGlassKept, VoteKept, ClearVotesKept,
     CastVoteKept, ClosePollKept
<1>3. ASSUME NEW p \in Processes,
             \/ SetPreferences(p) \/ Archive(p) \/ MarkRead(p) \/ SaveRead(p)
             \/ OpenDirect(p) \/ Reconcile(p) \/ ApplyMembers(p) \/ RequestDies(p)
      PROVE  RoomInv'
  BY <1>3, SetPreferencesKept, ArchiveKept, MarkReadKept, SaveReadKept, OpenDirectKept,
     ReconcileKept, ApplyMembersKept, RequestDiesKept
<1>4. CASE NotifyNext /\ Quiet
  BY <1>4, ElsewhereKept
<1>5. CASE DomainChanges
  BY <1>5, DomainKept
<1>6. CASE UNCHANGED vars
  <2>1. ToldInv' /\ Serving
    BY <1>6 DEF vars, notifyVars, rowVars, ghostVars, RoomInv, ToldInv, JobsTyped, Serving
  <2>2. UNCHANGED <<participant, message, clock, blob, req, framed, heard, may, died>>
    BY <1>6 DEF vars, roomVars, spyVars
  <2> QED BY <2>1, <2>2, Unmoved
<1>7. Next => \/ \E p \in Processes :
                   \/ Send(p) \/ Insert(p) \/ Touch(p) \/ StoreFile(p) \/ RejectFile(p)
                   \/ Commit(p) \/ Publish(p) \/ NotifyMessage(p)
              \/ \E p \in Processes :
                   \/ Edit(p) \/ SaveEdit(p) \/ Delete(p) \/ SoftDelete(p) \/ BreakGlass(p)
                   \/ Vote(p) \/ ClearVotes(p) \/ CastVote(p) \/ ClosePoll(p)
              \/ \E p \in Processes :
                   \/ SetPreferences(p) \/ Archive(p) \/ MarkRead(p) \/ SaveRead(p)
                   \/ OpenDirect(p) \/ Reconcile(p) \/ ApplyMembers(p) \/ RequestDies(p)
              \/ NotifyNext /\ Quiet
              \/ DomainChanges
  BY Zenon DEF Next, NotifyNext
<1> QED BY <1>1, <1>2, <1>3, <1>4, <1>5, <1>6, <1>7

LEMMA RoomHolds == Spec => []RoomInv
BY RoomStarts, RoomKept, PTL DEF Spec

\* send_message() and notify(): however often and however concurrently a
\* request id is sent and recipients are resolved, a message is framed once, a
\* delivery is handed out once, and only members are told.
THEOREM MembersAreToldOnce == Spec => []AnnouncedToMembers
<1>1. RoomInv => AnnouncedToMembers
  <2> HAVE RoomInv
  <2>1. ToldOnce
    BY DEF RoomInv, ToldInv, ToldOnce
  <2>2. \A k \in Messages : framed[k] <= 1
    BY DEF RoomInv, CoreInv, Frames
  <2>3. LeaversHearNothing
    BY DEF RoomInv, MayInv, LeaversHearNothing
  <2> QED BY <2>1, <2>2, <2>3 DEF AnnouncedToMembers, AnnouncedOnce
<1> QED BY <1>1, RoomHolds, PTL

\* create_attachment() and the upload view: a committed message has its files,
\* and every blob is accounted for.
THEOREM StorageMatches == Spec => []BlobsMatch
<1>1. RoomInv => BlobsMatch
  <2> HAVE RoomInv
  <2> DEFINE kept == UNION {message[k].files : k \in {m \in Messages : message[m] # NoRow}}
             coming == UNION {Blobs(p, req[p].stored) : p \in {q \in Processes : req[q].op \in Sending}}
  <2>1. kept \subseteq blob
    BY DEF RoomInv, BlobInv, Files
  <2>2. \A p \in Processes : req[p].op \in Sending => Brings(req[p], p) = Blobs(p, req[p].stored)
    BY DEF Brings, Pieces, Blobs
  <2>3. blob \subseteq kept \cup coming \cup died
    BY <2>2 DEF RoomInv, BlobInv, Files, Brings
  <2> QED BY <2>1, <2>3 DEF BlobsMatch
<1> QED BY <1>1, RoomHolds, PTL

\* read_status(), batch_read_status() and unread_counts(): three computations
\* over the same rows say the same.
THEOREM StatusesAgree == Spec => []StatusAgrees
<1>1. RoomInv => StatusAgrees
  <2> HAVE RoomInv
  <2> SUFFICES ASSUME NEW k \in Messages, message[k] # NoRow
               PROVE  /\ BatchReadStatus(k) = ReadStatus(k)
                      /\ ~message[k].deleted =>
                           (ReadStatus(k).all <=> /\ \E u \in Users : Live(u) /\ u # message[k].sender
                                                  /\ \A u \in Users : Live(u) => ~Unread(u, k))
    BY DEF StatusAgrees
  <2> DEFINE ps == {u \in Users : Live(u) /\ u # message[k].sender}
             readers == {u \in ps : participant[u].read >= message[k].at}
             rows == {u \in Users : Live(u)}
             others == rows \ {message[k].sender}
  <2>1. message[k].at \in Nat \ {0}
    BY DEF RoomInv, CoreInv, Rows, MessageRow
  <2>2. \A u \in Users : Live(u) => participant[u].read \in Nat
    BY DEF RoomInv, CoreInv, Rows, ParticipantRow, Live
  <2>3. others = ps
    OBVIOUS
  <2>4. {u \in others : participant[u].read # 0 /\ participant[u].read >= message[k].at} = readers
    BY <2>1, <2>2
  <2>5. (\A u \in others : participant[u].read # 0 /\ participant[u].read >= message[k].at)
          <=> ps \ readers = {}
    BY <2>1, <2>2
  <2>6. ReadStatus(k) = [all |-> ps # {} /\ ps \ readers = {},
                         count |-> Cardinality(ps), read |-> Cardinality(readers)]
    BY DEF ReadStatus
  <2>7. BatchReadStatus(k) =
          [all |-> others # {} /\ \A u \in others :
                participant[u].read # 0 /\ participant[u].read >= message[k].at,
           count |-> Cardinality(others),
           read |-> Cardinality({u \in others : participant[u].read # 0
                                   /\ participant[u].read >= message[k].at})]
    BY DEF BatchReadStatus
  <2>8. BatchReadStatus(k) = ReadStatus(k)
    BY <2>3, <2>4, <2>5, <2>6, <2>7
  <2>9. ReadStatus(k).all <=> ps # {} /\ ps \ readers = {}
    <3>1. CASE ps # {} /\ ps \ readers = {}
      <4>1. ReadStatus(k) = [all |-> TRUE, count |-> Cardinality(ps),
                             read |-> Cardinality(readers)]
        BY <2>6, <3>1
      <4> QED BY <3>1, <4>1
    <3>2. CASE ~(ps # {} /\ ps \ readers = {})
      <4>1. ReadStatus(k) = [all |-> FALSE, count |-> Cardinality(ps),
                             read |-> Cardinality(readers)]
        BY <2>6, <3>2
      <4> QED BY <3>2, <4>1
    <3> QED BY <3>1, <3>2
  <2>10. ASSUME ~message[k].deleted
         PROVE  ps \ readers = {} <=> \A u \in Users : Live(u) => ~Unread(u, k)
    BY <2>1, <2>2, <2>10 DEF Unread
  <2> QED BY <2>8, <2>9, <2>10
<1> QED BY <1>1, RoomHolds, PTL
===============================================================================
