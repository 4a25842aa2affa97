------------------------------- MODULE Recovery -------------------------------
(***************************************************************************)
(* Recovery of an account whose second factor is lost (auth/recovery.py,   *)
(* auth/services.py): a request for help, its approval or rejection by     *)
(* support, the mailed token, the hand-over of the token to the page, and  *)
(* the login that the token allows. Support and login work on a row they   *)
(* have loaded and save some of its columns later.                         *)
(*                                                                         *)
(* Time is counted in units longer than any HTTP request.                  *)
(***************************************************************************)
EXTENDS Signup

CONSTANTS
  Recoveries,  \* recovery requests
  Ttl,         \* RECOVERY_REQUEST_TTL_MINUTES, in units of time
  Horizon      \* bound: the last moment

ASSUME RecoveryAssumption == Ttl \in Nat \ {0} /\ Horizon \in Nat

VARIABLES
  now,
  recovery,  \* by request: None or [email, status, created, approved]
  mailed,    \* recovery requests whose token has left in a mail
  spa,       \* by browser: the token its page took out of the session, or None
  opened,    \* history: when a request was approved for the first time, or None
  logins     \* history: recovery logins, [recovery, at, call]

recoveryVars == <<now, recovery, mailed, spa, opened, logins>>

RecoveryInit ==
  /\ now = 0
  /\ recovery = [x \in Recoveries |-> None]
  /\ mailed = {}
  /\ spa = [b \in Browsers |-> None]
  /\ opened = [x \in Recoveries |-> None]
  /\ logins = {}

ExpiresAt(rr) ==
  Ttl + IF rr.status = "approved" /\ rr.approved # None THEN rr.approved ELSE rr.created
Active(rr) == rr.status \in {"pending", "approved"} /\ now < ExpiresAt(rr)

Asked(e) == [email |-> e, status |-> "pending", created |-> now, approved |-> None]

\* mfa_support_help: from the login page, without a session.
AskHelp(x, e) ==
  /\ recovery[x] = None /\ user[e] # None
  /\ Call("help")
  /\ recovery' = [recovery EXCEPT ![x] = Asked(e)]
  /\ UNCHANGED <<policyVars, req, accountVars, signupVars, now, mailed, spa, opened, logins>>

\* create_recovery_request_for_user also lowers the session's level.
AskHelpSignedIn(x, b) ==
  /\ recovery[x] = None /\ Authenticated(b)
  /\ Call("help")
  /\ recovery' = [recovery EXCEPT ![x] = Asked(session[b].user)]
  /\ session' = [session EXCEPT ![b].level = "recovery"]
  /\ UNCHANGED <<policyVars, req, user, profile, verified, factors, signupVars,
                 now, mailed, spa, opened, logins>>

-------------------------------------------------------------------------------
(* Support: IsAssignedSupportOrAdmin, then mark_resolved on the loaded row.  *)

BeginSupport(r, op, b, x) ==
  /\ recovery[x] # None
  /\ Starts(r, op, "policy", [by |-> b, recovery |-> x])
  /\ UNCHANGED <<policyVars, accountVars, signupVars, recoveryVars>>

LoadSupport(r) ==
  /\ req[r].pc = "ready" /\ req[r].op \in {"approve", "reject"}
  /\ AuthAdmin(req[r].arg.by, req[r].policy)
  /\ req' = [req EXCEPT ![r].pc = "write", ![r].held = recovery[req[r].arg.recovery]]
  /\ UNCHANGED <<policyVars, left, accountVars, signupVars, recoveryVars>>

\* A bug to be found: every approval opens the window anew.
BugApprove(r) ==
  LET x == req[r].arg.recovery IN
  /\ At(r, "approve", "write")
  /\ recovery' = [recovery EXCEPT ![x].status = "approved", ![x].approved = now]
  /\ opened' = [opened EXCEPT ![x] = IF @ = None THEN now ELSE @]
  /\ mailed' = mailed \cup {x}
  /\ Ends(r)
  /\ UNCHANGED <<policyVars, left, accountVars, signupVars, now, spa, logins>>

\* approved_at is saved only if the loaded row had none.
Approve(r) ==
  LET x == req[r].arg.recovery
      first == req[r].held.approved = None IN
  /\ At(r, "approve", "write")
  /\ recovery' = [recovery EXCEPT ![x].status = "approved",
                                  ![x].approved = IF first THEN now ELSE @]
  /\ opened' = [opened EXCEPT ![x] = IF @ = None THEN now ELSE @]
  /\ mailed' = mailed \cup {x}
  /\ Ends(r)
  /\ UNCHANGED <<policyVars, left, accountVars, signupVars, now, spa, logins>>

Reject(r) ==
  /\ At(r, "reject", "write")
  /\ recovery' = [recovery EXCEPT ![req[r].arg.recovery].status = "rejected"]
  /\ Ends(r)
  /\ UNCHANGED <<policyVars, left, accountVars, signupVars, now, mailed, spa, opened, logins>>

-------------------------------------------------------------------------------
(* The mailed link leaves the token in the session; the page takes it out.   *)

OpenLink(b, x) ==
  /\ x \in mailed
  /\ Active(recovery[x])
  /\ session[b].token # x
  /\ session' = [session EXCEPT ![b].token = x]
  /\ UNCHANGED <<policyVars, req, left, user, profile, verified, factors, signupVars, recoveryVars>>

\* Later than RECOVERY_SESSION_TOKEN_TTL_SECONDS it gets nothing.
TakeToken(b) ==
  /\ session[b].token # None
  /\ spa' \in {[spa EXCEPT ![b] = session[b].token], spa}
  /\ session' = [session EXCEPT ![b].token = None]
  /\ UNCHANGED <<policyVars, req, left, user, profile, verified, factors, signupVars,
                 now, recovery, mailed, opened, logins>>

-------------------------------------------------------------------------------
(* perform_recovery_login: look up, check, log in, complete.                 *)

BeginLogin(r, b, e) ==
  /\ spa[b] # None
  /\ Starts(r, "login", "check", [by |-> b, email |-> e, recovery |-> spa[b]])
  /\ UNCHANGED <<policyVars, accountVars, signupVars, recoveryVars>>

LookUp(r) ==
  LET rr == recovery[req[r].arg.recovery] IN
  /\ At(r, "login", "check")
  /\ IF rr.status = "approved"
     THEN req' = [req EXCEPT ![r].pc = IF Active(rr) THEN "login" ELSE "expire",
                             ![r].held = rr]
     ELSE Ends(r)
  /\ UNCHANGED <<policyVars, left, accountVars, signupVars, recoveryVars>>

MarkExpired(r) ==
  /\ At(r, "login", "expire")
  /\ recovery' = [recovery EXCEPT ![req[r].arg.recovery].status = "expired"]
  /\ Ends(r)
  /\ UNCHANGED <<policyVars, left, accountVars, signupVars, now, mailed, spa, opened, logins>>

\* The password is right, and the account may authenticate.
RecoveryLogin(r) ==
  LET b == req[r].arg.by
      e == req[r].arg.email IN
  /\ At(r, "login", "login")
  /\ e = req[r].held.email /\ CanAuthenticate(e) /\ user[e].pw > 0
  /\ LoggedIn(e)
  /\ session' = [session EXCEPT ![b] = SignedIn(b, e, "basic", FALSE)]
  /\ logins' = logins \cup {[recovery |-> req[r].arg.recovery, at |-> now,
                             call |-> req[r].call]}
  /\ Goes(r, "complete")
  /\ UNCHANGED <<policyVars, left, verified, factors, signupVars,
                 now, recovery, mailed, spa, opened>>

WrongCredentials(r) ==
  /\ At(r, "login", "login")
  /\ Ends(r)
  /\ UNCHANGED <<policyVars, left, accountVars, signupVars, recoveryVars>>

MarkCompleted(r) ==
  /\ At(r, "login", "complete")
  /\ recovery' = [recovery EXCEPT ![req[r].arg.recovery].status = "completed"]
  /\ Ends(r)
  /\ UNCHANGED <<policyVars, left, accountVars, signupVars, now, mailed, spa, opened, logins>>

Tick ==
  /\ now < Horizon
  /\ \E x \in Recoveries : recovery[x] # None
  /\ \A r \in Requests : req[r].pc = "idle"
  /\ now' = now + 1
  /\ UNCHANGED <<policyVars, req, left, accountVars, signupVars,
                 recovery, mailed, spa, opened, logins>>

RecoveryStep ==
  \/ \E x \in Recoveries, e \in Emails : AskHelp(x, e)
  \/ \E x \in Recoveries, b \in Browsers : AskHelpSignedIn(x, b)
  \/ \E r \in Requests, op \in {"approve", "reject"}, b \in Browsers, x \in Recoveries :
       BeginSupport(r, op, b, x)
  \/ \E r \in Requests : LoadSupport(r)
  \/ \E r \in Requests : Approve(r)
  \/ \E r \in Requests : Reject(r)
  \/ \E b \in Browsers, x \in Recoveries : OpenLink(b, x)
  \/ \E b \in Browsers : TakeToken(b)
  \/ \E r \in Requests, b \in Browsers, e \in Emails : BeginLogin(r, b, e)
  \/ \E r \in Requests : LookUp(r)
  \/ \E r \in Requests : MarkExpired(r)
  \/ \E r \in Requests : RecoveryLogin(r)
  \/ \E r \in Requests : WrongCredentials(r)
  \/ \E r \in Requests : MarkCompleted(r)
  \/ Tick
===============================================================================
