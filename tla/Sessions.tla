------------------------------- MODULE Sessions -------------------------------
(***************************************************************************)
(* Accounts, sessions and who may administer whom (auth/security.py,       *)
(* permissions.py, roles.py, adapters.py, admin_mfa_middleware.py and the  *)
(* user endpoints of auth/views.py). The user row, the profile row, the    *)
(* verified addresses and the authenticators are tables of their own; an   *)
(* endpoint that loads a row and saves all of it is split between the two. *)
(***************************************************************************)
EXTENDS AuthPolicy

CONSTANTS
  Emails,    \* an account is known by its address
  Staff,     \* accounts of the start: [address -> role level]
  Browsers   \* one session each

VARIABLES
  user,      \* by address: None or [pw, active, login]; pw 0: unusable
  profile,   \* by address: [role, new, invited]
  verified,  \* addresses with a verified EmailAddress row
  factors,   \* by address: enrolled authenticators
  session    \* by browser: [user, pw, level, mfa, token]

accountVars == <<user, profile, verified, factors, session>>

Levels == {"anon", "recovery", "basic", "strong"}
Factors == {"totp", "webauthn", "recovery_codes"}
Anonymous == [user |-> None, pw |-> 0, level |-> "anon", mfa |-> FALSE, token |-> None]
NewProfile == [role |-> 1, new |-> TRUE, invited |-> FALSE]

SessionInit ==
  /\ user = [e \in Emails |-> IF e \in DOMAIN Staff
                              THEN [pw |-> 1, active |-> TRUE, login |-> 0] ELSE None]
  /\ profile = [e \in Emails |-> IF e \in DOMAIN Staff
                                 THEN [NewProfile EXCEPT !.role = Staff[e]] ELSE NewProfile]
  /\ verified = DOMAIN Staff
  /\ factors = [e \in Emails |-> {}]
  /\ session = [b \in Browsers |-> Anonymous]

-------------------------------------------------------------------------------
(* Signing in. Django drops the session of another user, keeps that of the   *)
(* same one, and turns a session away once the account is inactive or its    *)
(* password has changed.                                                     *)

Authenticated(b) ==
  LET s == session[b] IN
  /\ s.user # None
  /\ user[s.user].active
  /\ s.pw = user[s.user].pw

CanAuthenticate(e) == user[e] # None /\ user[e].active

SignedIn(b, e, level, mfa) ==
  LET same == session[b].user = e IN
  [user |-> e, pw |-> user[e].pw, level |-> level,
   mfa |-> mfa \/ (same /\ session[b].mfa),
   token |-> IF same THEN session[b].token ELSE None]

LevelAfter(b, e, how) ==
  IF how \in {"passkey", "mfa"} THEN "strong"
  ELSE IF session[b].user = e /\ session[b].level \in {"strong", "recovery"}
       THEN session[b].level ELSE "basic"

\* A password is enough only where no authenticator is enrolled; a social
\* account is connected to a verified address only.
Way(e, how) ==
  CASE how = "password" -> user[e].pw > 0 /\ factors[e] = {}
    [] how = "social" -> e \in verified /\ factors[e] = {}
    [] how = "mfa" -> user[e].pw > 0 /\ factors[e] \cap {"totp", "recovery_codes"} # {}
    [] how = "passkey" -> "webauthn" \in factors[e]

\* user_logged_in: last_login and is_new are saved alone.
LoggedIn(e) ==
  /\ user' = [user EXCEPT ![e].login = @ + 1]
  /\ profile' = [profile EXCEPT ![e].new = FALSE]

SignIn(b, e, how) ==
  /\ CanAuthenticate(e)
  /\ Way(e, how)
  /\ Call("signin")
  /\ LoggedIn(e)
  /\ session' = [session EXCEPT ![b] = SignedIn(b, e, LevelAfter(b, e, how),
                   \/ how = "passkey"
                   \/ how = "mfa" /\ "totp" \in factors[e])]
  /\ UNCHANGED <<policyVars, req, verified, factors>>

SignOut(b) ==
  /\ session[b] # Anonymous
  /\ Call("signin")
  /\ session' = [session EXCEPT ![b] = Anonymous]
  /\ UNCHANGED <<policyVars, req, user, profile, verified, factors>>

Enroll(b, f) ==
  /\ Authenticated(b)
  /\ Call("factor")
  /\ factors' = [factors EXCEPT ![session[b].user] = @ \cup {f}]
  /\ UNCHANGED <<policyVars, req, user, profile, verified, session>>

RemovePasskey(b) ==
  /\ Authenticated(b)
  /\ "webauthn" \in factors[session[b].user]
  /\ Call("factor")
  /\ factors' = [factors EXCEPT ![session[b].user] = @ \ {"webauthn"}]
  /\ UNCHANGED <<policyVars, req, user, profile, verified, session>>

-------------------------------------------------------------------------------
(* Authority: the role's level, and the factors the policy wants of          *)
(* administrators, as the request has just read it.                          *)

Role(b) == profile[session[b].user].role
FullAuthAdmin(b) == Role(b) >= 3

SecuritySufficient(b, policy) ==
  session[b].level \in IF policy.factors = 2 THEN {"strong"} ELSE {"basic", "strong"}

AdminPolicySatisfied(b, policy) == FullAuthAdmin(b) => SecuritySufficient(b, policy)

InviteAdmin(b, policy) ==
  Authenticated(b) /\ Role(b) >= 2 /\ AdminPolicySatisfied(b, policy)
AuthAdmin(b, policy) ==
  Authenticated(b) /\ FullAuthAdmin(b) /\ SecuritySufficient(b, policy)

CanActOn(b, e) ==
  \/ Role(b) > profile[e].role
  \/ Role(b) = profile[e].role /\ FullAuthAdmin(b)

CanChangeRole(b, e, level) == Role(b) >= level /\ Role(b) > profile[e].role

\* The Django admin: a real factor, enrolled and used in this session.
AdminSite(b) ==
  /\ Authenticated(b)
  /\ FullAuthAdmin(b)
  /\ factors[session[b].user] \ {"recovery_codes"} # {}
  /\ session[b].mfa

-------------------------------------------------------------------------------
(* auth_policy PATCH: the gate reads the policy, then the endpoint does.     *)

BeginPatch(r, b, edit) ==
  /\ Starts(r, "patch", "policy", [by |-> b, edit |-> edit])
  /\ UNCHANGED <<policyVars, accountVars>>

GatePatch(r) ==
  /\ At(r, "patch", "ready")
  /\ IF AuthAdmin(req[r].arg.by, req[r].policy)
     THEN req' = [req EXCEPT ![r].op = "save", ![r].pc = "policy"]
     ELSE Ends(r)
  /\ UNCHANGED <<policyVars, left, accountVars>>

-------------------------------------------------------------------------------
(* update, current, update_role and the admin site: load, check, save whole. *)

BeginEdit(r, b, e, active) ==
  /\ Starts(r, "edit", "policy", [by |-> b, email |-> e, active |-> active])
  /\ user[e] # None
  /\ UNCHANGED <<policyVars, accountVars>>

\* Their own row: safe fields only, unless they administer users.
LoadEdit(r) ==
  LET by == req[r].arg.by
      e == req[r].arg.email
      admin == InviteAdmin(by, req[r].policy)
      self == session[by].user = e
      site == AdminSite(by)
      active == IF admin \/ site THEN req[r].arg.active ELSE user[e].active IN
  /\ At(r, "edit", "ready")
  /\ IF Authenticated(by) /\ (self \/ (admin /\ CanActOn(by, e)) \/ site)
     THEN req' = [req EXCEPT ![r].pc = "write",
                             ![r].held = [user[e] EXCEPT !.active = active]]
     ELSE Ends(r)
  /\ UNCHANGED <<policyVars, left, accountVars>>

\* prevent_password_wipe keeps a usable password from being emptied.
SaveUser(r) ==
  LET e == req[r].arg.email IN
  /\ At(r, "edit", "write")
  /\ user' = [user EXCEPT ![e] = [req[r].held EXCEPT
                !.pw = IF @ = 0 THEN user[e].pw ELSE @]]
  /\ Ends(r)
  /\ UNCHANGED <<policyVars, left, profile, verified, factors, session>>

BeginRole(r, b, e, level) ==
  /\ Starts(r, "role", "load", [by |-> b, email |-> e, role |-> level])
  /\ user[e] # None
  /\ UNCHANGED <<policyVars, accountVars>>

LoadRole(r) ==
  LET by == req[r].arg.by
      e == req[r].arg.email IN
  /\ At(r, "role", "load")
  /\ IF Authenticated(by) /\ CanChangeRole(by, e, req[r].arg.role)
     THEN req' = [req EXCEPT ![r].pc = "write",
                    ![r].held = [profile[e] EXCEPT !.role = req[r].arg.role]]
     ELSE Ends(r)
  /\ UNCHANGED <<policyVars, left, accountVars>>

SaveRole(r) ==
  /\ At(r, "role", "write")
  /\ profile' = [profile EXCEPT ![req[r].arg.email] = req[r].held]
  /\ Ends(r)
  /\ UNCHANGED <<policyVars, left, user, verified, factors, session>>

SessionStep ==
  \/ \E b \in Browsers, e \in Emails, how \in {"password", "social", "mfa", "passkey"} :
       SignIn(b, e, how)
  \/ \E b \in Browsers : SignOut(b)
  \/ \E b \in Browsers, f \in Factors : Enroll(b, f)
  \/ \E b \in Browsers : RemovePasskey(b)
  \/ \E r \in Requests, b \in Browsers, edit \in Edits : BeginPatch(r, b, edit)
  \/ \E r \in Requests : GatePatch(r)
  \/ \E r \in Requests, b \in Browsers, e \in Emails, a \in BOOLEAN : BeginEdit(r, b, e, a)
  \/ \E r \in Requests : LoadEdit(r)
  \/ \E r \in Requests : SaveUser(r)
  \/ \E r \in Requests, b \in Browsers, e \in Emails, level \in 0 .. 3 :
       BeginRole(r, b, e, level)
  \/ \E r \in Requests : LoadRole(r)
  \/ \E r \in Requests : SaveRole(r)
===============================================================================
