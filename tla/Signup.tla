-------------------------------- MODULE Signup --------------------------------
(***************************************************************************)
(* Becoming a user (auth/views.py, auth/policy.py, invitations): a         *)
(* registration is asked for, confirmed from the mail, and spends an       *)
(* access code or a redemption of a QR token in the transaction that       *)
(* creates the account; administrators invite; links set passwords.        *)
(*                                                                         *)
(* A voucher is an access code or a QR token. A transaction that has       *)
(* spent it holds the lock on its row until it commits.                    *)
(***************************************************************************)
EXTENDS Sessions

CONSTANTS
  Codes,    \* access codes
  Qrs,      \* QR sign-up tokens
  MaxUses   \* max_redemptions of a QR token

ASSUME SignupAssumption == MaxUses \in Nat \ {0} /\ Codes \cap Qrs = {}

VARIABLES
  voucher,  \* by voucher: uses left; an access code has one while it is active
  lock,     \* by voucher: the request whose transaction spent it, or None
  pending,  \* mailed and unexpired registrations: [email, mode, voucher]
  links,    \* unexpired links: [email, pw, login], what the token is made from
  issued,   \* history: uses ever put on the voucher, less those withdrawn
  charged   \* history: accounts created at the voucher's expense

signupVars == <<voucher, lock, pending, links, issued, charged>>

Vouchers == Codes \cup Qrs
Modes == {"open", "email_domain", "access_code", "qr"}

SignupInit ==
  /\ voucher = [v \in Vouchers |-> 0]
  /\ lock = [v \in Vouchers |-> None]
  /\ pending = {} /\ links = {}
  /\ issued = [v \in Vouchers |-> 0]
  /\ charged = [v \in Vouchers |-> 0]

-------------------------------------------------------------------------------
(* Vouchers: AccessCodeViewSet.set, signup_qr, expiry.                       *)

Put(v, uses) ==
  /\ lock[v] = None
  /\ voucher' = [voucher EXCEPT ![v] = uses]
  /\ issued' = [issued EXCEPT ![v] = @ + uses - voucher[v]]

BeginVoucher(r, b, v, active) ==
  /\ Starts(r, "voucher", "policy", [by |-> b, voucher |-> v, active |-> active])
  /\ UNCHANGED <<policyVars, accountVars, signupVars>>

SetCode(r) ==
  LET v == req[r].arg.voucher IN
  /\ At(r, "voucher", "ready") /\ v \in Codes
  /\ InviteAdmin(req[r].arg.by, req[r].policy)
  /\ Put(v, IF req[r].arg.active THEN 1 ELSE 0)
  /\ Ends(r)
  /\ UNCHANGED <<policyVars, left, accountVars, lock, pending, links, charged>>

CreateQr(r) ==
  LET v == req[r].arg.voucher IN
  /\ At(r, "voucher", "ready") /\ v \in Qrs
  /\ InviteAdmin(req[r].arg.by, req[r].policy)
  /\ "qr" \in req[r].policy.modes
  /\ issued[v] = 0
  /\ Put(v, MaxUses)
  /\ Ends(r)
  /\ UNCHANGED <<policyVars, left, accountVars, lock, pending, links, charged>>

ExpireQr(v) ==
  /\ voucher[v] > 0
  /\ Put(v, 0)
  /\ UNCHANGED <<policyVars, req, left, accountVars, lock, pending, links, charged>>

-------------------------------------------------------------------------------
(* register_request: everything is validated, nothing is spent.              *)

BeginAsk(r, e, mode, v) ==
  /\ mode = "access_code" => v \in Codes
  /\ mode = "qr" => v \in Qrs
  /\ Starts(r, "ask", "policy", [email |-> e, mode |-> mode, voucher |-> v])
  /\ UNCHANGED <<policyVars, accountVars, signupVars>>

MayAsk(token, policy) ==
  /\ token.mode \in policy.modes
  /\ token.mode = "access_code" => voucher[token.voucher] > 0
  /\ token.mode = "email_domain" => token.email \in policy.domain
  /\ token.voucher \in Qrs => voucher[token.voucher] > 0

RegisterRequest(r) ==
  /\ At(r, "ask", "ready")
  /\ MayAsk(req[r].arg, req[r].policy)
  /\ pending' = pending \cup {req[r].arg}
  /\ Ends(r)
  /\ UNCHANGED <<policyVars, left, accountVars, voucher, lock, links, issued, charged>>

-------------------------------------------------------------------------------
(* register_confirm: a known address is answered as if it were new; the      *)
(* policy decides only whether an access code is spent.                      *)

BeginConfirm(r, token) ==
  /\ Starts(r, "confirm", "check", token)
  /\ UNCHANGED <<policyVars, accountVars, signupVars>>

CheckConfirm(r) ==
  LET token == req[r].arg IN
  /\ At(r, "confirm", "check")
  /\ IF (token.voucher \in Qrs /\ voucher[token.voucher] = 0) \/ user[token.email] # None
     THEN Ends(r) ELSE Goes(r, "policy")
  /\ UNCHANGED <<policyVars, left, accountVars, signupVars>>

Spends(token, policy) == token.voucher \in Qrs \/ (token.voucher \in Codes /\ policy.single)

\* The compare-and-swap of validate_access_code_or_error and
\* consume_signup_context_token, inside the transaction.
Consume(r) ==
  LET token == req[r].arg
      v == token.voucher
      spends == Spends(token, req[r].policy) IN
  /\ At(r, "confirm", "ready")
  /\ spends => lock[v] = None
  /\ lock' = IF spends /\ voucher[v] > 0 THEN [lock EXCEPT ![v] = r] ELSE lock
  /\ IF spends => voucher[v] > 0
     THEN req' = [req EXCEPT ![r].pc = "create", ![r].held = [spent |-> spends]]
     ELSE Ends(r)
  /\ UNCHANGED <<policyVars, left, accountVars, voucher, pending, links, issued, charged>>

Unlocked(r) == [v \in Vouchers |-> IF lock[v] = r THEN None ELSE lock[v]]

CreateUser(r) ==
  LET e == req[r].arg.email
      v == req[r].arg.voucher IN
  /\ At(r, "confirm", "create")
  /\ user[e] = None
  /\ user' = [user EXCEPT ![e] = [pw |-> 1, active |-> TRUE, login |-> 0]]
  /\ profile' = [profile EXCEPT ![e] = [NewProfile EXCEPT !.invited = TRUE]]
  /\ verified' = verified \cup {e}
  /\ voucher' = IF req[r].held.spent THEN [voucher EXCEPT ![v] = @ - 1] ELSE voucher
  /\ charged' = IF req[r].held.spent THEN [charged EXCEPT ![v] = @ + 1] ELSE charged
  /\ lock' = Unlocked(r)
  /\ Ends(r)
  /\ UNCHANGED <<policyVars, left, factors, session, pending, links, issued>>

\* A bug to be found: the voucher was spent outside the transaction.
BugRollBack(r) ==
  LET v == req[r].arg.voucher IN
  /\ At(r, "confirm", "create")
  /\ voucher' = IF req[r].held.spent THEN [voucher EXCEPT ![v] = @ - 1] ELSE voucher
  /\ lock' = Unlocked(r)
  /\ Ends(r)
  /\ UNCHANGED <<policyVars, left, accountVars, pending, links, issued, charged>>

\* The name is taken, a hook of the application raises, or the server dies.
RollBack(r) ==
  /\ At(r, "confirm", "create")
  /\ lock' = Unlocked(r)
  /\ Ends(r)
  /\ UNCHANGED <<policyVars, left, accountVars, voucher, pending, links, issued, charged>>

-------------------------------------------------------------------------------
(* invite, invite_link and reset_request, and the link that sets a password. *)

LinkTo(e) == [email |-> e, pw |-> user[e].pw, login |-> user[e].login]

BeginInvite(r, b, e) ==
  /\ Starts(r, "invite", "policy", [by |-> b, email |-> e])
  /\ UNCHANGED <<policyVars, accountVars, signupVars>>

\* get_or_create; the profile is loaded with the account.
Invite(r) ==
  LET e == req[r].arg.email
      created == user[e] = None IN
  /\ At(r, "invite", "ready")
  /\ InviteAdmin(req[r].arg.by, req[r].policy)
  /\ req[r].policy.invite
  /\ user' = IF created
             THEN [user EXCEPT ![e] = [pw |-> 0, active |-> TRUE, login |-> 0]] ELSE user
  /\ req' = [req EXCEPT ![r].pc = "mark",
               ![r].held = [profile[e] EXCEPT !.invited = TRUE, !.new = @ \/ created]]
  /\ UNCHANGED <<policyVars, left, profile, verified, factors, session, signupVars>>

MarkInvited(r) ==
  LET e == req[r].arg.email IN
  /\ At(r, "invite", "mark")
  /\ profile' = [profile EXCEPT ![e] = req[r].held]
  /\ links' = links \cup {LinkTo(e)}
  /\ Ends(r)
  /\ UNCHANGED <<policyVars, left, user, verified, factors, session,
                 voucher, lock, pending, issued, charged>>

InviteLink(b, e) ==
  /\ InviteAdmin(b, Current) /\ user[e] # None /\ CanActOn(b, e)
  /\ user[e].login = 0
  /\ Call("link")
  /\ links' = links \cup {LinkTo(e)}
  /\ UNCHANGED <<policyVars, req, accountVars, voucher, lock, pending, issued, charged>>

ResetRequest(e) ==
  /\ user[e] # None
  /\ Call("link")
  /\ links' = links \cup {LinkTo(e)}
  /\ UNCHANGED <<policyVars, req, accountVars, voucher, lock, pending, issued, charged>>

BeginSetPassword(r, l) ==
  /\ Starts(r, "password", "check", l)
  /\ UNCHANGED <<policyVars, accountVars, signupVars>>

\* The token is made from the password and the last login it was sent for.
CheckLink(r) ==
  LET l == req[r].arg IN
  /\ At(r, "password", "check")
  /\ IF LinkTo(l.email) = l
     THEN req' = [req EXCEPT ![r].pc = "write", ![r].held = user[l.email]]
     ELSE Ends(r)
  /\ UNCHANGED <<policyVars, left, accountVars, signupVars>>

SetPassword(r) ==
  LET e == req[r].arg.email IN
  /\ At(r, "password", "write")
  /\ user' = [user EXCEPT ![e] = [req[r].held EXCEPT !.pw = 1 + req[r].call]]
  /\ verified' = verified \cup {e}
  /\ Ends(r)
  /\ UNCHANGED <<policyVars, left, profile, factors, session, signupVars>>

-------------------------------------------------------------------------------
\* A gate, a throttle or the validation of the input answers with an error.
Refuse(r) ==
  /\ req[r].pc = "ready"
  /\ req[r].op \in {"ask", "voucher", "invite", "approve", "reject"}
  /\ Ends(r)
  /\ UNCHANGED <<policyVars, left, accountVars, signupVars>>

MailExpires ==
  /\ \/ \E token \in pending : pending' = pending \ {token} /\ UNCHANGED links
     \/ \E l \in links : links' = links \ {l} /\ UNCHANGED pending
  /\ UNCHANGED <<policyVars, req, left, accountVars, voucher, lock, issued, charged>>

SignupStep ==
  \/ \E r \in Requests, b \in Browsers, v \in Vouchers, a \in BOOLEAN :
       BeginVoucher(r, b, v, a)
  \/ \E r \in Requests : SetCode(r)
  \/ \E r \in Requests : CreateQr(r)
  \/ \E v \in Qrs : ExpireQr(v)
  \/ \E r \in Requests, e \in Emails, mode \in Modes, v \in Vouchers \cup {None} :
       BeginAsk(r, e, mode, v)
  \/ \E r \in Requests : RegisterRequest(r)
  \/ \E r \in Requests, token \in pending : BeginConfirm(r, token)
  \/ \E r \in Requests : CheckConfirm(r)
  \/ \E r \in Requests : Consume(r)
  \/ \E r \in Requests : CreateUser(r)
  \/ \E r \in Requests : RollBack(r)
  \/ \E r \in Requests, b \in Browsers, e \in Emails : BeginInvite(r, b, e)
  \/ \E r \in Requests : Invite(r)
  \/ \E r \in Requests : MarkInvited(r)
  \/ \E b \in Browsers, e \in Emails : InviteLink(b, e)
  \/ \E e \in Emails : ResetRequest(e)
  \/ \E r \in Requests, l \in links : BeginSetPassword(r, l)
  \/ \E r \in Requests : CheckLink(r)
  \/ \E r \in Requests : SetPassword(r)
  \/ \E r \in Requests : Refuse(r)
  \/ MailExpires
===============================================================================
