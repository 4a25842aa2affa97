------------------------------- MODULE Accounts -------------------------------
(***************************************************************************)
(* The account services of a site on one server: the sign-up policy,       *)
(* accounts and sessions, sign-up, recovery and the privacy choices of a   *)
(* browser (AuthPolicy, Sessions, Signup, Recovery, Privacy). They share   *)
(* the server's requests; a load says how much of each is to come.         *)
(***************************************************************************)
EXTENDS Recovery, Privacy

vars == <<req, left, policyVars, accountVars, signupVars, recoveryVars, privacyVars>>

Init ==
  /\ ServerInit /\ PolicyInit /\ SessionInit /\ SignupInit /\ RecoveryInit /\ PrivacyInit

Next ==
  \/ PolicyStep /\ UNCHANGED <<accountVars, signupVars, recoveryVars, privacyVars>>
  \/ SessionStep /\ UNCHANGED <<signupVars, recoveryVars, privacyVars>>
  \/ SignupStep /\ UNCHANGED <<recoveryVars, privacyVars>>
  \/ RecoveryStep /\ UNCHANGED privacyVars
  \/ PrivacyStep /\ UNCHANGED <<policyVars, accountVars, signupVars, recoveryVars>>

Spec == Init /\ [][Next]_vars

-------------------------------------------------------------------------------
Policy == [modes: SUBSET Modes, domain: SUBSET Emails, invite: BOOLEAN,
           single: BOOLEAN, factors: {1, 2}]
User == [pw: Nat, active: BOOLEAN, login: Nat]
Profile == [role: 0 .. 3, new: BOOLEAN, invited: BOOLEAN]
RecoveryRow == [email: Emails, created: 0 .. Horizon, approved: 0 .. Horizon \cup {None},
  status: {"pending", "approved", "rejected", "completed", "expired"}]
Choice == [state: {"unset", "granted", "refused"}, revision: 0 .. MaxRev, live: BOOLEAN]

\* Every table holds rows of its type.
TypeOK ==
  /\ {row, cache} \subseteq Policy \cup {None} /\ epoch \in Nat
  /\ \A e \in Emails : user[e] \in User \cup {None} /\ profile[e] \in Profile
  /\ verified \subseteq Emails /\ \A e \in Emails : factors[e] \subseteq Factors
  /\ \A b \in Browsers : session[b].level \in Levels
  /\ \A v \in Vouchers : /\ voucher[v] \in 0 .. MaxUses
                         /\ lock[v] \in Requests \cup {None}
  /\ \A x \in Recoveries : recovery[x] \in RecoveryRow \cup {None}
  /\ \A x \in Receipts : Found(x) => \A p \in Purposes : receipt[x].choice[p] \in Choice
  /\ cookie \in Receipts \cup {None}

\* None is what a row that is not there reads as.
ASSUME AccountsAssumption == None \notin Nat /\ None \notin RecoveryRow

\* Whatever confirmations race, fail half-way or are repeated, each use that
\* has gone from an access code or a QR token has made exactly one account
\* (register_confirm: no voucher consumed without a corresponding user row),
\* and none more than the voucher was good for.
VouchersAdmit ==
  \A v \in Vouchers : charged[v] <= issued[v] /\ voucher[v] = issued[v] - charged[v]

\* Approving a request again, or after it was rejected, completed or expired,
\* never lets its token log in later than the period after the first approval
\* (mark_resolved sets approved_at once), and no token logs in unapproved.
WindowHolds ==
  \A l \in logins : opened[l.recovery] # None /\ l.at < opened[l.recovery] + Ttl

\* A privacy grant is decided only by a request whose page had seen every
\* earlier decision on the receipt, so that no old tab undoes a withdrawal
\* (apply_choice_request), however requests are delayed or repeated.
GrantsSawEverything ==
  \A x \in Receipts : Found(x) =>
    \A i \in DOMAIN receipt[x].log :
      LET d == receipt[x].log[i] IN
      /\ (\E p \in DOMAIN d.kind : d.kind[p] = "granted") => d.saw = d.seq - 1
      /\ i > 1 => d.seq > receipt[x].log[i - 1].seq

\* "Epoch guard closes the write-after-invalidate race" (policy.py): with no
\* write under way, the cached policy is the row.
CacheIsCurrent ==
  (\A r \in Requests : req[r].pc \notin {"saved", "deleted"}) => cache \in {None, row}

\* "One-time token used in the recovery login URL" (recovery.py).
OneLogin == \A a, b \in logins : a.recovery = b.recovery => a = b

===============================================================================
