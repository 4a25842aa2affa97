------------------------------- MODULE Privacy -------------------------------
(***************************************************************************)
(* Privacy choices of a browser (privacy/): the receipt its cookie names,  *)
(* the current choice per purpose, the decisions kept as evidence, and the *)
(* tabs that send choices on the strength of what they last rendered. A    *)
(* request finds the receipt of its cookie, works in one transaction that  *)
(* locks it, and answers; answers reach the browser in any order or never, *)
(* and the page sends the same body again.                                 *)
(***************************************************************************)
EXTENDS Server, Sequences

CONSTANTS
  Purposes,  \* optional purposes of the manifest
  Receipts,  \* receipts
  Tabs,      \* pages of one browser
  MaxRev     \* bound: revisions of the manifest

VARIABLES
  revision,  \* of the manifest: its purposes and its config_version
  receipt,   \* by receipt: None or [seq, choice, log]
  cookie,    \* the receipt that the browser's cookie names, or None
  tab,       \* by tab: [seq, revision] as rendered last
  doomed     \* receipts that the running prune has found empty

privacyVars == <<revision, receipt, cookie, tab, doomed>>

NoChoice == [state |-> "unset", revision |-> 0, live |-> FALSE]
NewReceipt == [seq |-> 0, choice |-> [p \in Purposes |-> NoChoice], log |-> <<>>]

PrivacyInit ==
  /\ revision = 1
  /\ receipt = [x \in Receipts |-> None]
  /\ cookie = None
  /\ tab = [t \in Tabs |-> [seq |-> 0, revision |-> 1]]
  /\ doomed = {}

\* receipt_for_request, on a cookie that was sent.
Found(c) == c # None /\ receipt[c] # None

State(c) == [seq |-> IF Found(c) THEN receipt[c].seq ELSE 0, revision |-> revision]

\* has_grant: a current grant of the purpose's current revision.
HasGrant(p) ==
  /\ Found(cookie)
  /\ receipt[cookie].choice[p] = [state |-> "granted", revision |-> revision, live |-> TRUE]

Render(t) ==
  /\ tab[t] # State(cookie)
  /\ tab' = [tab EXCEPT ![t] = State(cookie)]
  /\ UNCHANGED <<req, left, revision, receipt, cookie, doomed>>

Body(t, choices, id) ==
  [id |-> id, tab |-> t, seq |-> tab[t].seq, revision |-> tab[t].revision, choices |-> choices]

Send(r, t, choices) ==
  /\ DOMAIN choices # {}
  /\ Starts(r, "choice", "resolve",
            [body |-> Body(t, choices, left["choice"]), cookie |-> cookie])
  /\ UNCHANGED privacyVars

\* The page gave up on an answer and sends the same body again.
Resend(r, other) ==
  /\ req[other].op = "choice"
  /\ Starts(r, "choice", "resolve", [body |-> req[other].arg.body, cookie |-> cookie])
  /\ UNCHANGED privacyVars

-------------------------------------------------------------------------------
(* choices_view and apply_choice_request.                                    *)

\* A body of another config_version is answered stale_config at once.
Resolve(r) ==
  LET arg == req[r].arg IN
  /\ At(r, "choice", "resolve")
  /\ req' = [req EXCEPT ![r] = IF arg.body.revision # revision
       THEN [@ EXCEPT !.pc = "answer", !.held = None]
       ELSE [@ EXCEPT !.pc = "apply", !.held = IF Found(arg.cookie) THEN arg.cookie ELSE None]]
  /\ UNCHANGED <<left, privacyVars>>

Grants(body) == \E p \in DOMAIN body.choices : body.choices[p] = "granted"
Handled(rc, body) == \E i \in DOMAIN rc.log : rc.log[i].id = body.id

ActiveGrant(choice) ==
  choice = [state |-> "granted", revision |-> revision, live |-> TRUE]

Kind(rc, body, p) ==
  IF body.choices[p] = "refused" /\ ActiveGrant(rc.choice[p])
  THEN "withdrawn" ELSE body.choices[p]

Applied(rc, body) ==
  [seq |-> rc.seq + 1,
   choice |-> [p \in Purposes |-> IF p \in DOMAIN body.choices
     THEN [state |-> body.choices[p], revision |-> revision, live |-> TRUE]
     ELSE rc.choice[p]],
   log |-> Append(rc.log, [id |-> body.id, seq |-> rc.seq + 1, saw |-> body.seq,
             kind |-> [p \in DOMAIN body.choices |-> Kind(rc, body, p)]])]

\* A bug to be found: a grant that is behind is refused, but only by its revision.
BugStale(rc, body) == Grants(body) /\ body.revision # revision

\* A grant applies to exactly the sequence its page has seen.
Stale(rc, body) == Grants(body) /\ body.seq # rc.seq

Answers(r, x) == req' = [req EXCEPT ![r].pc = "answer", ![r].held = x]

\* The receipt of the cookie, or a new one if it has gone meanwhile.
Apply(r) ==
  LET body == req[r].arg.body
      known == Found(req[r].held) IN
  /\ At(r, "choice", "apply")
  /\ \E x \in IF known THEN {req[r].held} ELSE {y \in Receipts : receipt[y] = None} :
       LET rc == IF known THEN receipt[x] ELSE NewReceipt IN
       IF Handled(rc, body) THEN Answers(r, x) /\ UNCHANGED receipt
       ELSE IF Stale(rc, body) THEN Answers(r, None) /\ UNCHANGED receipt
       ELSE Answers(r, x) /\ receipt' = [receipt EXCEPT ![x] = Applied(rc, body)]
  /\ UNCHANGED <<left, revision, cookie, tab, doomed>>

\* The answer carries the state, and the cookie unless it was stale.
Receive(r) ==
  LET x == req[r].held
      t == req[r].arg.body.tab IN
  /\ At(r, "choice", "answer")
  /\ IF x = None THEN UNCHANGED cookie ELSE cookie' = IF Found(x) THEN x ELSE cookie
  /\ tab' = [tab EXCEPT ![t] = State(IF x = None THEN req[r].arg.cookie ELSE x)]
  /\ Ends(r)
  /\ UNCHANGED <<left, revision, receipt, doomed>>

\* Throttled, the database unavailable, or the answer lost.
Fail(r) ==
  /\ req[r].op = "choice"
  /\ Ends(r)
  /\ UNCHANGED <<left, privacyVars>>

-------------------------------------------------------------------------------
(* The manifest changes, choices expire, and prune_privacy_evidence removes  *)
(* evidence that is older than every choice may live.                        *)

ReviseManifest ==
  /\ revision < MaxRev
  /\ Call("world")
  /\ revision' = revision + 1
  /\ UNCHANGED <<req, receipt, cookie, tab, doomed>>

ChoicesExpire(x) ==
  /\ Found(x) /\ \E p \in Purposes : receipt[x].choice[p].live
  /\ Call("world")
  /\ receipt' = [receipt EXCEPT ![x].choice =
                   [p \in Purposes |-> [receipt[x].choice[p] EXCEPT !.live = FALSE]]]
  /\ UNCHANGED <<req, revision, cookie, tab, doomed>>

Expired(x) == Found(x) /\ \A p \in Purposes : ~receipt[x].choice[p].live

PruneEvidence(x) ==
  /\ Expired(x) /\ x \notin doomed
  /\ Call("world")
  /\ receipt' = [receipt EXCEPT ![x].choice = [p \in Purposes |-> NoChoice], ![x].log = <<>>]
  /\ doomed' = doomed \cup {x}
  /\ UNCHANGED <<req, revision, cookie, tab>>

\* Deleting the receipts found empty takes what was written since with it.
PruneReceipts ==
  /\ doomed # {}
  /\ receipt' = [x \in Receipts |-> IF x \in doomed THEN None ELSE receipt[x]]
  /\ doomed' = {}
  /\ UNCHANGED <<req, left, revision, cookie, tab>>

Bodies == UNION {[P -> {"granted", "refused"}] : P \in SUBSET Purposes}

PrivacyStep ==
  \/ \E t \in Tabs : Render(t)
  \/ \E r \in Requests, t \in Tabs, choices \in Bodies : Send(r, t, choices)
  \/ \E r \in Requests, other \in Requests : Resend(r, other)
  \/ \E r \in Requests : Resolve(r)
  \/ \E r \in Requests : Apply(r)
  \/ \E r \in Requests : Receive(r)
  \/ \E r \in Requests : Fail(r)
  \/ ReviseManifest
  \/ \E x \in Receipts : ChoicesExpire(x)
  \/ \E x \in Receipts : PruneEvidence(x)
  \/ PruneReceipts
===============================================================================
