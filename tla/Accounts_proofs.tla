---------------------------- MODULE Accounts_proofs ----------------------------
(***************************************************************************)
(* Accounts, for any number of requests, vouchers, recovery requests,      *)
(* browsers and receipts: the transactions that spend a voucher, the       *)
(* window a recovery token logs in, and the sequence a privacy grant has   *)
(* seen. The steps of five modules share the table of requests; most of    *)
(* them leave alone the requests an invariant speaks of.                   *)
(***************************************************************************)
EXTENDS Accounts, TLAPS

-------------------------------------------------------------------------------
(* The requests.                                                             *)

IsRequest(q) == q = [op |-> q.op, pc |-> q.pc, arg |-> q.arg, policy |-> q.policy,
                     epoch |-> q.epoch, held |-> q.held, call |-> q.call]

RequestsTyped ==
  req = [r \in Requests |-> req[r]] /\ \A r \in Requests : IsRequest(req[r])

\* A step takes requests only to one of these operations.
Enters(ops) ==
  /\ RequestsTyped'
  /\ \A r \in Requests : req'[r] = req[r] \/ req'[r].op \in ops

\* A step takes requests only further on their way to the policy, or ends them.
Walk == {"policy", "row", "compare", "fill", "saved", "created", "deleted", "seeded",
         "ready"}
Onward(new, q) ==
  \/ new = q
  \/ new.op = "none"
  \/ new.op = q.op /\ new.arg = q.arg /\ new.held = q.held /\ new.pc \in Walk
Walks == RequestsTyped' /\ \A r \in Requests : Onward(req'[r], req[r])

\* A request is still one when a field of it is set, and has its other fields.
LEMMA OpSet ==
  ASSUME NEW q, IsRequest(q), NEW x, NEW new, new = [q EXCEPT !.op = x]
  PROVE  IsRequest(new) /\ new.op = x /\ new.pc = q.pc /\ new.arg = q.arg /\ new.held = q.held
<1>1. new = [op |-> x, pc |-> q.pc, arg |-> q.arg, policy |-> q.policy,
             epoch |-> q.epoch, held |-> q.held, call |-> q.call]
  BY DEF IsRequest
<1> QED BY <1>1 DEF IsRequest

LEMMA PcSet ==
  ASSUME NEW q, IsRequest(q), NEW x, NEW new, new = [q EXCEPT !.pc = x]
  PROVE  IsRequest(new) /\ new.pc = x /\ new.op = q.op /\ new.arg = q.arg /\ new.held = q.held
<1>1. new = [op |-> q.op, pc |-> x, arg |-> q.arg, policy |-> q.policy,
             epoch |-> q.epoch, held |-> q.held, call |-> q.call]
  BY DEF IsRequest
<1> QED BY <1>1 DEF IsRequest

LEMMA ArgSet ==
  ASSUME NEW q, IsRequest(q), NEW x, NEW new, new = [q EXCEPT !.arg = x]
  PROVE  IsRequest(new) /\ new.arg = x /\ new.op = q.op /\ new.pc = q.pc /\ new.held = q.held
<1>1. new = [op |-> q.op, pc |-> q.pc, arg |-> x, policy |-> q.policy,
             epoch |-> q.epoch, held |-> q.held, call |-> q.call]
  BY DEF IsRequest
<1> QED BY <1>1 DEF IsRequest

LEMMA CallSet ==
  ASSUME NEW q, IsRequest(q), NEW x, NEW new, new = [q EXCEPT !.call = x]
  PROVE  IsRequest(new) /\ new.call = x /\ new.op = q.op /\ new.pc = q.pc /\ new.arg = q.arg /\ new.held = q.held
<1>1. new = [op |-> q.op, pc |-> q.pc, arg |-> q.arg, policy |-> q.policy,
             epoch |-> q.epoch, held |-> q.held, call |-> x]
  BY DEF IsRequest
<1> QED BY <1>1 DEF IsRequest

LEMMA HeldSet ==
  ASSUME NEW q, IsRequest(q), NEW x, NEW new, new = [q EXCEPT !.held = x]
  PROVE  IsRequest(new) /\ new.held = x /\ new.op = q.op /\ new.pc = q.pc /\ new.arg = q.arg
<1>1. new = [op |-> q.op, pc |-> q.pc, arg |-> q.arg, policy |-> q.policy,
             epoch |-> q.epoch, held |-> x, call |-> q.call]
  BY DEF IsRequest
<1> QED BY <1>1 DEF IsRequest

LEMMA PolicySet ==
  ASSUME NEW q, IsRequest(q), NEW x, NEW new, new = [q EXCEPT !.policy = x]
  PROVE  IsRequest(new) /\ new.policy = x /\ new.op = q.op /\ new.pc = q.pc /\ new.arg = q.arg /\ new.held = q.held
<1>1. new = [op |-> q.op, pc |-> q.pc, arg |-> q.arg, policy |-> x,
             epoch |-> q.epoch, held |-> q.held, call |-> q.call]
  BY DEF IsRequest
<1> QED BY <1>1 DEF IsRequest

LEMMA EpochSet ==
  ASSUME NEW q, IsRequest(q), NEW x, NEW new, new = [q EXCEPT !.epoch = x]
  PROVE  IsRequest(new) /\ new.epoch = x /\ new.op = q.op /\ new.pc = q.pc /\ new.arg = q.arg /\ new.held = q.held
<1>1. new = [op |-> q.op, pc |-> q.pc, arg |-> q.arg, policy |-> q.policy,
             epoch |-> x, held |-> q.held, call |-> q.call]
  BY DEF IsRequest
<1> QED BY <1>1 DEF IsRequest

\* One request changes.
Becomes(q, new) == req' = [req EXCEPT ![q] = new]

LEMMA RequestSet ==
  ASSUME RequestsTyped, NEW q, NEW new, IsRequest(new), Becomes(q, new)
  PROVE  /\ RequestsTyped'
         /\ \A r \in Requests : req'[r] = IF r = q THEN new ELSE req[r]
BY DEF RequestsTyped, Becomes

LEMMA FreeRequest == IsRequest(Free) /\ Free.op = "none" /\ Free.pc = "idle"
BY DEF IsRequest, Free

\* A request that ends is free.
LEMMA RequestEnds ==
  ASSUME RequestsTyped, NEW q, Ends(q)
  PROVE  /\ RequestsTyped'
         /\ \A r \in Requests : req'[r] = IF r = q THEN Free ELSE req[r]
<1> DEFINE free == Free
<1>1. IsRequest(free)
  BY FreeRequest
<1>2. Becomes(q, free)
  BY DEF Becomes, Ends
<1> HIDE DEF free
<1>3. /\ RequestsTyped'
      /\ \A r \in Requests : req'[r] = IF r = q THEN free ELSE req[r]
  BY <1>1, <1>2, RequestSet
<1> QED BY <1>3 DEF free

\* A request that begins has the operation it is asked for.
LEMMA RequestStarts ==
  ASSUME RequestsTyped, NEW q \in Requests, NEW op, NEW pc, NEW arg, Starts(q, op, pc, arg)
  PROVE  /\ RequestsTyped'
         /\ \A r \in Requests : r # q => req'[r] = req[r]
         /\ req'[q].op = op /\ req'[q].pc = pc /\ req'[q].arg = arg
<1> DEFINE one == [Free EXCEPT !.op = op]
           two == [one EXCEPT !.pc = pc]
           three == [two EXCEPT !.arg = arg]
           new == [three EXCEPT !.call = left[op]]
<1>1. Becomes(q, new)
  BY DEF Becomes, Starts
<1>2. IsRequest(one) /\ one.op = op
  BY FreeRequest, OpSet
<1> HIDE DEF one
<1>3. IsRequest(two) /\ two.op = op /\ two.pc = pc
  BY <1>2, PcSet
<1> HIDE DEF two
<1>4. IsRequest(three) /\ three.op = op /\ three.pc = pc /\ three.arg = arg
  BY <1>3, ArgSet
<1> HIDE DEF three
<1>5. IsRequest(new) /\ new.op = op /\ new.pc = pc /\ new.arg = arg
  BY <1>4, CallSet
<1> HIDE DEF new
<1>6. /\ RequestsTyped'
      /\ \A r \in Requests : req'[r] = IF r = q THEN new ELSE req[r]
  BY <1>1, <1>5, RequestSet
<1> QED BY <1>5, <1>6

\* A request that goes on keeps its operation, its input and what it holds.
LEMMA RequestGoes ==
  ASSUME RequestsTyped, NEW q \in Requests, NEW pc, Goes(q, pc)
  PROVE  /\ RequestsTyped'
         /\ \A r \in Requests : r # q => req'[r] = req[r]
         /\ req'[q].op = req[q].op /\ req'[q].pc = pc
         /\ req'[q].arg = req[q].arg /\ req'[q].held = req[q].held
<1> DEFINE old == req[q]
           new == [old EXCEPT !.pc = pc]
<1>1. Becomes(q, new) /\ IsRequest(old)
  BY DEF Becomes, Goes, RequestsTyped
<1> HIDE DEF old
<1>2. IsRequest(new) /\ new.op = old.op /\ new.pc = pc /\ new.arg = old.arg
      /\ new.held = old.held
  BY <1>1, PcSet
<1> HIDE DEF new
<1>3. /\ RequestsTyped'
      /\ \A r \in Requests : req'[r] = IF r = q THEN new ELSE req[r]
  BY <1>1, <1>2, RequestSet
<1> QED BY <1>2, <1>3 DEF old

\* A request that has read something holds it from then on.
Takes(q, pc, held) == req' = [req EXCEPT ![q].pc = pc, ![q].held = held]

LEMMA RequestHolds ==
  ASSUME RequestsTyped, NEW q \in Requests, NEW pc, NEW held, Takes(q, pc, held)
  PROVE  /\ RequestsTyped'
         /\ \A r \in Requests : r # q => req'[r] = req[r]
         /\ req'[q].op = req[q].op /\ req'[q].pc = pc
         /\ req'[q].arg = req[q].arg /\ req'[q].held = held
<1> DEFINE old == req[q]
           mid == [old EXCEPT !.pc = pc]
           new == [mid EXCEPT !.held = held]
<1>1. Becomes(q, new) /\ IsRequest(old)
  BY DEF Becomes, Takes, RequestsTyped
<1> HIDE DEF old
<1>2. IsRequest(mid) /\ mid.op = old.op /\ mid.pc = pc /\ mid.arg = old.arg
  BY <1>1, PcSet
<1> HIDE DEF mid
<1>3. IsRequest(new) /\ new.op = mid.op /\ new.pc = mid.pc /\ new.arg = mid.arg
      /\ new.held = held
  BY <1>2, HeldSet
<1> HIDE DEF new
<1>4. /\ RequestsTyped'
      /\ \A r \in Requests : req'[r] = IF r = q THEN new ELSE req[r]
  BY <1>1, <1>3, RequestSet
<1> QED BY <1>2, <1>3, <1>4 DEF old

\* The steps towards the policy leave a request's input and what it holds.
LEMMA PolicyWalks ==
  ASSUME RequestsTyped, PolicyStep
  PROVE  Walks
<1>1. ASSUME NEW r \in Requests, ReadCache(r)
      PROVE  Walks
  <2> DEFINE old == req[r]
             one == [old EXCEPT !.policy = cache]
             hit == [one EXCEPT !.pc = "ready"]
             two == [old EXCEPT !.epoch = epoch]
             miss == [two EXCEPT !.pc = "row"]
             new == IF cache # None THEN hit ELSE miss
  <2>1. Becomes(r, new) /\ IsRequest(old)
    BY <1>1 DEF Becomes, ReadCache, RequestsTyped
  <2> HIDE DEF old
  <2>2. IsRequest(one) /\ one.op = old.op /\ one.arg = old.arg /\ one.held = old.held
    BY <2>1, PolicySet
  <2>3. IsRequest(two) /\ two.op = old.op /\ two.arg = old.arg /\ two.held = old.held
    BY <2>1, EpochSet
  <2> HIDE DEF one, two
  <2>4. IsRequest(hit) /\ Onward(hit, old)
    <3>1. /\ IsRequest(hit) /\ hit.op = one.op /\ hit.arg = one.arg /\ hit.held = one.held
          /\ hit.pc = "ready"
      BY <2>2, PcSet, SMTT(30)
    <3> HIDE DEF hit
    <3> QED BY <2>2, <3>1 DEF Onward, Walk
  <2>5. IsRequest(miss) /\ Onward(miss, old)
    <3>1. /\ IsRequest(miss) /\ miss.op = two.op /\ miss.arg = two.arg
          /\ miss.held = two.held /\ miss.pc = "row"
      BY <2>3, PcSet, SMTT(30)
    <3> HIDE DEF miss
    <3> QED BY <2>3, <3>1 DEF Onward, Walk
  <2> HIDE DEF hit, miss
  <2>6. IsRequest(new) /\ Onward(new, old)
    BY <2>4, <2>5
  <2> HIDE DEF new
  <2>7. RequestsTyped' /\ \A q \in Requests : req'[q] = IF q = r THEN new ELSE req[q]
    BY <2>1, <2>6, RequestSet
  <2>8. ASSUME NEW q \in Requests
        PROVE  Onward(req'[q], req[q])
    BY <2>6, <2>7 DEF old, Onward
  <2> QED BY <2>7, <2>8 DEF Walks
<1>2. ASSUME NEW r \in Requests, ReadRow(r)
      PROVE  Walks
  <2> DEFINE old == req[r]
             pc == IF row = None THEN "created" ELSE "compare"
  <2>1. PICK policy : req' = [req EXCEPT ![r].policy = policy, ![r].pc = pc]
    BY <1>2 DEF ReadRow
  <2> DEFINE mid == [old EXCEPT !.policy = policy]
             new == [mid EXCEPT !.pc = pc]
  <2>2. Becomes(r, new) /\ IsRequest(old) /\ pc \in Walk
    BY <2>1 DEF Becomes, RequestsTyped, Walk
  <2> HIDE DEF old, pc
  <2>3. IsRequest(mid) /\ mid.op = old.op /\ mid.arg = old.arg /\ mid.held = old.held
    BY <2>2, PolicySet
  <2> HIDE DEF mid
  <2>4. /\ IsRequest(new) /\ new.op = mid.op /\ new.arg = mid.arg /\ new.held = mid.held
        /\ new.pc = pc
    BY <2>3, PcSet
  <2> HIDE DEF new
  <2>5. Onward(new, old)
    BY <2>2, <2>3, <2>4 DEF Onward
  <2>6. RequestsTyped' /\ \A q \in Requests : req'[q] = IF q = r THEN new ELSE req[q]
    BY <2>2, <2>4, RequestSet
  <2>7. ASSUME NEW q \in Requests
        PROVE  Onward(req'[q], req[q])
    BY <2>5, <2>6 DEF old, Onward
  <2> QED BY <2>6, <2>7 DEF Walks
<1>3. ASSUME NEW r \in Requests, NEW pc \in Walk, Goes(r, pc)
      PROVE  Walks
  <2>1. /\ RequestsTyped'
        /\ \A q \in Requests : q # r => req'[q] = req[q]
        /\ req'[r].op = req[r].op /\ req'[r].pc = pc
        /\ req'[r].arg = req[r].arg /\ req'[r].held = req[r].held
    BY <1>3, RequestGoes
  <2>2. ASSUME NEW q \in Requests
        PROVE  Onward(req'[q], req[q])
    BY <2>1 DEF Onward
  <2> QED BY <2>1, <2>2 DEF Walks
<1>4. ASSUME NEW r \in Requests, Ends(r)
      PROVE  Walks
  <2>1. /\ RequestsTyped'
        /\ \A q \in Requests : req'[q] = IF q = r THEN Free ELSE req[q]
    BY <1>4, RequestEnds
  <2>2. ASSUME NEW q \in Requests
        PROVE  Onward(req'[q], req[q])
    BY <2>1, FreeRequest DEF Onward
  <2> QED BY <2>1, <2>2 DEF Walks
<1>5. CASE req' = req
  BY <1>5 DEF Walks, Onward, RequestsTyped
<1>6. ASSUME NEW r \in Requests, CompareEpoch(r) \/ FillCache(r) \/ SavePolicy(r)
                                   \/ DeleteCached(r) \/ BumpEpoch(r)
      PROVE  Ends(r) \/ \E pc \in Walk : Goes(r, pc)
  BY <1>6 DEF CompareEpoch, FillCache, SavePolicy, DeleteCached, BumpEpoch, Walk
<1> QED BY <1>1, <1>2, <1>3, <1>4, <1>5, <1>6 DEF PolicyStep, CacheExpires

\* The ways in which the other steps change a request: it begins one of ops,
\* or ends, or goes on with what it holds or with something new.
Acts(r, ops) ==
  \/ \E op \in ops : \E pc, arg : Starts(r, op, pc, arg)
  \/ Ends(r)
  \/ /\ req[r].op \in ops
     /\ \E pc, held : Goes(r, pc) \/ Takes(r, pc, held)

LEMMA ActsEnter ==
  ASSUME RequestsTyped, NEW r \in Requests, NEW ops, Acts(r, ops), "none" \in ops
  PROVE  Enters(ops)
<1>1. ASSUME NEW op \in ops, NEW pc, NEW arg, Starts(r, op, pc, arg)
      PROVE  Enters(ops)
  <2>1. /\ RequestsTyped'
        /\ \A q \in Requests : q # r => req'[q] = req[q]
        /\ req'[r].op = op
    BY <1>1, RequestStarts
  <2> QED BY <2>1 DEF Enters
<1>2. CASE Ends(r)
  <2>1. /\ RequestsTyped'
        /\ \A q \in Requests : req'[q] = IF q = r THEN Free ELSE req[q]
    BY <1>2, RequestEnds
  <2> QED BY <2>1, FreeRequest DEF Enters
<1>3. ASSUME req[r].op \in ops, NEW pc, Goes(r, pc)
      PROVE  Enters(ops)
  <2>1. /\ RequestsTyped'
        /\ \A q \in Requests : q # r => req'[q] = req[q]
        /\ req'[r].op = req[r].op
    BY <1>3, RequestGoes
  <2> QED BY <1>3, <2>1 DEF Enters
<1>4. ASSUME req[r].op \in ops, NEW pc, NEW held, Takes(r, pc, held)
      PROVE  Enters(ops)
  <2>1. /\ RequestsTyped'
        /\ \A q \in Requests : q # r => req'[q] = req[q]
        /\ req'[r].op = req[r].op
    BY <1>4, RequestHolds
  <2> QED BY <1>4, <2>1 DEF Enters
<1> QED BY <1>1, <1>2, <1>3, <1>4 DEF Acts

LEMMA NoneEnters ==
  ASSUME RequestsTyped, req' = req, NEW ops
  PROVE  Enters(ops)
BY DEF RequestsTyped, Enters

Sessional == {"none", "patch", "save", "edit", "role"}

LEMMA SessionEnters ==
  ASSUME RequestsTyped, SessionStep
  PROVE  Enters(Sessional)
<1>1. CASE req' = req
  BY <1>1, NoneEnters
<1>2. ASSUME NEW r \in Requests, NEW b \in Browsers, NEW edit \in Edits,
             BeginPatch(r, b, edit)
      PROVE  Acts(r, Sessional)
  BY <1>2 DEF BeginPatch, Acts, Sessional
<1>3. ASSUME NEW r \in Requests, GatePatch(r)
      PROVE  Enters(Sessional)
  <2>1. CASE Ends(r)
    <3>1. Acts(r, Sessional) /\ "none" \in Sessional
      BY <2>1 DEF Acts, Sessional
    <3> QED BY <3>1, ActsEnter
  <2>2. CASE req' = [req EXCEPT ![r].op = "save", ![r].pc = "policy"]
    <3> DEFINE old == req[r]
               mid == [old EXCEPT !.op = "save"]
               new == [mid EXCEPT !.pc = "policy"]
    <3>1. Becomes(r, new) /\ IsRequest(old)
      BY <2>2 DEF Becomes, RequestsTyped
    <3> HIDE DEF old
    <3>2. IsRequest(mid) /\ mid.op = "save"
      BY <3>1, OpSet
    <3> HIDE DEF mid
    <3>3. IsRequest(new) /\ new.op = mid.op
      BY <3>2, PcSet
    <3> HIDE DEF new
    <3>4. /\ RequestsTyped'
          /\ \A q \in Requests : req'[q] = IF q = r THEN new ELSE req[q]
      BY <3>1, <3>3, RequestSet
    <3> QED BY <3>2, <3>3, <3>4 DEF Enters, Sessional
  <2> QED BY <1>3, <2>1, <2>2 DEF GatePatch
<1>4. ASSUME NEW r \in Requests, NEW b \in Browsers, NEW e \in Emails, NEW a \in BOOLEAN,
             BeginEdit(r, b, e, a)
      PROVE  Acts(r, Sessional)
  BY <1>4 DEF BeginEdit, Acts, Sessional
<1>5. ASSUME NEW r \in Requests, NEW b \in Browsers, NEW e \in Emails, NEW level \in 0 .. 3,
             BeginRole(r, b, e, level)
      PROVE  Acts(r, Sessional)
  BY <1>5 DEF BeginRole, Acts, Sessional
<1>6. ASSUME NEW r \in Requests, LoadEdit(r) \/ LoadRole(r)
      PROVE  Acts(r, Sessional)
  <2>1. req[r].op \in Sessional
    BY <1>6 DEF LoadEdit, LoadRole, At, Sessional
  <2>2. Ends(r) \/ \E pc, held : Takes(r, pc, held)
    BY <1>6 DEF Takes, LoadEdit, LoadRole
  <2> QED BY <2>1, <2>2 DEF Acts
<1>7. ASSUME NEW r \in Requests, SaveUser(r) \/ SaveRole(r)
      PROVE  Acts(r, Sessional)
  BY <1>7 DEF SaveUser, SaveRole, Acts
<1>8. \/ req' = req \/ \E r \in Requests : GatePatch(r)
      \/ \E r \in Requests : Acts(r, Sessional)
  <2>1. CASE \/ \E b \in Browsers, e \in Emails,
                  how \in {"password", "social", "mfa", "passkey"} : SignIn(b, e, how)
             \/ \E b \in Browsers : SignOut(b)
             \/ \E b \in Browsers, f \in Factors : Enroll(b, f)
             \/ \E b \in Browsers : RemovePasskey(b)
    BY <2>1 DEF SignIn, SignOut, Enroll, RemovePasskey
  <2> QED BY <1>2, <1>4, <1>5, <1>6, <1>7, <2>1 DEF SessionStep
<1>9. "none" \in Sessional
  BY DEF Sessional
<1> QED BY <1>1, <1>3, <1>8, <1>9, ActsEnter

Grounds == {"none", "choice"}

LEMMA PrivacyEnters ==
  ASSUME RequestsTyped, PrivacyStep
  PROVE  Enters(Grounds)
<1>1. CASE req' = req
  BY <1>1, NoneEnters
<1>2. ASSUME NEW r \in Requests, NEW t \in Tabs, NEW choices \in Bodies, Send(r, t, choices)
      PROVE  Acts(r, Grounds)
  BY <1>2 DEF Send, Acts, Grounds
<1>3. ASSUME NEW r \in Requests, NEW other \in Requests, Resend(r, other)
      PROVE  Acts(r, Grounds)
  BY <1>3 DEF Resend, Acts, Grounds
<1>4. ASSUME NEW r \in Requests, Resolve(r)
      PROVE  Enters(Grounds)
  <2> DEFINE old == req[r]
             arg == old.arg
             pc == IF arg.body.revision # revision THEN "answer" ELSE "apply"
             held == IF arg.body.revision # revision THEN None
                     ELSE IF Found(arg.cookie) THEN arg.cookie ELSE None
             mid == [old EXCEPT !.pc = pc]
             new == [mid EXCEPT !.held = held]
  <2>1. Becomes(r, new) /\ IsRequest(old) /\ old.op = "choice"
    BY <1>4 DEF Becomes, Resolve, At, RequestsTyped
  <2> HIDE DEF old, pc, held
  <2>2. IsRequest(mid) /\ mid.op = old.op
    BY <2>1, PcSet
  <2> HIDE DEF mid
  <2>3. IsRequest(new) /\ new.op = mid.op
    BY <2>2, HeldSet
  <2> HIDE DEF new
  <2>4. /\ RequestsTyped'
        /\ \A q \in Requests : req'[q] = IF q = r THEN new ELSE req[q]
    BY <2>1, <2>3, RequestSet
  <2> QED BY <2>1, <2>2, <2>3, <2>4 DEF Enters, Grounds
<1>5. ASSUME NEW r \in Requests, Apply(r)
      PROVE  Acts(r, Grounds)
  <2>1. req[r].op \in Grounds /\ \E x : Answers(r, x)
    BY <1>5 DEF Apply, At, Grounds
  <2>2. PICK x : Answers(r, x)
    BY <2>1
  <2>3. Takes(r, "answer", x)
    BY <2>2 DEF Answers, Takes
  <2> QED BY <2>1, <2>3 DEF Acts
<1>6. ASSUME NEW r \in Requests, Receive(r) \/ Fail(r)
      PROVE  Acts(r, Grounds)
  BY <1>6 DEF Receive, Fail, Acts
<1>7. \/ req' = req \/ \E r \in Requests : Resolve(r)
      \/ \E r \in Requests : Acts(r, Grounds)
  <2>1. CASE \/ \E t \in Tabs : Render(t)
             \/ ReviseManifest
             \/ \E x \in Receipts : ChoicesExpire(x)
             \/ \E x \in Receipts : PruneEvidence(x)
             \/ PruneReceipts
    BY <2>1 DEF Render, ReviseManifest, ChoicesExpire, PruneEvidence, PruneReceipts
  <2> QED BY <1>2, <1>3, <1>5, <1>6, <2>1 DEF PrivacyStep
<1>8. "none" \in Grounds
  BY DEF Grounds
<1> QED BY <1>1, <1>4, <1>7, <1>8, ActsEnter

Signs == {"none", "voucher", "ask", "invite", "password"}

\* Confirmations apart, these are the ways of a request in Signup.
Confirms(r) ==
  \/ \E token : BeginConfirm(r, token)
  \/ CheckConfirm(r) \/ Consume(r) \/ CreateUser(r) \/ RollBack(r)

LEMMA SignupActs ==
  ASSUME SignupStep
  PROVE  \/ req' = req
         \/ \E r \in Requests : Acts(r, Signs)
         \/ \E r \in Requests : Confirms(r)
<1>1. CASE \/ \E v \in Qrs : ExpireQr(v)
           \/ \E b \in Browsers, e \in Emails : InviteLink(b, e)
           \/ \E e \in Emails : ResetRequest(e)
           \/ MailExpires
  BY <1>1 DEF ExpireQr, InviteLink, ResetRequest, MailExpires
<1>2. ASSUME NEW r \in Requests,
             SetCode(r) \/ CreateQr(r) \/ RegisterRequest(r) \/ MarkInvited(r)
               \/ SetPassword(r) \/ Refuse(r)
      PROVE  Acts(r, Signs)
  BY <1>2 DEF SetCode, CreateQr, RegisterRequest, MarkInvited, SetPassword, Refuse, Acts
<1>3. ASSUME NEW r \in Requests, NEW b \in Browsers, NEW v \in Vouchers, NEW a \in BOOLEAN,
             BeginVoucher(r, b, v, a)
      PROVE  Acts(r, Signs)
  BY <1>3 DEF BeginVoucher, Acts, Signs
<1>4. ASSUME NEW r \in Requests, NEW e \in Emails, NEW mode \in Modes,
             NEW v \in Vouchers \cup {None}, BeginAsk(r, e, mode, v)
      PROVE  Acts(r, Signs)
  BY <1>4 DEF BeginAsk, Acts, Signs
<1>5. ASSUME NEW r \in Requests, NEW b \in Browsers, NEW e \in Emails, BeginInvite(r, b, e)
      PROVE  Acts(r, Signs)
  BY <1>5 DEF BeginInvite, Acts, Signs
<1>6. ASSUME NEW r \in Requests, NEW l \in links, BeginSetPassword(r, l)
      PROVE  Acts(r, Signs)
  BY <1>6 DEF BeginSetPassword, Acts, Signs
<1>7. ASSUME NEW r \in Requests, Invite(r) \/ CheckLink(r)
      PROVE  Acts(r, Signs)
  <2>1. req[r].op \in Signs
    BY <1>7 DEF Invite, CheckLink, At, Signs
  <2>2. Ends(r) \/ \E pc, held : Takes(r, pc, held)
    BY <1>7 DEF Takes, Invite, CheckLink
  <2> QED BY <2>1, <2>2 DEF Acts
<1>8. ASSUME NEW r \in Requests, NEW token \in pending, BeginConfirm(r, token)
      PROVE  Confirms(r)
  BY <1>8 DEF Confirms
<1>9. ASSUME NEW r \in Requests, CheckConfirm(r) \/ Consume(r) \/ CreateUser(r) \/ RollBack(r)
      PROVE  Confirms(r)
  BY <1>9 DEF Confirms
<1> QED BY <1>1, <1>2, <1>3, <1>4, <1>5, <1>6, <1>7, <1>8, <1>9 DEF SignupStep

LEMMA ConfirmActs ==
  ASSUME NEW r \in Requests, Confirms(r)
  PROVE  Acts(r, {"none", "confirm"})
<1> DEFINE ops == {"none", "confirm"}
<1>1. ASSUME NEW token, BeginConfirm(r, token)
      PROVE  Acts(r, ops)
  BY <1>1 DEF BeginConfirm, Acts
<1>2. CASE CheckConfirm(r) \/ CreateUser(r) \/ RollBack(r)
  BY <1>2 DEF CheckConfirm, CreateUser, RollBack, At, Acts
<1>3. CASE Consume(r)
  <2>1. req[r].op \in ops
    BY <1>3 DEF Consume, At
  <2>2. Ends(r) \/ \E pc, held : Takes(r, pc, held)
    BY <1>3 DEF Takes, Consume
  <2> QED BY <2>1, <2>2 DEF Acts
<1> QED BY <1>1, <1>2, <1>3 DEF Confirms

Supports == {"none", "approve", "reject", "login"}

LEMMA RecoveryEnters ==
  ASSUME RequestsTyped, RecoveryStep
  PROVE  Enters(Supports)
<1>1. CASE req' = req
  BY <1>1, NoneEnters
<1>2. ASSUME NEW r \in Requests, NEW op \in {"approve", "reject"}, NEW b \in Browsers,
             NEW x \in Recoveries, BeginSupport(r, op, b, x)
      PROVE  Acts(r, Supports)
  BY <1>2 DEF BeginSupport, Acts, Supports
<1>3. ASSUME NEW r \in Requests, NEW b \in Browsers, NEW e \in Emails, BeginLogin(r, b, e)
      PROVE  Acts(r, Supports)
  BY <1>3 DEF BeginLogin, Acts, Supports
<1>4. ASSUME NEW r \in Requests,
             Approve(r) \/ Reject(r) \/ MarkExpired(r) \/ WrongCredentials(r)
               \/ MarkCompleted(r)
      PROVE  Acts(r, Supports)
  BY <1>4 DEF Approve, Reject, MarkExpired, WrongCredentials, MarkCompleted, Acts
<1>5. ASSUME NEW r \in Requests, LoadSupport(r) \/ LookUp(r)
      PROVE  Acts(r, Supports)
  <2>1. req[r].op \in Supports
    BY <1>5 DEF LoadSupport, LookUp, At, Supports
  <2>2. Ends(r) \/ \E pc, held : Takes(r, pc, held)
    BY <1>5 DEF Takes, LoadSupport, LookUp
  <2> QED BY <2>1, <2>2 DEF Acts
<1>6. ASSUME NEW r \in Requests, RecoveryLogin(r)
      PROVE  Acts(r, Supports)
  BY <1>6 DEF RecoveryLogin, At, Acts, Supports
<1>7. req' = req \/ \E r \in Requests : Acts(r, Supports)
  <2>1. CASE \/ \E x \in Recoveries, e \in Emails : AskHelp(x, e)
             \/ \E x \in Recoveries, b \in Browsers : AskHelpSignedIn(x, b)
             \/ \E b \in Browsers, x \in Recoveries : OpenLink(b, x)
             \/ \E b \in Browsers : TakeToken(b)
             \/ Tick
    BY <2>1 DEF AskHelp, AskHelpSignedIn, OpenLink, TakeToken, Tick
  <2> QED BY <1>2, <1>3, <1>4, <1>5, <1>6, <2>1 DEF RecoveryStep
<1>8. "none" \in Supports
  BY DEF Supports
<1> QED BY <1>1, <1>7, <1>8, ActsEnter

-------------------------------------------------------------------------------
(* VouchersAdmit.                                                            *)

\* A transaction that has spent a voucher and has still to create the account.
Spender(q) == q.op = "confirm" /\ q.pc = "create" /\ q.held.spent

\* It has the voucher locked, and the use it took is still on it.
HoldsVoucher(r) ==
  LET v == req[r].arg.voucher IN
  v \in Vouchers /\ lock[v] = r /\ voucher[v] > 0

Admits ==
  /\ voucher \in [Vouchers -> Nat]
  /\ issued \in [Vouchers -> Nat]
  /\ charged \in [Vouchers -> Nat]
  /\ lock \in [Vouchers -> Requests \cup {None}]
  /\ VouchersAdmit

VouchInv ==
  /\ RequestsTyped
  /\ Admits
  /\ \A r \in Requests : Spender(req[r]) => HoldsVoucher(r)

\* No request becomes one that has spent a voucher.
Calm ==
  /\ RequestsTyped'
  /\ \A r \in Requests : req'[r] = req[r] \/ ~Spender(req'[r])

LEMMA WalksAreCalm == ASSUME Walks PROVE Calm
BY DEF Walks, Onward, Walk, Calm, Spender

LEMMA EntersAreCalm ==
  ASSUME NEW ops, "confirm" \notin ops, Enters(ops)
  PROVE  Calm
BY DEF Enters, Calm, Spender

LEMMA VouchersUntouched ==
  ASSUME VouchInv, Calm, UNCHANGED <<voucher, lock, issued, charged>>
  PROVE  VouchInv'
<1>1. RequestsTyped'
  BY DEF Calm
<1>2. Admits'
  BY DEF VouchInv, Admits, VouchersAdmit
<1>3. ASSUME NEW r \in Requests, Spender(req[r])'
      PROVE  HoldsVoucher(r)'
  <2>1. req'[r] = req[r]
    BY <1>3 DEF Calm, Spender
  <2>2. HoldsVoucher(r)
    BY <1>3, <2>1 DEF VouchInv, Spender
  <2> QED BY <2>1, <2>2 DEF HoldsVoucher
<1> QED BY <1>1, <1>2, <1>3 DEF VouchInv

\* Only a voucher that no transaction has locked is put to another number.
LEMMA VoucherPut ==
  ASSUME VouchInv, Calm, NEW v \in Vouchers, NEW uses \in Nat, Put(v, uses),
         UNCHANGED <<lock, charged>>
  PROVE  VouchInv'
<1>1. RequestsTyped'
  BY DEF Calm
<1> USE DEF VouchInv, Admits
<1>2. issued[v] - voucher[v] = charged[v] /\ issued[v] \in Nat /\ voucher[v] \in Nat
      /\ charged[v] \in Nat
  BY DEF VouchersAdmit
<1>3. issued[v] + uses - voucher[v] = charged[v] + uses
  BY <1>2
<1>4. voucher' = [voucher EXCEPT ![v] = uses] /\ issued' = [issued EXCEPT ![v] = charged[v] + uses]
  BY <1>3 DEF Put
<1>5. Admits'
  <2>1. voucher' \in [Vouchers -> Nat] /\ issued' \in [Vouchers -> Nat]
        /\ charged' \in [Vouchers -> Nat] /\ lock' \in [Vouchers -> Requests \cup {None}]
    BY <1>2, <1>4
  <2>2. ASSUME NEW w \in Vouchers
        PROVE  charged'[w] <= issued'[w] /\ voucher'[w] = issued'[w] - charged'[w]
    BY <1>2, <1>4 DEF VouchersAdmit
  <2> QED BY <2>1, <2>2 DEF VouchersAdmit
<1>6. ASSUME NEW r \in Requests, Spender(req[r])'
      PROVE  HoldsVoucher(r)'
  <2>1. req'[r] = req[r]
    BY <1>6 DEF Calm, Spender
  <2>2. HoldsVoucher(r)
    BY <1>6, <2>1 DEF Spender
  <2>3. req[r].arg.voucher # v
    BY <2>2, ServerAssumption DEF HoldsVoucher, Put
  <2> QED BY <1>4, <2>1, <2>2, <2>3 DEF HoldsVoucher
<1> QED BY <1>1, <1>5, <1>6

LEMMA VouchInitially == Init => VouchInv
<1> SUFFICES ASSUME Init PROVE VouchInv
  OBVIOUS
<1>1. RequestsTyped /\ \A r \in Requests : ~Spender(req[r])
  BY FreeRequest DEF Init, ServerInit, RequestsTyped, Spender
<1>2. Admits
  BY DEF Init, SignupInit, Admits, VouchersAdmit
<1> QED BY <1>1, <1>2 DEF VouchInv

\* The lock is what makes it safe to check the number and count it down later.
LEMMA ConsumeKeeps ==
  ASSUME VouchInv, NEW r \in Requests, Consume(r)
  PROVE  VouchInv'
<1> DEFINE token == req[r].arg
           v == token.voucher
           spends == Spends(token, req[r].policy)
<1>1. CASE Ends(r)
  <2>1. /\ RequestsTyped'
        /\ \A q \in Requests : req'[q] = IF q = r THEN Free ELSE req[q]
    BY <1>1, RequestEnds DEF VouchInv
  <2>2. Calm
    BY <2>1, FreeRequest DEF Calm, Spender
  <2>3. CASE UNCHANGED lock
    BY <2>2, <2>3, VouchersUntouched DEF Consume
  <2>4. CASE spends /\ voucher[v] > 0
    <3>1. Takes(r, "create", [spent |-> spends])
      BY <2>4 DEF Consume, Takes
    <3>2. \E held : Takes(r, "create", held)
      BY <3>1
    <3>3. req'[r].pc = "create"
      BY <3>2, RequestHolds DEF VouchInv
    <3> QED BY <2>1, <3>3, FreeRequest
  <2> QED BY <2>3, <2>4 DEF Consume
<1>2. CASE ~spends /\ ~Ends(r)
  <2>1. Takes(r, "create", [spent |-> FALSE]) /\ lock' = lock
    <3>1. spends = FALSE
      BY <1>2 DEF Spends
    <3> QED BY <1>2, <3>1 DEF Consume, Takes
  <2> DEFINE held == [spent |-> FALSE]
  <2>2. ~held.spent
    OBVIOUS
  <2>3. Takes(r, "create", held)
    BY <2>1
  <2> HIDE DEF held
  <2>4. /\ RequestsTyped'
        /\ \A q \in Requests : q # r => req'[q] = req[q]
        /\ req'[r].held = held
    <3>1. RequestsTyped
      BY DEF VouchInv
    <3> QED BY <2>3, <3>1, RequestHolds
  <2>5. Calm
    BY <2>2, <2>4 DEF Calm, Spender
  <2> QED BY <2>1, <2>5, VouchersUntouched DEF Consume
<1>3. CASE spends /\ ~Ends(r)
  <2>1. voucher[v] > 0 /\ lock[v] = None /\ lock' = [lock EXCEPT ![v] = r]
        /\ UNCHANGED <<voucher, issued, charged>>
    BY <1>3 DEF Consume
  <2>2. v \in Vouchers
    BY <1>3 DEF Spends, Vouchers
  <2> DEFINE held == [spent |-> spends]
  <2>3. Takes(r, "create", held)
    BY <1>3 DEF Consume, Takes
  <2> HIDE DEF held
  <2>4. /\ RequestsTyped'
        /\ \A q \in Requests : q # r => req'[q] = req[q]
        /\ req'[r].arg = token
    BY <2>3, RequestHolds DEF VouchInv
  <2>5. lock' \in [Vouchers -> Requests \cup {None}] /\ lock'[v] = r
        /\ \A w \in Vouchers : w # v => lock'[w] = lock[w]
    BY <2>1, <2>2 DEF VouchInv, Admits
  <2>6. Admits'
    BY <2>1, <2>5 DEF VouchInv, Admits, VouchersAdmit
  <2>7. ASSUME NEW q \in Requests, Spender(req[q])'
        PROVE  HoldsVoucher(q)'
    <3>1. CASE q = r
      BY <2>1, <2>2, <2>4, <2>5, <3>1 DEF HoldsVoucher
    <3>2. CASE q # r
      <4>1. req'[q] = req[q]
        BY <2>4, <3>2
      <4>2. HoldsVoucher(q)
        BY <2>7, <4>1 DEF VouchInv, Spender
      <4>3. req[q].arg.voucher # v
        BY <2>1, <4>2, ServerAssumption DEF HoldsVoucher
      <4> QED BY <2>1, <2>5, <4>1, <4>2, <4>3 DEF HoldsVoucher
    <3> QED BY <3>1, <3>2
  <2> QED BY <2>4, <2>6, <2>7 DEF VouchInv
<1> QED BY <1>1, <1>2, <1>3

\* The end of a transaction unlocks what it had locked and no more.
LEMMA TransactionEnds ==
  ASSUME VouchInv, NEW r \in Requests, Ends(r), lock' = Unlocked(r)
  PROVE  /\ RequestsTyped'
         /\ lock' \in [Vouchers -> Requests \cup {None}]
         /\ \A q \in Requests : Spender(req[q])' =>
              /\ q # r /\ req'[q] = req[q] /\ HoldsVoucher(q)
              /\ lock'[req[q].arg.voucher] = q
<1>1. /\ RequestsTyped'
      /\ \A q \in Requests : req'[q] = IF q = r THEN Free ELSE req[q]
  BY RequestEnds DEF VouchInv
<1>2. lock' \in [Vouchers -> Requests \cup {None}]
  BY DEF VouchInv, Admits, Unlocked
<1>3. ASSUME NEW q \in Requests, Spender(req[q])'
      PROVE  /\ q # r /\ req'[q] = req[q] /\ HoldsVoucher(q)
             /\ lock'[req[q].arg.voucher] = q
  <2>1. q # r
    BY <1>1, <1>3, FreeRequest DEF Spender
  <2>2. req'[q] = req[q]
    BY <1>1, <2>1
  <2>3. HoldsVoucher(q)
    BY <1>3, <2>2 DEF VouchInv, Spender
  <2> QED BY <2>1, <2>2, <2>3 DEF HoldsVoucher, Unlocked
<1> QED BY <1>1, <1>2, <1>3

LEMMA RollBackKeeps ==
  ASSUME VouchInv, NEW r \in Requests, RollBack(r)
  PROVE  VouchInv'
<1>1. Ends(r) /\ lock' = Unlocked(r) /\ UNCHANGED <<voucher, issued, charged>>
  BY DEF RollBack
<1>2. Admits'
  BY <1>1, TransactionEnds DEF VouchInv, Admits, VouchersAdmit
<1>3. ASSUME NEW q \in Requests, Spender(req[q])'
      PROVE  HoldsVoucher(q)'
  BY <1>1, <1>3, TransactionEnds DEF HoldsVoucher
<1>4. RequestsTyped'
  BY <1>1, TransactionEnds
<1> QED BY <1>2, <1>3, <1>4 DEF VouchInv

LEMMA CreateUserKeeps ==
  ASSUME VouchInv, NEW r \in Requests, CreateUser(r)
  PROVE  VouchInv'
<1> DEFINE v == req[r].arg.voucher
<1>1. Ends(r) /\ lock' = Unlocked(r) /\ issued' = issued
  BY DEF CreateUser
<1>2. /\ RequestsTyped'
      /\ lock' \in [Vouchers -> Requests \cup {None}]
      /\ \A q \in Requests : Spender(req[q])' =>
           /\ q # r /\ req'[q] = req[q] /\ HoldsVoucher(q)
           /\ lock'[req[q].arg.voucher] = q
  BY <1>1, TransactionEnds
<1>3. CASE req[r].held.spent
  <2>1. voucher' = [voucher EXCEPT ![v] = @ - 1] /\ charged' = [charged EXCEPT ![v] = @ + 1]
    BY <1>3 DEF CreateUser
  <2>2. v \in Vouchers /\ lock[v] = r /\ voucher[v] > 0
    BY <1>3 DEF CreateUser, At, VouchInv, Spender, HoldsVoucher
  <2>3. voucher \in [Vouchers -> Nat] /\ charged \in [Vouchers -> Nat]
        /\ issued \in [Vouchers -> Nat] /\ VouchersAdmit
    BY DEF VouchInv, Admits
  <2>4. voucher' \in [Vouchers -> Nat] /\ charged' \in [Vouchers -> Nat]
        /\ issued' \in [Vouchers -> Nat]
    BY <1>1, <2>1, <2>2, <2>3
  <2>5. ASSUME NEW w \in Vouchers
        PROVE  charged'[w] <= issued'[w] /\ voucher'[w] = issued'[w] - charged'[w]
    BY <1>1, <2>1, <2>2, <2>3 DEF VouchersAdmit
  <2>6. Admits'
    BY <1>2, <2>4, <2>5 DEF Admits, VouchersAdmit
  <2>7. ASSUME NEW q \in Requests, Spender(req[q])'
        PROVE  HoldsVoucher(q)'
    <3>1. q # r /\ req'[q] = req[q] /\ HoldsVoucher(q) /\ lock'[req[q].arg.voucher] = q
      BY <1>2, <2>7
    <3>2. req[q].arg.voucher # v
      BY <2>2, <3>1 DEF HoldsVoucher
    <3> QED BY <2>1, <2>3, <3>1, <3>2 DEF HoldsVoucher
  <2> QED BY <1>2, <2>6, <2>7 DEF VouchInv
<1>4. CASE ~req[r].held.spent
  <2>1. UNCHANGED <<voucher, issued, charged>>
    BY <1>4 DEF CreateUser
  <2>2. Admits'
    BY <1>2, <2>1 DEF VouchInv, Admits, VouchersAdmit
  <2>3. ASSUME NEW q \in Requests, Spender(req[q])'
        PROVE  HoldsVoucher(q)'
    BY <1>2, <2>1, <2>3 DEF HoldsVoucher
  <2> QED BY <1>2, <2>2, <2>3 DEF VouchInv
<1> QED BY <1>3, <1>4

Transacts(r) == Consume(r) \/ CreateUser(r) \/ RollBack(r)

LEMMA SignupIsCalm ==
  ASSUME RequestsTyped, SignupStep, ~\E r \in Requests : Transacts(r)
  PROVE  Calm
<1>1. ASSUME NEW r \in Requests, Acts(r, Signs)
      PROVE  Calm
  <2>1. "none" \in Signs /\ "confirm" \notin Signs
    BY DEF Signs
  <2>2. Enters(Signs)
    BY <1>1, <2>1, ActsEnter
  <2> QED BY <2>1, <2>2, EntersAreCalm
<1>2. CASE req' = req
  BY <1>2 DEF Calm, RequestsTyped
<1>3. ASSUME NEW r \in Requests, NEW token, BeginConfirm(r, token)
      PROVE  Calm
  <2>1. /\ RequestsTyped'
        /\ \A q \in Requests : q # r => req'[q] = req[q]
        /\ req'[r].pc = "check"
    BY <1>3, RequestStarts DEF BeginConfirm
  <2> QED BY <2>1 DEF Calm, Spender
<1>4. ASSUME NEW r \in Requests, CheckConfirm(r)
      PROVE  Calm
  <2>1. CASE Ends(r)
    <3>1. /\ RequestsTyped'
          /\ \A q \in Requests : req'[q] = IF q = r THEN Free ELSE req[q]
      BY <2>1, RequestEnds
    <3> QED BY <3>1, FreeRequest DEF Calm, Spender
  <2>2. CASE Goes(r, "policy")
    <3>1. /\ RequestsTyped'
          /\ \A q \in Requests : q # r => req'[q] = req[q]
          /\ req'[r].pc = "policy"
      BY <2>2, RequestGoes
    <3> QED BY <3>1 DEF Calm, Spender
  <2> QED BY <1>4, <2>1, <2>2 DEF CheckConfirm
<1> QED BY <1>1, <1>2, <1>3, <1>4, SignupActs DEF Confirms, Transacts

\* What else a step of Signup does to the vouchers is to put one to a number.
LEMMA SignupPuts ==
  ASSUME SignupStep, ~\E r \in Requests : Transacts(r)
  PROVE  \/ UNCHANGED <<voucher, lock, issued, charged>>
         \/ /\ \E v \in Vouchers, uses \in Nat : Put(v, uses)
            /\ UNCHANGED <<lock, charged>>
<1>1. ASSUME NEW r \in Requests, SetCode(r)
      PROVE  /\ \E v \in Vouchers, uses \in Nat : Put(v, uses)
             /\ UNCHANGED <<lock, charged>>
  <2>1. req[r].arg.voucher \in Vouchers
    BY <1>1 DEF SetCode, Vouchers
  <2>2. Put(req[r].arg.voucher, 1) \/ Put(req[r].arg.voucher, 0)
    BY <1>1 DEF SetCode
  <2> QED BY <1>1, <2>1, <2>2 DEF SetCode
<1>2. ASSUME NEW r \in Requests, CreateQr(r)
      PROVE  /\ \E v \in Vouchers, uses \in Nat : Put(v, uses)
             /\ UNCHANGED <<lock, charged>>
  <2>1. req[r].arg.voucher \in Vouchers /\ MaxUses \in Nat
    BY <1>2, SignupAssumption DEF CreateQr, Vouchers
  <2> QED BY <1>2, <2>1 DEF CreateQr
<1>3. ASSUME NEW v \in Qrs, ExpireQr(v)
      PROVE  /\ \E w \in Vouchers, uses \in Nat : Put(w, uses)
             /\ UNCHANGED <<lock, charged>>
  BY <1>3 DEF ExpireQr, Vouchers
<1>4. CASE \/ \E r \in Requests, b \in Browsers, v \in Vouchers, a \in BOOLEAN :
                BeginVoucher(r, b, v, a)
           \/ \E r \in Requests, e \in Emails, mode \in Modes, v \in Vouchers \cup {None} :
                BeginAsk(r, e, mode, v)
           \/ \E r \in Requests : RegisterRequest(r)
           \/ \E r \in Requests, token \in pending : BeginConfirm(r, token)
           \/ \E r \in Requests : CheckConfirm(r)
           \/ \E r \in Requests, b \in Browsers, e \in Emails : BeginInvite(r, b, e)
           \/ \E r \in Requests : Invite(r)
           \/ \E r \in Requests : MarkInvited(r)
  BY <1>4 DEF BeginVoucher, BeginAsk, RegisterRequest, BeginConfirm, CheckConfirm,
              BeginInvite, Invite, MarkInvited, signupVars
<1>5. CASE \/ \E b \in Browsers, e \in Emails : InviteLink(b, e)
           \/ \E e \in Emails : ResetRequest(e)
           \/ \E r \in Requests, l \in links : BeginSetPassword(r, l)
           \/ \E r \in Requests : CheckLink(r)
           \/ \E r \in Requests : SetPassword(r)
           \/ \E r \in Requests : Refuse(r)
           \/ MailExpires
  BY <1>5 DEF InviteLink, ResetRequest, BeginSetPassword, CheckLink, SetPassword, Refuse,
              MailExpires, signupVars
<1> QED BY <1>1, <1>2, <1>3, <1>4, <1>5 DEF SignupStep, Transacts

LEMMA VouchStep ==
  ASSUME VouchInv, [Next]_vars
  PROVE  VouchInv'
<1>1. RequestsTyped
  BY DEF VouchInv
<1>2. ASSUME NEW r \in Requests, Transacts(r)
      PROVE  VouchInv'
  BY <1>2, ConsumeKeeps, CreateUserKeeps, RollBackKeeps DEF Transacts
<1>3. ASSUME SignupStep, ~\E r \in Requests : Transacts(r)
      PROVE  VouchInv'
  <2>1. Calm
    BY <1>1, <1>3, SignupIsCalm
  <2>2. \/ UNCHANGED <<voucher, lock, issued, charged>>
        \/ /\ \E v \in Vouchers, uses \in Nat : Put(v, uses)
           /\ UNCHANGED <<lock, charged>>
    BY <1>3, SignupPuts
  <2> QED BY <2>1, <2>2, VouchersUntouched, VoucherPut
<1>4. ASSUME Calm, UNCHANGED signupVars
      PROVE  VouchInv'
  BY <1>4, VouchersUntouched DEF signupVars
<1>5. CASE PolicyStep /\ UNCHANGED signupVars
  BY <1>1, <1>4, <1>5, PolicyWalks, WalksAreCalm
<1>6. CASE SessionStep /\ UNCHANGED signupVars
  <2>1. Enters(Sessional) /\ "confirm" \notin Sessional
    BY <1>1, <1>6, SessionEnters DEF Sessional
  <2> QED BY <1>4, <1>6, <2>1, EntersAreCalm
<1>7. CASE RecoveryStep
  <2>1. Enters(Supports) /\ "confirm" \notin Supports
    BY <1>1, <1>7, RecoveryEnters DEF Supports
  <2>2. UNCHANGED signupVars
    BY <1>7 DEF RecoveryStep, AskHelp, AskHelpSignedIn, BeginSupport, LoadSupport, Approve,
                Reject, OpenLink, TakeToken, BeginLogin, LookUp, MarkExpired, RecoveryLogin,
                WrongCredentials, MarkCompleted, Tick
  <2> QED BY <1>4, <2>1, <2>2, EntersAreCalm
<1>8. CASE PrivacyStep /\ UNCHANGED signupVars
  <2>1. Enters(Grounds) /\ "confirm" \notin Grounds
    BY <1>1, <1>8, PrivacyEnters DEF Grounds
  <2> QED BY <1>4, <1>8, <2>1, EntersAreCalm
<1>9. CASE UNCHANGED vars
  <2>1. Calm
    BY <1>1, <1>9 DEF vars, Calm, RequestsTyped
  <2> QED BY <1>4, <1>9, <2>1 DEF vars
<1> QED BY <1>2, <1>3, <1>5, <1>6, <1>7, <1>8, <1>9 DEF Next

\* However confirmations race with each other and with new numbers on the
\* vouchers, and wherever they fail or the server dies, the uses gone from a
\* voucher are the accounts made with it (register_confirm, the
\* compare-and-swap of validate_access_code_or_error).
THEOREM UsesBecomeAccounts == Spec => []VouchersAdmit
<1>1. VouchInv => VouchersAdmit
  BY DEF VouchInv, Admits
<1> QED BY VouchInitially, VouchStep, <1>1, PTL DEF Spec

-------------------------------------------------------------------------------
(* WindowHolds.                                                              *)

Known == {x \in Recoveries : recovery[x] # None}

\* The first approval is the one on the row.
RowsTyped ==
  /\ now \in 0 .. Horizon
  /\ recovery \in [Recoveries -> RecoveryRow \cup {None}]
  /\ opened = [x \in Recoveries |->
                 IF recovery[x] = None THEN None ELSE recovery[x].approved]
  /\ \A x \in Known : recovery[x].status = "approved" => recovery[x].approved # None

IsSession(s) ==
  /\ s = [user |-> s.user, pw |-> s.pw, level |-> s.level, mfa |-> s.mfa,
          token |-> s.token]
  /\ s.user \in Emails \cup {None} /\ s.token \in Known \cup {None}

TokensKnown ==
  /\ mailed \subseteq Known
  /\ spa \in [Browsers -> Known \cup {None}]
  /\ session = [b \in Browsers |-> session[b]]
  /\ \A b \in Browsers : IsSession(session[b])

\* What a request of support or a login relies on: an approval that was the
\* first when its row was loaded is overtaken only by one of the same moment,
\* and a login that has passed the check is in time until it is done.
InWindow(q) ==
  LET x == q.arg.recovery IN
  /\ q.op \in {"approve", "reject", "login"} => x \in Known
  /\ q.op = "login" => q.arg.email \in Emails
  /\ q.op = "approve" /\ q.pc = "write" =>
       IF q.held.approved = None THEN opened[x] \in {None, now} ELSE opened[x] # None
  /\ q.op = "login" /\ q.pc = "login" => opened[x] # None /\ now < opened[x] + Ttl

LoginsInWindow ==
  \A l \in logins :
    /\ l.recovery \in Known
    /\ opened[l.recovery] # None /\ l.at < opened[l.recovery] + Ttl

WindowInv ==
  /\ RequestsTyped
  /\ RowsTyped
  /\ TokensKnown
  /\ \A r \in Requests : InWindow(req[r])
  /\ LoginsInWindow

LEMMA NoneIsNone == None \notin Nat /\ None \notin RecoveryRow
BY AccountsAssumption

LEMMA Window == Ttl \in Nat /\ Horizon \in Nat /\ 0 .. Horizon \subseteq Nat
BY RecoveryAssumption

\* A step within one moment keeps every approval there is.
Widens ==
  /\ now' = now
  /\ Known \subseteq Known'
  /\ \A x \in Known : opened'[x] = opened[x] \/ (opened[x] = None /\ opened'[x] = now)

LEMMA WindowWidens ==
  ASSUME WindowInv, Widens, NEW q, InWindow(q)
  PROVE  InWindow(q)'
<1> DEFINE x == q.arg.recovery
<1>1. now \in Nat /\ None \notin Nat
  BY NoneIsNone, Window DEF WindowInv, RowsTyped
<1>2. q.op \in {"approve", "reject", "login"} =>
        x \in Known' /\ (opened'[x] = opened[x] \/ (opened[x] = None /\ opened'[x] = now))
  BY DEF InWindow, Widens
<1> QED BY <1>1, <1>2 DEF InWindow, Widens

LEMMA LoginsStay ==
  ASSUME WindowInv, Widens, logins' = logins
  PROVE  LoginsInWindow'
BY DEF WindowInv, LoginsInWindow, Widens

LEMMA TokensStay ==
  ASSUME TokensKnown, Known \subseteq Known', UNCHANGED <<mailed, spa, session>>
  PROVE  TokensKnown'
BY DEF TokensKnown, IsSession

\* A session changes, and is a session still.
LEMMA SessionSet ==
  ASSUME TokensKnown, Known \subseteq Known', UNCHANGED <<mailed, spa>>,
         NEW b, NEW new, b \in Browsers => IsSession(new)',
         session' = [session EXCEPT ![b] = new]
  PROVE  TokensKnown'
BY DEF TokensKnown, IsSession

LEMMA SignedInIsSession ==
  ASSUME TokensKnown, NEW b \in Browsers, NEW e \in Emails, NEW level, NEW mfa
  PROVE  IsSession(SignedIn(b, e, level, mfa))
<1> DEFINE token == IF session[b].user = e THEN session[b].token ELSE None
<1>1. token \in Known \cup {None}
  BY DEF TokensKnown, IsSession
<1> DEFINE mf == mfa \/ (session[b].user = e /\ session[b].mfa)
           pw == user[e].pw
<1>2. SignedIn(b, e, level, mfa) = [user |-> e, pw |-> pw, level |-> level, mfa |-> mf,
                                    token |-> token]
  BY DEF SignedIn
<1> HIDE DEF token, mf, pw
<1> QED BY <1>1, <1>2 DEF IsSession

\* A request is left alone, goes on to the policy, or is none of support's.
Steady ==
  /\ RequestsTyped'
  /\ \A r \in Requests :
       Onward(req'[r], req[r]) \/ req'[r].op \notin {"approve", "reject", "login"}

LEMMA EntersAreSteady ==
  ASSUME NEW ops, ops \cap {"approve", "reject", "login"} = {}, Enters(ops)
  PROVE  Steady
BY DEF Enters, Steady, Onward

LEMMA WalksAreSteady == ASSUME Walks PROVE Steady
BY DEF Walks, Steady

LEMMA OnwardInWindow ==
  ASSUME NEW q, InWindow(q), NEW new,
         Onward(new, q) \/ new.op \notin {"approve", "reject", "login"}
  PROVE  InWindow(new)
BY DEF InWindow, Onward, Walk

LEMMA WindowUntouched ==
  ASSUME WindowInv, Steady, UNCHANGED recoveryVars, TokensKnown'
  PROVE  WindowInv'
<1>1. RowsTyped' /\ LoginsInWindow'
  BY DEF WindowInv, RowsTyped, LoginsInWindow, Known, recoveryVars
<1>2. ASSUME NEW r \in Requests
      PROVE  InWindow(req[r])'
  <2>1. PICK new : new = req'[r]
    OBVIOUS
  <2>2. InWindow(new)
    BY <2>1, OnwardInWindow DEF WindowInv, Steady
  <2>3. InWindow(new)'
    BY <2>2 DEF InWindow, Known, recoveryVars
  <2> QED BY <2>1, <2>3
<1> QED BY <1>1, <1>2 DEF WindowInv, Steady

LEMMA SessionTokens ==
  ASSUME TokensKnown, SessionStep, UNCHANGED recoveryVars
  PROVE  TokensKnown'
<1>1. Known \subseteq Known' /\ Known' = Known /\ UNCHANGED <<mailed, spa>>
  BY DEF Known, recoveryVars
<1>2. CASE UNCHANGED session
  BY <1>1, <1>2, TokensStay
<1>3. ASSUME NEW b \in Browsers, NEW e \in Emails, NEW level, NEW mfa,
             session' = [session EXCEPT ![b] = SignedIn(b, e, level, mfa)]
      PROVE  TokensKnown'
  <2> DEFINE new == SignedIn(b, e, level, mfa)
  <2>1. IsSession(new)
    BY SignedInIsSession
  <2>2. PICK n : n = new
    OBVIOUS
  <2> HIDE DEF new
  <2>3. IsSession(n)'
    BY <1>1, <2>1, <2>2 DEF IsSession
  <2>4. session' = [session EXCEPT ![b] = n]
    BY <1>3, <2>2 DEF new
  <2> QED BY <1>1, <2>3, <2>4, SessionSet
<1>4. ASSUME NEW b \in Browsers, SignOut(b)
      PROVE  TokensKnown'
  <2>1. IsSession(Anonymous)'
    BY DEF IsSession, Anonymous
  <2>2. session' = [session EXCEPT ![b] = Anonymous]
    BY <1>4 DEF SignOut
  <2> QED BY <1>1, <2>1, <2>2, SessionSet
<1>5. \/ UNCHANGED session
      \/ \E b \in Browsers : SignOut(b)
      \/ \E b \in Browsers, e \in Emails, how \in {"password", "social", "mfa", "passkey"} :
           SignIn(b, e, how)
  BY DEF SessionStep, Enroll, RemovePasskey, BeginPatch, GatePatch, BeginEdit, LoadEdit,
         SaveUser, BeginRole, LoadRole, SaveRole, accountVars
<1>6. ASSUME NEW b \in Browsers, NEW e \in Emails, NEW how, SignIn(b, e, how)
      PROVE  TokensKnown'
  <2>1. \E level, mfa : session' = [session EXCEPT ![b] = SignedIn(b, e, level, mfa)]
    BY <1>6 DEF SignIn
  <2> QED BY <1>3, <2>1
<1> QED BY <1>2, <1>4, <1>5, <1>6

\* The steps of the other modules.
LEMMA WindowElsewhere ==
  ASSUME WindowInv, [Next]_vars, ~RecoveryStep
  PROVE  WindowInv'
<1>1. RequestsTyped /\ TokensKnown
  BY DEF WindowInv
<1>2. ASSUME UNCHANGED <<session, recoveryVars>>
      PROVE  TokensKnown'
  <2>1. Known \subseteq Known' /\ UNCHANGED <<mailed, spa, session>>
    BY <1>2 DEF Known, recoveryVars
  <2> QED BY <1>1, <2>1, TokensStay
<1>3. CASE PolicyStep /\ UNCHANGED <<accountVars, recoveryVars>>
  <2>1. Steady
    BY <1>1, <1>3, PolicyWalks, WalksAreSteady
  <2> QED BY <1>2, <1>3, <2>1, WindowUntouched DEF accountVars
<1>4. CASE SessionStep /\ UNCHANGED recoveryVars
  <2>1. Enters(Sessional) /\ Sessional \cap {"approve", "reject", "login"} = {}
    BY <1>1, <1>4, SessionEnters DEF Sessional
  <2>2. Steady
    BY <2>1, EntersAreSteady
  <2> QED BY <1>1, <1>4, <2>2, SessionTokens, WindowUntouched
<1>5. CASE SignupStep /\ UNCHANGED recoveryVars
  <2>1. ASSUME NEW r \in Requests, Acts(r, Signs)
        PROVE  Steady
    <3>1. "none" \in Signs /\ Signs \cap {"approve", "reject", "login"} = {}
      BY DEF Signs
    <3>2. Enters(Signs)
      BY <1>1, <2>1, <3>1, ActsEnter
    <3> QED BY <3>1, <3>2, EntersAreSteady
  <2>2. ASSUME NEW r \in Requests, Confirms(r)
        PROVE  Steady
    <3> DEFINE ops == {"none", "confirm"}
    <3>1. "none" \in ops /\ ops \cap {"approve", "reject", "login"} = {}
      OBVIOUS
    <3>2. Acts(r, ops)
      BY <2>2, ConfirmActs
    <3> HIDE DEF ops
    <3>3. Enters(ops)
      BY <1>1, <3>1, <3>2, ActsEnter
    <3> QED BY <3>1, <3>3, EntersAreSteady
  <2>3. ASSUME req' = req
        PROVE  Steady
    BY <1>1, <2>3 DEF Steady, RequestsTyped, Onward
  <2>4. Steady
    BY <1>5, <2>1, <2>2, <2>3, SignupActs
  <2>5. UNCHANGED session
    BY <1>5 DEF SignupStep, BeginVoucher, SetCode, CreateQr, ExpireQr, BeginAsk,
                RegisterRequest, BeginConfirm, CheckConfirm, Consume, CreateUser, RollBack,
                BeginInvite, Invite, MarkInvited, InviteLink, ResetRequest, BeginSetPassword,
                CheckLink, SetPassword, Refuse, MailExpires, accountVars
  <2> QED BY <1>2, <1>5, <2>4, <2>5, WindowUntouched
<1>6. CASE PrivacyStep /\ UNCHANGED <<accountVars, recoveryVars>>
  <2>1. Enters(Grounds) /\ Grounds \cap {"approve", "reject", "login"} = {}
    BY <1>1, <1>6, PrivacyEnters DEF Grounds
  <2>2. Steady
    BY <2>1, EntersAreSteady
  <2> QED BY <1>2, <1>6, <2>2, WindowUntouched DEF accountVars
<1>7. CASE UNCHANGED vars
  <2>1. Steady
    BY <1>1, <1>7 DEF vars, Steady, RequestsTyped, Onward
  <2> QED BY <1>2, <1>7, <2>1, WindowUntouched DEF vars, accountVars
<1> QED BY <1>3, <1>4, <1>5, <1>6, <1>7 DEF Next

\* The requests that a step leaves alone are still in the window.
LEMMA RequestsWiden ==
  ASSUME WindowInv, Widens, RequestsTyped', RowsTyped', TokensKnown', LoginsInWindow',
         \A r \in Requests : req'[r] = req[r] \/ InWindow(req[r])'
  PROVE  WindowInv'
<1>1. ASSUME NEW r \in Requests
      PROVE  InWindow(req[r])'
  <2>1. PICK q : q = req[r]
    OBVIOUS
  <2>2. InWindow(q)'
    BY <2>1, WindowWidens DEF WindowInv
  <2>3. CASE req'[r] = req[r]
    <3>1. req'[r] = q
      BY <2>1, <2>3
    <3> QED BY <2>2, <3>1
  <2> QED BY <2>3
<1> QED BY <1>1 DEF WindowInv

LEMMA FreeInWindow == InWindow(Free)'
BY DEF InWindow, Free

\* Nothing about the recovery requests changes.
LEMMA SameRows ==
  ASSUME WindowInv, UNCHANGED <<now, recovery, opened>>
  PROVE  RowsTyped' /\ Widens /\ Known' = Known
BY DEF WindowInv, RowsTyped, Known, Widens

\* A request that is known gets another status than approved.
LEMMA StatusSet ==
  ASSUME WindowInv, NEW x \in Known, NEW s \in {"rejected", "completed", "expired"},
         recovery' = [recovery EXCEPT ![x].status = s], UNCHANGED <<now, opened>>
  PROVE  RowsTyped' /\ Widens
<1> DEFINE old == recovery[x]
           new == [old EXCEPT !.status = s]
<1>1. recovery' = [recovery EXCEPT ![x] = new]
  OBVIOUS
<1>2. old \in RecoveryRow /\ x \in Recoveries
  BY DEF WindowInv, RowsTyped, Known
<1> HIDE DEF old
<1>3. new \in RecoveryRow /\ new.status = s /\ new.approved = old.approved
  BY <1>2 DEF RecoveryRow
<1> HIDE DEF new
<1>4. old # None /\ new # None
  BY <1>2, <1>3, NoneIsNone
<1>5. /\ recovery' \in [Recoveries -> RecoveryRow \cup {None}]
      /\ recovery'[x] = new
      /\ \A y \in Recoveries : y # x => recovery'[y] = recovery[y]
  BY <1>1, <1>2, <1>3 DEF WindowInv, RowsTyped
<1>6. Known' = Known
  BY <1>2, <1>4, <1>5 DEF Known, old
<1>7. opened' = [y \in Recoveries |->
                   IF recovery'[y] = None THEN None ELSE recovery'[y].approved]
  BY <1>2, <1>3, <1>4, <1>5 DEF WindowInv, RowsTyped, old
<1>8. \A y \in Known' : recovery'[y].status = "approved" => recovery'[y].approved # None
  BY <1>3, <1>5, <1>6 DEF WindowInv, RowsTyped, Known
<1>9. RowsTyped'
  BY <1>5, <1>7, <1>8 DEF WindowInv, RowsTyped
<1> QED BY <1>6, <1>9 DEF Widens

\* A free number gets a request that is not approved.
LEMMA RowAsked ==
  ASSUME WindowInv, NEW x \in Recoveries, NEW e \in Emails, recovery[x] = None,
         recovery' = [recovery EXCEPT ![x] = Asked(e)], UNCHANGED <<now, opened>>
  PROVE  RowsTyped' /\ Widens
<1> DEFINE new == Asked(e)
<1>1. new \in RecoveryRow /\ new.status = "pending" /\ new.approved = None
  BY DEF Asked, RecoveryRow, WindowInv, RowsTyped
<1>2. recovery' = [recovery EXCEPT ![x] = new]
  OBVIOUS
<1> HIDE DEF new
<1>3. new # None
  BY <1>1, NoneIsNone
<1>4. /\ recovery' \in [Recoveries -> RecoveryRow \cup {None}]
      /\ recovery'[x] = new
      /\ \A y \in Recoveries : y # x => recovery'[y] = recovery[y]
  BY <1>1, <1>2 DEF WindowInv, RowsTyped
<1>5. Known' = Known \cup {x}
  BY <1>3, <1>4 DEF Known
<1>6. opened' = [y \in Recoveries |->
                   IF recovery'[y] = None THEN None ELSE recovery'[y].approved]
  BY <1>1, <1>3, <1>4 DEF WindowInv, RowsTyped
<1>7. \A y \in Known' : recovery'[y].status = "approved" => recovery'[y].approved # None
  BY <1>1, <1>4, <1>5 DEF WindowInv, RowsTyped, Known
<1>8. RowsTyped'
  BY <1>4, <1>6, <1>7 DEF WindowInv, RowsTyped
<1> QED BY <1>5, <1>8 DEF Widens

LEMMA AskKeeps ==
  ASSUME WindowInv, NEW x \in Recoveries,
         \/ \E e \in Emails : AskHelp(x, e)
         \/ \E b \in Browsers : AskHelpSignedIn(x, b)
  PROVE  WindowInv'
<1>1. RequestsTyped' /\ req' = req /\ UNCHANGED <<mailed, spa, logins>>
  BY DEF AskHelp, AskHelpSignedIn, WindowInv, RequestsTyped
<1>2. ASSUME NEW e \in Emails, AskHelp(x, e)
      PROVE  WindowInv'
  <2>1. RowsTyped' /\ Widens
    BY <1>2, RowAsked DEF AskHelp
  <2>2. TokensKnown'
    BY <1>1, <1>2, <2>1, TokensStay DEF AskHelp, accountVars, WindowInv, Widens
  <2>3. LoginsInWindow'
    BY <1>1, <2>1, LoginsStay
  <2> QED BY <1>1, <2>1, <2>2, <2>3, RequestsWiden
<1>3. ASSUME NEW b \in Browsers, AskHelpSignedIn(x, b)
      PROVE  WindowInv'
  <2> DEFINE old == session[b]
             new == [old EXCEPT !.level = "recovery"]
  <2>1. IsSession(old) /\ old.user \in Emails
    BY <1>3 DEF AskHelpSignedIn, Authenticated, WindowInv, TokensKnown, IsSession
  <2>2. RowsTyped' /\ Widens
    BY <1>3, <2>1, RowAsked DEF AskHelpSignedIn
  <2>3. session' = [session EXCEPT ![b] = new]
    BY <1>3 DEF AskHelpSignedIn
  <2> HIDE DEF old
  <2>4. new = [user |-> old.user, pw |-> old.pw, level |-> "recovery", mfa |-> old.mfa,
               token |-> old.token]
    BY <2>1 DEF IsSession
  <2> HIDE DEF new
  <2>5. new.user \in Emails \cup {None} /\ new.token \in Known'\cup {None}
        /\ new = [user |-> new.user, pw |-> new.pw, level |-> new.level, mfa |-> new.mfa,
                  token |-> new.token]
    BY <2>1, <2>2, <2>4 DEF IsSession, Widens
  <2>6. PICK n : n = new
    OBVIOUS
  <2>7. IsSession(n)' /\ session' = [session EXCEPT ![b] = n]
    BY <2>3, <2>5, <2>6 DEF IsSession
  <2>8. TokensKnown'
    BY <1>1, <2>2, <2>7, SessionSet DEF WindowInv, Widens
  <2>9. LoginsInWindow'
    BY <1>1, <2>2, LoginsStay
  <2> QED BY <1>1, <2>2, <2>8, <2>9, RequestsWiden
<1> QED BY <1>2, <1>3

\* A request of support begins for a request that is known.
LEMMA SupportKeeps ==
  ASSUME WindowInv, NEW r \in Requests, NEW x \in Recoveries, NEW b \in Browsers,
         NEW op \in {"approve", "reject"}, BeginSupport(r, op, b, x)
  PROVE  WindowInv'
<1> DEFINE arg == [by |-> b, recovery |-> x]
<1>1. Starts(r, op, "policy", arg) /\ arg.recovery = x
  BY DEF BeginSupport
<1> HIDE DEF arg
<1>2. /\ RequestsTyped'
      /\ \A q \in Requests : q # r => req'[q] = req[q]
      /\ req'[r].op = op /\ req'[r].pc = "policy" /\ req'[r].arg = arg
  BY <1>1, RequestStarts DEF WindowInv
<1>3. UNCHANGED <<now, recovery, opened, mailed, spa, session, logins>>
  BY DEF BeginSupport, recoveryVars, accountVars
<1>4. RowsTyped' /\ Widens /\ Known' = Known
  BY <1>3, SameRows
<1>5. TokensKnown' /\ LoginsInWindow'
  BY <1>3, <1>4, TokensStay, LoginsStay DEF WindowInv
<1>6. x \in Known'
  BY <1>4 DEF BeginSupport, Known
<1>7. InWindow(req[r])'
  BY <1>1, <1>2, <1>6 DEF InWindow
<1> QED BY <1>2, <1>4, <1>5, <1>7, RequestsWiden

\* The loaded row tells whether there has been an approval.
LEMMA LoadKeeps ==
  ASSUME WindowInv, NEW r \in Requests, LoadSupport(r)
  PROVE  WindowInv'
<1> DEFINE x == req[r].arg.recovery
<1>1. Takes(r, "write", recovery[x])
  BY DEF LoadSupport, Takes
<1>2. /\ RequestsTyped'
      /\ \A q \in Requests : q # r => req'[q] = req[q]
      /\ req'[r].op = req[r].op /\ req'[r].pc = "write"
      /\ req'[r].arg = req[r].arg /\ req'[r].held = recovery[x]
  BY <1>1, RequestHolds DEF WindowInv
<1>3. UNCHANGED <<now, recovery, opened, mailed, spa, session, logins>>
  BY DEF LoadSupport, recoveryVars, accountVars
<1>4. RowsTyped' /\ Widens /\ Known' = Known
  BY <1>3, SameRows
<1>5. TokensKnown' /\ LoginsInWindow'
  BY <1>3, <1>4, TokensStay, LoginsStay DEF WindowInv
<1>6. x \in Known /\ req[r].op # "login"
  BY DEF LoadSupport, WindowInv, InWindow
<1>7. opened[x] = recovery[x].approved
  BY <1>6 DEF WindowInv, RowsTyped, Known
<1>8. InWindow(req[r])'
  BY <1>2, <1>3, <1>4, <1>6, <1>7 DEF InWindow
<1> QED BY <1>2, <1>4, <1>5, <1>8, RequestsWiden

\* approved_at is written by the first approval only; another that had loaded
\* the row before it writes the same moment.
LEMMA ApproveKeeps ==
  ASSUME WindowInv, NEW r \in Requests, Approve(r)
  PROVE  WindowInv'
<1> DEFINE x == req[r].arg.recovery
           first == req[r].held.approved = None
           old == recovery[x]
           at == IF first THEN now ELSE old.approved
           mid == [old EXCEPT !.status = "approved"]
           new == [mid EXCEPT !.approved = at]
<1>1. recovery' = [recovery EXCEPT ![x] = new]
      /\ opened' = [opened EXCEPT ![x] = IF @ = None THEN now ELSE @]
      /\ mailed' = mailed \cup {x} /\ Ends(r)
      /\ UNCHANGED <<now, spa, session, logins>>
  BY DEF Approve, accountVars
<1>2. x \in Known /\ (IF first THEN opened[x] \in {None, now} ELSE opened[x] # None)
  BY DEF Approve, At, WindowInv, InWindow
<1>3. x \in Recoveries /\ old \in RecoveryRow /\ opened[x] = old.approved
      /\ now \in 0 .. Horizon
  BY <1>2 DEF WindowInv, RowsTyped, Known
<1>4. now # None /\ old # None
  BY <1>3, NoneIsNone, Window
<1>5. at = (IF opened[x] = None THEN now ELSE opened[x]) /\ at # None
  BY <1>2, <1>3, <1>4
<1>6. at \in 0 .. Horizon \cup {None}
  BY <1>3 DEF RecoveryRow
<1> HIDE DEF old, at
<1>7. mid \in RecoveryRow /\ mid.status = "approved"
  BY <1>3 DEF RecoveryRow
<1> HIDE DEF mid
<1>8. new \in RecoveryRow /\ new.status = "approved" /\ new.approved = at
  BY <1>6, <1>7 DEF RecoveryRow
<1> HIDE DEF new
<1>9. new # None
  BY <1>8, NoneIsNone
<1>10. /\ recovery' \in [Recoveries -> RecoveryRow \cup {None}]
       /\ recovery'[x] = new
       /\ \A y \in Recoveries : y # x => recovery'[y] = recovery[y]
  BY <1>1, <1>3, <1>8 DEF WindowInv, RowsTyped
<1>11. Known' = Known
  BY <1>2, <1>9, <1>10 DEF Known
<1>12. /\ opened' = [y \in Recoveries |-> opened'[y]]
       /\ opened'[x] = at
       /\ \A y \in Recoveries : y # x => opened'[y] = opened[y]
  BY <1>1, <1>3, <1>5 DEF WindowInv, RowsTyped
<1>13. \A y \in Recoveries :
         opened'[y] = IF recovery'[y] = None THEN None ELSE recovery'[y].approved
  BY <1>8, <1>9, <1>10, <1>12 DEF WindowInv, RowsTyped
<1>14. opened' = [y \in Recoveries |->
                    IF recovery'[y] = None THEN None ELSE recovery'[y].approved]
  BY <1>12, <1>13
<1>15. \A y \in Known' : recovery'[y].status = "approved" => recovery'[y].approved # None
  BY <1>5, <1>8, <1>10, <1>11 DEF WindowInv, RowsTyped, Known
<1>16. RowsTyped'
  BY <1>1, <1>10, <1>14, <1>15 DEF WindowInv, RowsTyped
<1>17. Widens
  BY <1>1, <1>5, <1>11, <1>12 DEF Widens, Known
<1>18. TokensKnown'
  BY <1>1, <1>2, <1>11 DEF WindowInv, TokensKnown, IsSession
<1>19. LoginsInWindow'
  BY <1>1, <1>17, LoginsStay
<1>20. /\ RequestsTyped'
       /\ \A q \in Requests : req'[q] = IF q = r THEN Free ELSE req[q]
  BY <1>1, RequestEnds DEF WindowInv
<1>21. \A q \in Requests : req'[q] = req[q] \/ InWindow(req[q])'
  BY <1>20, FreeInWindow
<1> QED BY <1>16, <1>17, <1>18, <1>19, <1>20, <1>21, RequestsWiden

\* A request ends with another status than approved on its row.
LEMMA StatusKeeps ==
  ASSUME WindowInv, NEW r \in Requests, Reject(r) \/ MarkExpired(r) \/ MarkCompleted(r)
  PROVE  WindowInv'
<1> DEFINE x == req[r].arg.recovery
<1>1. PICK s \in {"rejected", "completed", "expired"} :
        recovery' = [recovery EXCEPT ![x].status = s]
  BY DEF Reject, MarkExpired, MarkCompleted
<1>2. Ends(r) /\ UNCHANGED <<now, opened, mailed, spa, session, logins>>
  BY DEF Reject, MarkExpired, MarkCompleted, accountVars
<1>3. x \in Known
  BY DEF Reject, MarkExpired, MarkCompleted, At, WindowInv, InWindow
<1>4. RowsTyped' /\ Widens
  BY <1>1, <1>2, <1>3, StatusSet
<1>5. TokensKnown' /\ LoginsInWindow'
  BY <1>2, <1>4, TokensStay, LoginsStay DEF WindowInv, Widens
<1>6. /\ RequestsTyped'
      /\ \A q \in Requests : req'[q] = IF q = r THEN Free ELSE req[q]
  BY <1>2, RequestEnds DEF WindowInv
<1>7. \A q \in Requests : req'[q] = req[q] \/ InWindow(req[q])'
  BY <1>6, FreeInWindow
<1> QED BY <1>4, <1>5, <1>6, <1>7, RequestsWiden

\* The token moves from the mail to the session and from there to the page.
LEMMA TokenKeeps ==
  ASSUME WindowInv, NEW b \in Browsers,
         TakeToken(b) \/ \E x \in Recoveries : OpenLink(b, x)
  PROVE  WindowInv'
<1> DEFINE old == session[b]
<1>1. UNCHANGED <<req, now, recovery, opened, mailed, logins>>
  BY DEF TakeToken, OpenLink, recoveryVars
<1>2. PICK t \in Known \cup {None} : session' = [session EXCEPT ![b].token = t]
  BY DEF TakeToken, OpenLink, WindowInv, TokensKnown
<1>3. IsSession(old)
  BY DEF WindowInv, TokensKnown
<1>4. spa' = spa \/ spa' = [spa EXCEPT ![b] = old.token]
  BY DEF TakeToken, OpenLink, recoveryVars
<1>5. RowsTyped' /\ Widens /\ Known' = Known
  BY <1>1, SameRows
<1>6. spa' \in [Browsers -> Known' \cup {None}]
  BY <1>3, <1>4, <1>5 DEF WindowInv, TokensKnown, IsSession
<1> DEFINE new == [old EXCEPT !.token = t]
<1>7. session' = [session EXCEPT ![b] = new]
  BY <1>2
<1> HIDE DEF old
<1>8. new = [user |-> old.user, pw |-> old.pw, level |-> old.level, mfa |-> old.mfa,
             token |-> t]
  BY <1>3 DEF IsSession
<1> HIDE DEF new
<1>9. PICK n : n = new
  OBVIOUS
<1>10. IsSession(n)'
  BY <1>2, <1>3, <1>5, <1>8, <1>9 DEF IsSession
<1>11. /\ session' = [c \in Browsers |-> session'[c]]
       /\ \A c \in Browsers : session'[c] = IF c = b THEN n ELSE session[c]
  BY <1>7, <1>9 DEF WindowInv, TokensKnown
<1>12. \A c \in Browsers : IsSession(session[c])'
  BY <1>5, <1>10, <1>11 DEF WindowInv, TokensKnown, IsSession
<1>13. TokensKnown'
  BY <1>1, <1>5, <1>6, <1>11, <1>12 DEF WindowInv, TokensKnown
<1>14. LoginsInWindow' /\ RequestsTyped'
  BY <1>1, <1>5, LoginsStay DEF WindowInv, RequestsTyped
<1> QED BY <1>1, <1>5, <1>13, <1>14, RequestsWiden

\* A login begins with a token of a known request.
LEMMA LoginBegins ==
  ASSUME WindowInv, NEW r \in Requests, NEW b \in Browsers, NEW e \in Emails,
         BeginLogin(r, b, e)
  PROVE  WindowInv'
<1> DEFINE x == spa[b]
           arg == [by |-> b, email |-> e, recovery |-> x]
<1>1. Starts(r, "login", "check", arg) /\ arg.recovery = x /\ arg.email = e
  BY DEF BeginLogin
<1> HIDE DEF arg
<1>2. /\ RequestsTyped'
      /\ \A q \in Requests : q # r => req'[q] = req[q]
      /\ req'[r].op = "login" /\ req'[r].pc = "check" /\ req'[r].arg = arg
  BY <1>1, RequestStarts DEF WindowInv
<1>3. UNCHANGED <<now, recovery, opened, mailed, spa, session, logins>>
  BY DEF BeginLogin, recoveryVars, accountVars
<1>4. RowsTyped' /\ Widens /\ Known' = Known
  BY <1>3, SameRows
<1>5. TokensKnown' /\ LoginsInWindow'
  BY <1>3, <1>4, TokensStay, LoginsStay DEF WindowInv
<1>6. x \in Known'
  BY <1>4 DEF BeginLogin, WindowInv, TokensKnown
<1>7. InWindow(req[r])'
  BY <1>1, <1>2, <1>6 DEF InWindow
<1> QED BY <1>2, <1>4, <1>5, <1>7, RequestsWiden

\* The check: an approved row whose window is open.
LEMMA LookUpKeeps ==
  ASSUME WindowInv, NEW r \in Requests, LookUp(r)
  PROVE  WindowInv'
<1> DEFINE x == req[r].arg.recovery
           rr == recovery[x]
<1>1. UNCHANGED <<now, recovery, opened, mailed, spa, session, logins>>
  BY DEF LookUp, recoveryVars, accountVars
<1>2. RowsTyped' /\ Widens /\ Known' = Known
  BY <1>1, SameRows
<1>3. TokensKnown' /\ LoginsInWindow'
  BY <1>1, <1>2, TokensStay, LoginsStay DEF WindowInv
<1>4. CASE Ends(r)
  <2>1. /\ RequestsTyped'
        /\ \A q \in Requests : req'[q] = IF q = r THEN Free ELSE req[q]
    BY <1>4, RequestEnds DEF WindowInv
  <2>2. \A q \in Requests : req'[q] = req[q] \/ InWindow(req[q])'
    BY <2>1, FreeInWindow
  <2> QED BY <1>2, <1>3, <2>1, <2>2, RequestsWiden
<1>5. CASE ~Ends(r)
  <2> DEFINE pc == IF Active(rr) THEN "login" ELSE "expire"
  <2>1. rr.status = "approved" /\ Takes(r, pc, rr) /\ req[r].op = "login"
    BY <1>5 DEF LookUp, At, Takes
  <2>2. x \in Known /\ req[r].arg.email \in Emails
    BY <2>1 DEF WindowInv, InWindow
  <2>3. rr.approved # None /\ rr \in RecoveryRow /\ opened[x] = rr.approved
    BY <2>1, <2>2 DEF WindowInv, RowsTyped, Known
  <2>4. rr.approved \in Nat
    BY <2>3, Window DEF RecoveryRow
  <2>5. Active(rr) => now < opened[x] + Ttl
    BY <2>1, <2>3, <2>4, Window DEF Active, ExpiresAt
  <2>6. pc = "login" => now < opened[x] + Ttl
    BY <2>5
  <2> HIDE DEF pc, rr
  <2>7. /\ RequestsTyped'
        /\ \A q \in Requests : q # r => req'[q] = req[q]
        /\ req'[r].op = req[r].op /\ req'[r].pc = pc /\ req'[r].arg = req[r].arg
    BY <2>1, RequestHolds DEF WindowInv
  <2>8. InWindow(req[r])'
    BY <1>1, <1>2, <2>1, <2>2, <2>3, <2>6, <2>7 DEF InWindow
  <2> QED BY <1>2, <1>3, <2>7, <2>8, RequestsWiden
<1> QED BY <1>4, <1>5

\* The login itself: no time has passed since the check.
LEMMA LoginKeeps ==
  ASSUME WindowInv, NEW r \in Requests, RecoveryLogin(r)
  PROVE  WindowInv'
<1> DEFINE x == req[r].arg.recovery
           b == req[r].arg.by
           e == req[r].arg.email
<1>1. UNCHANGED <<now, recovery, opened, mailed, spa>> /\ Goes(r, "complete")
  BY DEF RecoveryLogin
<1>2. RowsTyped' /\ Widens /\ Known' = Known
  BY <1>1, SameRows
<1>3. /\ x \in Known /\ e \in Emails /\ req[r].op = "login"
      /\ opened[x] # None /\ now < opened[x] + Ttl
  BY DEF RecoveryLogin, At, WindowInv, InWindow
<1>4. /\ RequestsTyped'
      /\ \A q \in Requests : q # r => req'[q] = req[q]
      /\ req'[r].op = "login" /\ req'[r].pc = "complete" /\ req'[r].arg = req[r].arg
  BY <1>1, <1>3, RequestGoes DEF WindowInv
<1>5. InWindow(req[r])'
  BY <1>2, <1>3, <1>4 DEF InWindow
<1>6. LoginsInWindow'
  <2>1. PICK l : logins' = logins \cup {l} /\ l.recovery = x /\ l.at = now
    <3> DEFINE new == [recovery |-> x, at |-> now, call |-> req[r].call]
    <3>1. logins' = logins \cup {new}
      BY DEF RecoveryLogin
    <3>2. new.recovery = x /\ new.at = now
      OBVIOUS
    <3> HIDE DEF new
    <3> QED BY <3>1, <3>2
  <2> QED BY <1>1, <1>2, <1>3, <2>1 DEF WindowInv, LoginsInWindow
<1>7. TokensKnown'
  <2>1. session' = [session EXCEPT ![b] = SignedIn(b, e, "basic", FALSE)]
    BY DEF RecoveryLogin
  <2>2. b \in Browsers => IsSession(SignedIn(b, e, "basic", FALSE))
    BY <1>3, SignedInIsSession DEF WindowInv
  <2>3. PICK n : n = SignedIn(b, e, "basic", FALSE)
    OBVIOUS
  <2>4. b \in Browsers => IsSession(n)'
    BY <1>2, <2>2, <2>3 DEF IsSession
  <2>5. session' = [session EXCEPT ![b] = n]
    BY <2>1, <2>3
  <2>6. PICK c : c = b
    OBVIOUS
  <2>7. session' = [session EXCEPT ![c] = n] /\ (c \in Browsers => IsSession(n)')
    BY <2>4, <2>5, <2>6
  <2>8. TokensKnown /\ Known \subseteq Known' /\ UNCHANGED <<mailed, spa>>
    BY <1>1, <1>2 DEF WindowInv
  <2> QED BY <2>7, <2>8, SessionSet
<1> QED BY <1>2, <1>4, <1>5, <1>6, <1>7, RequestsWiden

LEMMA WrongKeeps ==
  ASSUME WindowInv, NEW r \in Requests, WrongCredentials(r)
  PROVE  WindowInv'
<1>1. Ends(r) /\ UNCHANGED <<now, recovery, opened, mailed, spa, session, logins>>
  BY DEF WrongCredentials, recoveryVars, accountVars
<1>2. RowsTyped' /\ Widens /\ Known' = Known
  BY <1>1, SameRows
<1>3. TokensKnown' /\ LoginsInWindow'
  BY <1>1, <1>2, TokensStay, LoginsStay DEF WindowInv
<1>4. /\ RequestsTyped'
      /\ \A q \in Requests : req'[q] = IF q = r THEN Free ELSE req[q]
  BY <1>1, RequestEnds DEF WindowInv
<1>5. \A q \in Requests : req'[q] = req[q] \/ InWindow(req[q])'
  BY <1>4, FreeInWindow
<1> QED BY <1>2, <1>3, <1>4, <1>5, RequestsWiden

\* Time passes between requests, and no request is on its way then.
LEMMA TickKeeps ==
  ASSUME WindowInv, Tick
  PROVE  WindowInv'
<1>1. UNCHANGED <<req, recovery, opened, mailed, spa, session, logins>> /\ Known' = Known
  BY DEF Tick, accountVars, Known
<1>2. RowsTyped'
  <2>1. now \in Nat /\ now < Horizon /\ now' = now + 1
    BY Window DEF Tick, WindowInv, RowsTyped
  <2>2. now' \in 0 .. Horizon
    BY <2>1, Window
  <2> QED BY <1>1, <2>2 DEF WindowInv, RowsTyped
<1>3. RequestsTyped' /\ TokensKnown' /\ LoginsInWindow'
  BY <1>1 DEF WindowInv, RequestsTyped, TokensKnown, IsSession, LoginsInWindow
<1>4. ASSUME NEW r \in Requests
      PROVE  InWindow(req[r])'
  BY <1>1 DEF Tick, WindowInv, InWindow
<1> QED BY <1>2, <1>3, <1>4 DEF WindowInv

LEMMA WindowStep ==
  ASSUME WindowInv, [Next]_vars
  PROVE  WindowInv'
<1>1. CASE RecoveryStep
  BY <1>1, AskKeeps, SupportKeeps, LoadKeeps, ApproveKeeps, StatusKeeps, TokenKeeps,
     LoginBegins, LookUpKeeps, LoginKeeps, WrongKeeps, TickKeeps DEF RecoveryStep
<1> QED BY <1>1, WindowElsewhere

LEMMA WindowInitially == Init => WindowInv
<1> SUFFICES ASSUME Init PROVE WindowInv
  OBVIOUS
<1>1. RequestsTyped /\ \A r \in Requests : InWindow(req[r])
  <2>1. req = [r \in Requests |-> Free]
    BY DEF Init, ServerInit
  <2>2. InWindow(Free)
    BY DEF InWindow, Free
  <2> QED BY <2>1, <2>2, FreeRequest DEF RequestsTyped
<1>2. recovery = [x \in Recoveries |-> None] /\ opened = [x \in Recoveries |-> None]
      /\ now = 0 /\ mailed = {} /\ logins = {} /\ spa = [b \in Browsers |-> None]
  BY DEF Init, RecoveryInit
<1>3. RowsTyped /\ LoginsInWindow
  BY <1>2, Window DEF RowsTyped, LoginsInWindow, Known
<1>4. TokensKnown
  <2>1. session = [b \in Browsers |-> Anonymous]
    BY DEF Init, SessionInit
  <2>2. IsSession(Anonymous)
    BY DEF IsSession, Anonymous
  <2> QED BY <1>2, <2>1, <2>2 DEF TokensKnown
<1> QED BY <1>1, <1>3, <1>4 DEF WindowInv

\* However often and late a request is approved, rejected, looked up and
\* completed by requests that have loaded its row before, its token logs in
\* only after its first approval and before the period from then is over
\* (mark_resolved, perform_recovery_login).
THEOREM LoginsAreInWindow == Spec => []WindowHolds
<1>1. WindowInv => WindowHolds
  BY DEF WindowInv, LoginsInWindow, WindowHolds
<1> QED BY WindowInitially, WindowStep, <1>1, PTL DEF Spec

-------------------------------------------------------------------------------
(* GrantsSawEverything.                                                      *)

\* An entry of a receipt's log is one of the receipt's decisions, and a grant
\* among them saw the one before.
Decided(d, seq) ==
  /\ d.seq \in Nat /\ d.seq <= seq
  /\ (\E p \in DOMAIN d.kind : d.kind[p] = "granted") => d.saw = d.seq - 1

\* The log holds decisions in the order of their numbers, none above seq.
LogInOrder(log, seq) ==
  /\ \E S : log \in Seq(S)
  /\ \A i \in 1 .. Len(log) :
       Decided(log[i], seq) /\ (i > 1 => log[i].seq > log[i - 1].seq)

IsReceipt(rc) ==
  /\ rc = [seq |-> rc.seq, choice |-> rc.choice, log |-> rc.log]
  /\ rc.seq \in Nat
  /\ LogInOrder(rc.log, rc.seq)

ReceiptInv ==
  /\ receipt = [x \in Receipts |-> receipt[x]]
  /\ \A x \in Receipts : receipt[x] = None \/ IsReceipt(receipt[x])

LEMMA EmptyLogInOrder ==
  ASSUME NEW seq \in Nat
  PROVE  LogInOrder(<<>>, seq)
<1>1. <<>> \in Seq({}) /\ Len(<<>>) = 0
  OBVIOUS
<1> QED BY <1>1 DEF LogInOrder

\* A decision numbered after all the others goes to the end of the log.
LEMMA LogGrows ==
  ASSUME NEW log, NEW seq \in Nat, LogInOrder(log, seq),
         NEW d, d.seq = seq + 1, Decided(d, seq + 1)
  PROVE  LogInOrder(Append(log, d), seq + 1)
<1> DEFINE new == Append(log, d)
<1>1. PICK S : log \in Seq(S)
  BY DEF LogInOrder
<1>2. log \in Seq(S \cup {d}) /\ d \in S \cup {d}
  BY <1>1
<1>3. /\ new \in Seq(S \cup {d}) /\ Len(new) = Len(log) + 1 /\ Len(log) \in Nat
      /\ \A i \in 1 .. Len(log) : new[i] = log[i]
      /\ new[Len(log) + 1] = d
  BY <1>2
<1> HIDE DEF new
<1>4. ASSUME NEW i \in 1 .. Len(new)
      PROVE  Decided(new[i], seq + 1) /\ (i > 1 => new[i].seq > new[i - 1].seq)
  <2>1. CASE i = Len(log) + 1
    <3>1. new[i] = d
      BY <1>3, <2>1
    <3>2. ASSUME i > 1
          PROVE  new[i].seq > new[i - 1].seq
      <4>1. i - 1 \in 1 .. Len(log) /\ new[i - 1] = log[i - 1]
        BY <1>3, <2>1, <3>2
      <4>2. log[i - 1].seq \in Nat /\ log[i - 1].seq <= seq
        BY <4>1 DEF LogInOrder, Decided
      <4> QED BY <3>1, <4>1, <4>2
    <3> QED BY <3>1, <3>2
  <2>2. CASE i \in 1 .. Len(log)
    <3>1. new[i] = log[i] /\ Decided(log[i], seq) /\ (i > 1 => log[i].seq > log[i - 1].seq)
      BY <1>3, <2>2 DEF LogInOrder
    <3>2. i > 1 => new[i - 1] = log[i - 1]
      BY <1>3, <2>2
    <3>3. Decided(log[i], seq + 1)
      BY <3>1 DEF Decided
    <3> QED BY <3>1, <3>2, <3>3
  <2> QED BY <1>3, <2>1, <2>2
<1> QED BY <1>3, <1>4 DEF LogInOrder, new

\* One receipt changes, and is a receipt still.
LEMMA ReceiptSet ==
  ASSUME ReceiptInv, NEW x, NEW new, x \in Receipts => new = None \/ IsReceipt(new),
         receipt' = [receipt EXCEPT ![x] = new]
  PROVE  ReceiptInv'
BY DEF ReceiptInv

LEMMA ReceiptInitially == Init => ReceiptInv
BY DEF Init, PrivacyInit, ReceiptInv

LEMMA ReceiptApplied ==
  ASSUME ReceiptInv, NEW rc, IsReceipt(rc), NEW body, ~Stale(rc, body)
  PROVE  IsReceipt(Applied(rc, body))
<1> DEFINE d == [id |-> body.id, seq |-> rc.seq + 1, saw |-> body.seq,
                 kind |-> [p \in DOMAIN body.choices |-> Kind(rc, body, p)]]
<1>1. rc.seq \in Nat /\ LogInOrder(rc.log, rc.seq)
  BY DEF IsReceipt
<1>2. ASSUME NEW p \in DOMAIN d.kind, d.kind[p] = "granted"
      PROVE  d.saw = d.seq - 1
  <2>1. p \in DOMAIN body.choices /\ Kind(rc, body, p) = "granted"
    BY <1>2
  <2>2. body.choices[p] = "granted"
    BY <2>1 DEF Kind
  <2>3. body.seq = rc.seq
    BY <2>1, <2>2 DEF Stale, Grants
  <2> QED BY <1>1, <2>3
<1>3. d.seq = rc.seq + 1
  OBVIOUS
<1> HIDE DEF d
<1>4. Decided(d, rc.seq + 1)
  BY <1>1, <1>2, <1>3 DEF Decided
<1>5. LogInOrder(Append(rc.log, d), rc.seq + 1)
  BY <1>1, <1>3, <1>4, LogGrows
<1> DEFINE choice == [p \in Purposes |-> IF p \in DOMAIN body.choices
              THEN [state |-> body.choices[p], revision |-> revision, live |-> TRUE]
              ELSE rc.choice[p]]
           log == Append(rc.log, d)
<1>6. Applied(rc, body) = [seq |-> rc.seq + 1, choice |-> choice, log |-> log]
  BY DEF Applied, d
<1>7. rc.seq + 1 \in Nat /\ LogInOrder(log, rc.seq + 1)
  BY <1>1, <1>5
<1> HIDE DEF choice, log
<1> QED BY <1>6, <1>7 DEF IsReceipt

LEMMA ReceiptStep ==
  ASSUME ReceiptInv, [Next]_vars
  PROVE  ReceiptInv'
<1>1. CASE receipt' = receipt
  BY <1>1 DEF ReceiptInv
<1>2. ASSUME NEW r \in Requests, Apply(r)
      PROVE  ReceiptInv'
  <2> DEFINE body == req[r].arg.body
             known == Found(req[r].held)
  <2>1. PICK x \in (IF known THEN {req[r].held} ELSE {y \in Receipts : receipt[y] = None}) :
          LET rc == IF known THEN receipt[x] ELSE NewReceipt IN
          \/ UNCHANGED receipt
          \/ ~Stale(rc, body) /\ receipt' = [receipt EXCEPT ![x] = Applied(rc, body)]
    BY <1>2 DEF Apply
  <2> DEFINE rc == IF known THEN receipt[x] ELSE NewReceipt
  <2>2. CASE ~Stale(rc, body) /\ receipt' = [receipt EXCEPT ![x] = Applied(rc, body)]
    <3>1. ASSUME x \in Receipts
          PROVE  IsReceipt(rc)
      <4>1. CASE known
        <5>1. rc = receipt[x] /\ receipt[x] # None
          BY <2>1, <4>1 DEF Found
        <5> QED BY <3>1, <5>1 DEF ReceiptInv
      <4>2. CASE ~known
        <5>1. LogInOrder(<<>>, 0)
          BY EmptyLogInOrder
        <5>2. rc = NewReceipt
          BY <4>2
        <5> QED BY <5>1, <5>2 DEF NewReceipt, IsReceipt
      <4> QED BY <4>1, <4>2
    <3> HIDE DEF rc, body
    <3>2. x \in Receipts => IsReceipt(Applied(rc, body))
      BY <2>2, <3>1, ReceiptApplied
    <3> QED BY <2>2, <3>2, ReceiptSet
  <2> QED BY <1>1, <2>1, <2>2
<1>3. ASSUME NEW x \in Receipts, ChoicesExpire(x)
      PROVE  ReceiptInv'
  <2> DEFINE rc == receipt[x]
             choice == [p \in Purposes |-> [receipt[x].choice[p] EXCEPT !.live = FALSE]]
             new == [rc EXCEPT !.choice = choice]
  <2>1. receipt' = [receipt EXCEPT ![x] = new]
    BY <1>3 DEF ChoicesExpire
  <2>2. IsReceipt(rc)
    BY <1>3 DEF ChoicesExpire, Found, ReceiptInv
  <2> HIDE DEF rc, choice
  <2>3. new = [seq |-> rc.seq, choice |-> choice, log |-> rc.log]
    BY <2>2 DEF IsReceipt
  <2> HIDE DEF new
  <2>4. IsReceipt(new)
    BY <2>2, <2>3 DEF IsReceipt
  <2> QED BY <2>1, <2>4, ReceiptSet
<1>4. ASSUME NEW x \in Receipts, PruneEvidence(x)
      PROVE  ReceiptInv'
  <2> DEFINE rc == receipt[x]
             choice == [p \in Purposes |-> NoChoice]
             empty == <<>>
             mid == [rc EXCEPT !.choice = choice]
             new == [mid EXCEPT !.log = empty]
  <2>1. receipt' = [receipt EXCEPT ![x] = new]
    BY <1>4 DEF PruneEvidence
  <2>2. IsReceipt(rc)
    BY <1>4 DEF PruneEvidence, Expired, Found, ReceiptInv
  <2>3. rc.seq \in Nat /\ LogInOrder(empty, rc.seq)
    BY <2>2, EmptyLogInOrder DEF IsReceipt
  <2> HIDE DEF rc, choice, empty
  <2>4. mid = [seq |-> rc.seq, choice |-> choice, log |-> rc.log]
    BY <2>2 DEF IsReceipt
  <2> HIDE DEF mid
  <2>5. new = [seq |-> rc.seq, choice |-> choice, log |-> empty]
    BY <2>4
  <2> HIDE DEF new
  <2>6. IsReceipt(new)
    BY <2>5, <2>3 DEF IsReceipt
  <2> QED BY <2>1, <2>6, ReceiptSet
<1>5. CASE PruneReceipts
  BY <1>5 DEF PruneReceipts, ReceiptInv
<1>6. CASE PrivacyStep
  <2>1. CASE UNCHANGED receipt
    BY <1>1, <2>1
  <2>2. \/ UNCHANGED receipt
        \/ \E r \in Requests : Apply(r)
        \/ \E x \in Receipts : ChoicesExpire(x) \/ PruneEvidence(x)
        \/ PruneReceipts
    BY <1>6 DEF PrivacyStep, Render, Send, Resend, Resolve, Receive, Fail, ReviseManifest,
                privacyVars
  <2> QED BY <1>2, <1>3, <1>4, <1>5, <2>1, <2>2
<1>7. PrivacyStep \/ receipt' = receipt
  BY DEF Next, vars, privacyVars
<1> QED BY <1>1, <1>6, <1>7

\* However choices are sent, sent again, delayed and applied, and whatever is
\* pruned meanwhile, a grant on a receipt was decided by a page that had seen
\* every earlier decision there (apply_choice_request).
THEOREM GrantsAreInformed == Spec => []GrantsSawEverything
<1>1. ReceiptInv => GrantsSawEverything
  <2> SUFFICES ASSUME ReceiptInv, NEW x \in Receipts, Found(x),
                      NEW i \in DOMAIN receipt[x].log
               PROVE  LET d == receipt[x].log[i] IN
                      /\ (\E p \in DOMAIN d.kind : d.kind[p] = "granted")
                           => d.saw = d.seq - 1
                      /\ i > 1 => d.seq > receipt[x].log[i - 1].seq
    BY DEF GrantsSawEverything
  <2> DEFINE log == receipt[x].log
  <2>1. LogInOrder(log, receipt[x].seq)
    BY DEF ReceiptInv, Found, IsReceipt
  <2>2. i \in 1 .. Len(log)
    BY <2>1 DEF LogInOrder
  <2> QED BY <2>1, <2>2 DEF LogInOrder, Decided
<1>2. ReceiptInv /\ UNCHANGED vars => ReceiptInv'
  BY DEF ReceiptInv, vars, privacyVars
<1> QED BY ReceiptInitially, ReceiptStep, <1>1, PTL DEF Spec
===============================================================================
