------------------------------ MODULE Assistant ------------------------------
(***************************************************************************)
(* Turns of the assistant chat (assistant/turns.py): `run_turn` runs once   *)
(* per WebSocket connection in some server process, a heartbeat says it is  *)
(* alive, stale turns are marked interrupted by whoever comes along, and    *)
(* the chat row carries the reference of the provider's own session, which  *)
(* stands in for the stored history when it is resumed.                     *)
(***************************************************************************)
EXTENDS Integers, FiniteSets

CONSTANTS
  Chats, Users,
  Conns,          \* WebSocket connections, one running turn each
  MaxTurn,        \* bound: turn rows the run may insert
  MaxConcurrent,  \* DCM_ASSISTANT_LIMITS: max_concurrent_turns
  MaxPerUser,     \* DCM_ASSISTANT_LIMITS: max_turns_per_user
  Faults,         \* what may happen: "crash", "slow", "stale_patch"
  NoTurn,         \* no turn, no session
  NoChat, NoUser

ASSUME AssistantAssumption ==
  /\ MaxTurn \in Nat \ {0}
  /\ MaxConcurrent \in Nat \ {0}
  /\ MaxPerUser \in Nat \ {0}
  /\ Faults \subseteq {"crash", "slow", "stale_patch"}
  /\ NoTurn \notin 1 .. MaxTurn
  /\ NoChat \notin Chats
  /\ NoUser \notin Users

VARIABLES
  turns,  \* table AssistantTurn, in the order of created_at
  chats,  \* table AssistantChat
  conn,   \* what each connection's task is doing
  files,  \* CLI sessions on disk: the turns each one knows
  patch   \* a PATCH of a chat between its read and its save

vars == <<turns, chats, conn, files, patch>>

Turns    == 1 .. MaxTurn
Terminal == {"completed", "failed", "cancelled", "interrupted"}
States   == Terminal \cup {"none", "generating", "deleted"}
DriverNames == {"claude_cli", "api"}
Driving  == {"commit", "recount", "prepare", "stream", "finish"}
Steps    == {"idle", "create"} \cup Driving

TurnRow == [chat : Chats \cup {NoChat}, sender : Users \cup {NoUser},
            sequence : Nat, driver : DriverNames, state : States,
            fresh : BOOLEAN]
ChatRow == [driver : DriverNames, session : Turns \cup {NoTurn},
            archived : BOOLEAN]

\* `orphan`: the coroutine was cancelled while _start ran on in its thread;
\* `session`: the CLI session it resumes; `context`: the turns the provider sees
Conn == [step : Steps, chat : Chats \cup {NoChat}, sender : Users \cup {NoUser},
         turn : Turns \cup {NoTurn}, orphan : BOOLEAN,
         session : Turns \cup {NoTurn}, context : SUBSET Turns,
         result : {"none", "completed", "failed", "cancelled"}]

Idle == [step |-> "idle", chat |-> NoChat, sender |-> NoUser, turn |-> NoTurn,
         orphan |-> FALSE, session |-> NoTurn, context |-> {}, result |-> "none"]
NoPatch == [chat |-> NoChat]

Coherent(task) ==
  /\ task.step # "idle" => task.chat \in Chats /\ task.sender \in Users
  /\ task.step \in Driving => task.turn \in Turns
  /\ task.step = "finish" => task.result # "none"

TypeOK ==
  /\ turns \in [Turns -> TurnRow]
  /\ chats \in [Chats -> ChatRow]
  /\ conn \in [Conns -> Conn]
  /\ files \in [Turns -> SUBSET Turns]
  /\ patch \in {NoPatch} \cup [chat : Chats, row : ChatRow]
  /\ \A k \in Conns : Coherent(conn[k])

Init ==
  /\ turns = [t \in Turns |->
       [chat |-> NoChat, sender |-> NoUser, sequence |-> 0, driver |-> "api",
        state |-> "none", fresh |-> FALSE]]
  /\ chats \in [Chats -> [driver : DriverNames, session : {NoTurn},
                          archived : {FALSE}]]
  /\ conn = [k \in Conns |-> Idle]
  /\ files = [t \in Turns |-> {}]
  /\ patch = NoPatch

At(k, step)     == conn[k].step = step
Become(k, task) == conn' = [conn EXCEPT ![k] = task]
Goto(k, step)   == Become(k, [conn[k] EXCEPT !.step = step])
Leave(k)        == Become(k, Idle)

\* the chat row is locked from the SELECT FOR UPDATE to the commit; a PATCH takes
\* no lock, and only "stale_patch" lets another write come between its two steps
Locked(c) == \/ \E k \in Conns : At(k, "commit") /\ conn[k].chat = c
             \/ patch.chat = c /\ "stale_patch" \notin Faults

\* what other transactions see
Visible(t) == /\ turns[t].state \notin {"none", "deleted"}
              /\ ~ \E k \in Conns : At(k, "commit") /\ conn[k].turn = t
VisibleIn(c)  == {t \in Turns : Visible(t) /\ turns[t].chat = c}
Generating    == {t \in Turns : Visible(t) /\ turns[t].state = "generating"}
Active        == {t \in Generating : turns[t].fresh}
ActiveOf(u)   == {t \in Active : turns[t].sender = u}
Completed(c)  == {t \in VisibleIn(c) : turns[t].state = "completed"}

Before(t, set) == {s \in set : s < t}

\* mutant: only looks at turns that never had a heartbeat
BugNeverStale(set) == turns

\* reconcile_interrupted on these turns: whatever has no recent heartbeat
Interrupted(set) ==
  [t \in Turns |-> IF t \in (set \cap Generating) \ Active
                   THEN [turns[t] EXCEPT !.state = "interrupted"] ELSE turns[t]]

-----------------------------------------------------------------------------
(* Starting a turn *)

\* ChatConsumer.receive_json: one task per connection, which starts by
\* reconciling the stale turns of all chats
Send(k) ==
  /\ At(k, "idle")
  /\ \E c \in Chats, u \in Users :
       Become(k, [Idle EXCEPT !.step = "create", !.chat = c, !.sender = u])
  /\ turns' = Interrupted(Turns)
  /\ UNCHANGED <<chats, files, patch>>

\* mutant: neither the check nor the index keeps a second turn out
BugNoActiveCheck(c, u) ==
  \/ chats[c].archived
  \/ Cardinality(Active) >= MaxConcurrent
  \/ Cardinality(ActiveOf(u)) >= MaxPerUser

\* the checks of _create_turn, the partial unique index among them
Refused(c, u) ==
  \/ chats[c].archived
  \/ Generating \cap VisibleIn(c) # {}
  \/ Cardinality(Active) >= MaxConcurrent
  \/ Cardinality(ActiveOf(u)) >= MaxPerUser

\* mutant: numbers the turns by counting those the history will hold
BugCounts(c, n) == n = Cardinality(Completed(c)) + 1

\* one more than the highest number in the chat
NextSequence(c, n) ==
  /\ \A t \in VisibleIn(c) : turns[t].sequence < n
  /\ n = 1 \/ \E t \in VisibleIn(c) : turns[t].sequence = n - 1

\* _create_turn under the chat's row lock, up to the insert; the chat's driver,
\* or the default entry where the catalogue disabled it since
Create(k) ==
  LET c == conn[k].chat IN
  /\ At(k, "create")
  /\ ~ Locked(c)
  /\ \/ /\ Refused(c, conn[k].sender)
        /\ Leave(k)
        /\ UNCHANGED turns
     \/ /\ ~ Refused(c, conn[k].sender)
        /\ \E t \in Turns, n \in 1 .. MaxTurn + 1, driver \in DriverNames :
             /\ turns[t].state = "none"
             /\ \A s \in Before(t, Turns) : turns[s].state # "none"
             /\ NextSequence(c, n)
             /\ turns' = [turns EXCEPT ![t] =
                  [chat |-> c, sender |-> conn[k].sender, sequence |-> n,
                   driver |-> driver, state |-> "generating", fresh |-> TRUE]]
             /\ Become(k, [conn[k] EXCEPT !.step = "commit", !.turn = t])
  /\ UNCHANGED <<chats, files, patch>>

Commit(k) ==
  /\ At(k, "commit")
  /\ chats' = [chats EXCEPT ![conn[k].chat].driver = turns[conn[k].turn].driver]
  /\ Goto(k, "recount")
  /\ UNCHANGED <<turns, files, patch>>

\* _over_limit, in the order of created_at
OverLimit(t) ==
  \/ t \in Active /\ Cardinality(Before(t, Active)) >= MaxConcurrent
  \/ LET mine == ActiveOf(turns[t].sender)
     IN  t \in mine /\ Cardinality(Before(t, mine)) >= MaxPerUser

\* _start after the commit; nobody drives the turn of a cancelled coroutine
Recount(k) ==
  LET t == conn[k].turn IN
  /\ At(k, "recount")
  /\ turns' = IF OverLimit(t) THEN [turns EXCEPT ![t].state = "deleted"] ELSE turns
  /\ IF OverLimit(t) \/ conn[k].orphan THEN Leave(k) ELSE Goto(k, "prepare")
  /\ UNCHANGED <<chats, files, patch>>

-----------------------------------------------------------------------------
(* Running it *)

Resumable(c, driver) == driver = "claude_cli" /\ chats[c].session # NoTurn

\* run_turn up to the provider call: resume the CLI session, or rebuild the
\* history from the stored turns; a new summary discards the session, a changed
\* prompt version or a full session only skips it
Prepare(k) ==
  LET c == conn[k].chat
      driver == turns[conn[k].turn].driver
  IN
  /\ At(k, "prepare")
  /\ ~ Locked(c)
  /\ \E resume \in BOOLEAN, summarised \in BOOLEAN :
       /\ resume => Resumable(c, driver) /\ ~ summarised
       /\ chats' = IF summarised /\ driver = "claude_cli"
                   THEN [chats EXCEPT ![c].session = NoTurn] ELSE chats
       /\ Become(k, [conn[k] EXCEPT !.step = "stream",
            !.session = IF resume THEN chats[c].session ELSE NoTurn,
            !.context = IF resume THEN files[chats[c].session] ELSE Completed(c)])
  /\ UNCHANGED <<turns, files, patch>>

\* mutant: forgets to record how the turn ended
BugNoResult(k) ==
  LET t == conn[k].turn
      session == IF conn[k].session = NoTurn THEN t ELSE conn[k].session
  IN
  /\ At(k, "stream")
  /\ files' = IF turns[t].driver = "claude_cli"
              THEN [files EXCEPT ![session] = @ \cup conn[k].context \cup {t}]
              ELSE files
  /\ Become(k, [conn[k] EXCEPT !.step = "finish", !.session = session, !.context = {}])
  /\ UNCHANGED <<turns, chats, patch>>

\* the provider's answer is complete
Answer(k) ==
  LET t == conn[k].turn
      session == IF conn[k].session = NoTurn THEN t ELSE conn[k].session
  IN
  /\ At(k, "stream")
  /\ files' = IF turns[t].driver = "claude_cli"
              THEN [files EXCEPT ![session] = @ \cup conn[k].context \cup {t}]
              ELSE files
  /\ Become(k, [conn[k] EXCEPT !.step = "finish", !.session = session,
                                !.context = {}, !.result = "completed"])
  /\ UNCHANGED <<turns, chats, patch>>

\* stop, lost access, a timeout or an error; a resumed session that never
\* reached its init event is discarded
Abort(k) ==
  LET c == conn[k].chat IN
  /\ conn[k].step \in {"prepare", "stream"}
  /\ ~ Locked(c)
  /\ \E result \in {"failed", "cancelled"}, discard \in BOOLEAN :
       /\ discard => conn[k].session # NoTurn
       /\ Become(k, [conn[k] EXCEPT !.step = "finish", !.session = NoTurn,
                                     !.context = {}, !.result = result])
       /\ chats' = IF discard THEN [chats EXCEPT ![c].session = NoTurn] ELSE chats
  /\ UNCHANGED <<turns, files, patch>>

\* mutant: an API turn leaves the CLI session in place
BugKeepsSession(c, t, session) == IF session # NoTurn THEN session ELSE chats[c].session

NewSession(c, t, session) ==
  IF turns[t].driver # "claude_cli" THEN NoTurn
  ELSE IF session # NoTurn THEN session ELSE chats[c].session

\* mutant: does not look whether the turn is still being generated
BugFinishAlways(k) ==
  LET c == conn[k].chat
      t == conn[k].turn
  IN
  /\ At(k, "finish")
  /\ ~ Locked(c)
  /\ turns' = [turns EXCEPT ![t].state = conn[k].result]
  /\ chats' = [chats EXCEPT ![c].session = NewSession(c, t, conn[k].session)]
  /\ Leave(k)
  /\ UNCHANGED <<files, patch>>

\* _finish, under the locks of the turn and its chat
Finish(k) ==
  LET c == conn[k].chat
      t == conn[k].turn
  IN
  /\ At(k, "finish")
  /\ ~ Locked(c)
  /\ IF turns[t].state = "generating"
     THEN /\ turns' = [turns EXCEPT ![t].state = conn[k].result]
          /\ chats' = [chats EXCEPT ![c].session = NewSession(c, t, conn[k].session)]
     ELSE UNCHANGED <<turns, chats>>
  /\ Leave(k)
  /\ UNCHANGED <<files, patch>>

-----------------------------------------------------------------------------
(* Heartbeats, cancellations and crashes *)

Driven(t) == \E k \in Conns : conn[k].turn = t /\ conn[k].step \in Driving

\* stale_turn_seconds have passed since the last heartbeat
GoStale(t) ==
  /\ turns[t].state = "generating"
  /\ turns[t].fresh
  /\ ~ Driven(t) \/ "slow" \in Faults
  /\ turns' = [turns EXCEPT ![t].fresh = FALSE]
  /\ UNCHANGED <<chats, conn, files, patch>>

Beat(k) ==
  LET t == conn[k].turn IN
  /\ conn[k].step \in {"prepare", "stream", "finish"}
  /\ turns[t].state = "generating"
  /\ ~ turns[t].fresh
  /\ turns' = [turns EXCEPT ![t].fresh = TRUE]
  /\ UNCHANGED <<chats, conn, files, patch>>

\* any request for the chat, its WebSocket's connect, or the batch command
OpenChat(c) ==
  /\ turns' = Interrupted({t \in Turns : turns[t].chat = c})
  /\ UNCHANGED <<chats, conn, files, patch>>

\* stop or disconnect while the thread is still inside _start
StopEarly(k) ==
  /\ conn[k].step \in {"create", "commit", "recount"}
  /\ ~ conn[k].orphan
  /\ Become(k, [conn[k] EXCEPT !.orphan = TRUE])
  /\ UNCHANGED <<turns, chats, files, patch>>

\* the server process dies: an open transaction rolls back
Crash(k) ==
  /\ "crash" \in Faults
  /\ ~ At(k, "idle")
  /\ turns' = IF At(k, "commit")
              THEN [turns EXCEPT ![conn[k].turn].state = "deleted"] ELSE turns
  /\ Leave(k)
  /\ UNCHANGED <<chats, files, patch>>

-----------------------------------------------------------------------------
(* PATCH of a chat: the whole row is read, changed and saved without a lock *)

PatchRead(c) ==
  /\ patch = NoPatch
  /\ ~ Locked(c)
  /\ patch' = [chat |-> c, row |-> chats[c]]
  /\ UNCHANGED <<turns, chats, conn, files>>

\* an archived chat can only be restored
PatchSave ==
  LET c == patch.chat IN
  /\ patch # NoPatch
  /\ ~ \E k \in Conns : At(k, "commit") /\ conn[k].chat = c
  /\ \E driver \in DriverNames, archived \in BOOLEAN :
       /\ patch.row.archived => ~ archived
       /\ chats' = [chats EXCEPT ![c] =
            [patch.row EXCEPT !.driver = driver, !.archived = archived]]
  /\ patch' = NoPatch
  /\ UNCHANGED <<turns, conn, files>>

-----------------------------------------------------------------------------
Task(k) ==
  \/ Send(k) \/ Create(k) \/ Commit(k) \/ Recount(k) \/ Prepare(k)
  \/ Answer(k) \/ Abort(k) \/ Finish(k) \/ Beat(k)
  \/ StopEarly(k) \/ Crash(k)

Next ==
  \/ \E k \in Conns : Task(k)
  \/ \E t \in Turns : GoStale(t)
  \/ \E c \in Chats : OpenChat(c) \/ PatchRead(c)
  \/ PatchSave

Spec == Init /\ [][Next]_vars

\* A live task goes on: every provider call ends, if only by provider_timeout,
\* and a row lock is granted in turn, however many requests want it.
\* Time passes for a turn nobody drives, and somebody opens the chat again.
Fairness ==
  /\ \A k \in Conns :
       SF_vars(Create(k) \/ Commit(k) \/ Recount(k) \/ Prepare(k) \/ Answer(k)
               \/ Finish(k))
  /\ \A t \in Turns : WF_vars(~ Driven(t) /\ GoStale(t))
  /\ \A c \in Chats : WF_vars(OpenChat(c))
  /\ WF_vars(PatchSave)

FairSpec == Spec /\ Fairness

-----------------------------------------------------------------------------
\* A chat never has two turns that are being generated.
OneGenerating ==
  \A s, t \in Turns :
    /\ turns[s].state = "generating" /\ turns[t].state = "generating"
    /\ turns[s].chat = turns[t].chat
    => s = t

\* The turns of a chat are numbered without a clash, whatever was refused,
\* rolled back or deleted in between.
SequenceUnique ==
  \A s, t \in Turns :
    /\ turns[s].state \notin {"none", "deleted"}
    /\ turns[t].state \notin {"none", "deleted"}
    /\ turns[s].chat = turns[t].chat /\ turns[s].sequence = turns[t].sequence
    => s = t

\* A turn that ended keeps its state: a task that comes back late, or a
\* reconciliation, never changes what the user was shown (_start may still
\* remove a turn it refuses).
TerminalIsFinal ==
  [][\A t \in Turns : turns[t].state \in Terminal
       => turns'[t].state \in {turns[t].state, "deleted"}]_vars

\* The provider always sees every completed turn of the chat: a resumed session
\* lacks none of them, whichever driver answered them.
ContextIsComplete ==
  [][\A k \in Conns : At(k, "prepare") /\ conn'[k].step = "stream"
       => Completed(conn[k].chat) \subseteq conn'[k].context]_vars

\* No turn is generated forever, not even one whose process died.
TurnEnds ==
  \A t \in Turns : turns[t].state = "generating" ~> turns[t].state # "generating"
=============================================================================
