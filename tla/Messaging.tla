------------------------------ MODULE Messaging ------------------------------
(***************************************************************************)
(* One conversation (messaging): its membership, which a provider of the   *)
(* app dictates, messages with attachments and polls, read marks, and the  *)
(* realtime frames and notifications that follow a commit.                 *)
(*                                                                         *)
(* A request reads rows in one step and writes in a later one whenever the *)
(* code does so without a lock.  The transaction of a message stays open   *)
(* while its files are scanned and stored; it holds the message's unique   *)
(* key and the conversation's row, and nobody sees the message before it   *)
(* commits.  After the commit the request publishes the frame and then     *)
(* works as a process of Notifications.                                    *)
(***************************************************************************)
EXTENDS Notifications

CONSTANTS
  Kinds,       \* kinds of conversation
  Moderators,  \* users the policy gives every moderation right
  Options,     \* options of a poll
  MaxFiles,    \* bound: files of one upload
  Operations,  \* bound: operations that requests perform
  NoRow

ASSUME MessagingAssumption ==
  Kinds \subseteq {"direct", "group"} /\ Moderators \subseteq Users /\ MaxFiles \in Nat

VARIABLES
  kind,         \* of the conversation
  provider,     \* members the app's provider names at the moment
  participant,  \* ConversationParticipant rows
  message,      \* committed messages, by client request id
  votes,        \* <<message, user, option>>
  clock,        \* read marks and created_at
  blob,         \* <<message, process, file>> in the storage
  req,          \* the request a process serves
  framed, heard, \* messages published; users who were told of them
  may,          \* users who could be told of a message since it was committed
  leaked,       \* break-glass reads that returned a deleted message's text
  died          \* blobs whose request died, with nobody to delete them

roomVars == <<kind, provider, participant, message, votes, clock, blob, req>>
spyVars == <<framed, heard, may, leaked, died>>
vars == <<notifyVars, roomVars, spyVars>>
Unnotified == UNCHANGED <<rowVars, ghostVars, worldVars>>
RoomAsItWas == UNCHANGED <<kind, provider, participant, message, votes, clock, blob, spyVars>>
               /\ Unnotified

NoRequest == [op |-> "none", user |-> NoUser, key |-> NoTarget, stamp |-> 0,
              files |-> 0, stored |-> 0, option |-> NoRow, set |-> {}, flag |-> FALSE]
Manual == [source |-> "manual", live |-> TRUE, muted |-> FALSE, archived |-> FALSE, read |-> 0]
Provided == [Manual EXCEPT !.source = "provider"]

ParticipantRow == [source: {"manual", "provider"}, live: BOOLEAN, muted: BOOLEAN,
                   archived: BOOLEAN, read: Nat]
MessageRow == [sender: Users, at: Nat \ {0}, text: BOOLEAN, deleted: BOOLEAN,
               poll: {"none", "open", "closed"},
               files: SUBSET (Messages \X Processes \X (1 .. MaxFiles))]
ASSUME NoRowAssumption == NoRow \notin ParticipantRow /\ NoRow \notin MessageRow

TypeOK ==
  /\ NotificationsTypeOK
  /\ kind \in Kinds /\ provider \subseteq Users
  /\ participant \in [Users -> ParticipantRow \cup {NoRow}]
  /\ message \in [Messages -> MessageRow \cup {NoRow}]
  /\ votes \subseteq Messages \X Users \X Options
  /\ blob \subseteq Messages \X Processes \X (1 .. MaxFiles)

(***************************************************************************)
(* Who may do what.                                                        *)
(***************************************************************************)
Live(u) == participant[u] # NoRow /\ participant[u].live
CanView(u) == Live(u) \/ u \in provider \/ u \in Moderators
Rights(u) == u \in Moderators
Reachable(sender) == {u \in Users \ {sender} : Live(u) /\ ~participant[u].muted}
\* resolve_live_recipients(): the policy's users among the participants now
ResolveRecipients(sender) == Reachable(sender) \cap (provider \cup
                               {u \in Users : Live(u) /\ participant[u].source = "manual"})

Begin(p, op, u) == Serve(p, 1) /\ op \in Operations /\ CanView(u)
                   /\ job' = [job EXCEPT ![p].at = "request"]
At(p, op) == On(p, "request") /\ req[p].op = op
Reply(p) == job' = [job EXCEPT ![p].at = "idle"] /\ req' = [req EXCEPT ![p] = NoRequest]
Step(p, op) == req' = [req EXCEPT ![p].op = op] /\ UNCHANGED job

(***************************************************************************)
(* send_message(), with the upload of files and the creation of polls.     *)
(***************************************************************************)
Sending == {"touch", "file", "poll", "commit"}
Inserted(k) == \E q \in Processes : req[q].key = k /\ req[q].op \in Sending
Touched == \E q \in Processes : req[q].op \in Sending \ {"touch"}

Send(p) ==
  \E u \in Users, k \in Messages, n \in 0 .. MaxFiles, isPoll \in BOOLEAN :
    /\ Begin(p, "send", u) /\ Live(u)
    /\ message[k] # NoRow => message[k].sender = u
    /\ \A q \in Processes : req[q].op \in Sending /\ req[q].key = k => req[q].user = u
    /\ isPoll => n = 0
    /\ req' = [req EXCEPT ![p] = [NoRequest EXCEPT !.op = "insert", !.user = u, !.key = k,
                                                   !.files = n, !.flag = isPoll]]
    /\ RoomAsItWas

\* A request id that was used before returns its message; create_poll() gives
\* it a poll if it has none.
Repeated(p) ==
  LET k == req[p].key IN
  /\ message' = [message EXCEPT ![k].poll = IF req[p].flag /\ @ = "none" THEN "open" ELSE @]
  /\ Reply(p) /\ UNCHANGED clock

BugInsert(p) ==
  /\ At(p, "insert")
  /\ clock' = clock + 1
  /\ req' = [req EXCEPT ![p].op = "touch", ![p].stamp = clock + 1]
  /\ UNCHANGED <<job, message>>
  /\ UNCHANGED <<kind, provider, participant, votes, blob, spyVars>>
  /\ Unnotified

\* the unique constraint waits for the transaction that holds the same key
Insert(p) ==
  /\ At(p, "insert") /\ ~Inserted(req[p].key)
  /\ \/ message[req[p].key] # NoRow /\ Repeated(p)
     \/ /\ message[req[p].key] = NoRow
        /\ clock' = clock + 1
        /\ req' = [req EXCEPT ![p].op = "touch", ![p].stamp = clock + 1]
        /\ UNCHANGED <<job, message>>
  /\ UNCHANGED <<kind, provider, participant, votes, blob, spyVars>>
  /\ Unnotified

\* last_message_at: the conversation's row is locked until the commit
Touch(p) ==
  /\ At(p, "touch") /\ ~Touched
  /\ Step(p, IF req[p].files > 0 THEN "file" ELSE "commit")
  /\ RoomAsItWas

Blobs(p, n) == {<<req[p].key, p, i>> : i \in 1 .. n}

BugRejectFile(p) ==
  /\ At(p, "file")
  /\ blob' = blob
  /\ Reply(p)
  /\ UNCHANGED <<kind, provider, participant, message, votes, clock, spyVars>>
  /\ Unnotified

StoreFile(p) ==
  LET n == req[p].stored + 1 IN
  /\ At(p, "file")
  /\ blob' = blob \cup {<<req[p].key, p, n>>}
  /\ req' = [req EXCEPT ![p].stored = n, ![p].op = IF n = req[p].files THEN "commit" ELSE "file"]
  /\ UNCHANGED <<job, kind, provider, participant, message, votes, clock, spyVars>>
  /\ Unnotified

\* The file is refused, or its thumbnail or row fails after its blob was saved:
\* create_attachment() deletes that blob, the view those of the earlier files,
\* and the transaction rolls back.
RejectFile(p) ==
  /\ At(p, "file")
  /\ blob' = blob \ Blobs(p, req[p].stored + 1)
  /\ Reply(p)
  /\ UNCHANGED <<kind, provider, participant, message, votes, clock, spyVars>>
  /\ Unnotified

Commit(p) ==
  LET r == req[p] IN
  /\ At(p, "commit")
  /\ message' = [message EXCEPT ![r.key] =
       [sender |-> r.user, at |-> r.stamp, text |-> TRUE, deleted |-> FALSE,
        poll |-> IF r.flag THEN "open" ELSE "none", files |-> Blobs(p, r.stored)]]
  /\ participant' = [u \in Users |-> IF Live(u) /\ u # r.user
                                       THEN [participant[u] EXCEPT !.archived = FALSE]
                                       ELSE participant[u]]
  /\ Step(p, "publish")
  /\ UNCHANGED <<kind, provider, votes, clock, blob, framed, heard, leaked, died>>
  /\ may' = [may EXCEPT ![r.key] = Reachable(r.user)]
  /\ Unnotified

\* the first callback: frames, resolved now
Publish(p) ==
  LET r == req[p] IN
  /\ At(p, "publish")
  /\ framed' = [framed EXCEPT ![r.key] = @ + 1]
  /\ heard' = [heard EXCEPT ![r.key] = @ \cup ResolveRecipients(r.user)]
  /\ Step(p, "notify")
  /\ UNCHANGED <<kind, provider, participant, message, votes, clock, blob, may, leaked, died>>
  /\ Unnotified

\* the last callback: recipients resolved once more, then notify()
NotifyMessage(p) ==
  LET r == req[p] us == ResolveRecipients(r.user) IN
  /\ At(p, "notify")
  /\ heard' = [heard EXCEPT ![r.key] = @ \cup us]
  /\ Notify(p, r.key, us)
  /\ req' = [req EXCEPT ![p] = NoRequest]
  /\ UNCHANGED <<kind, provider, participant, message, votes, clock, blob, framed, may, leaked, died>>
  /\ Unnotified

(***************************************************************************)
(* Messages and polls that are there: read first, written later.           *)
(***************************************************************************)
\* the view's copy of a message: a request acts on what it read
Open(p, op, u, k, flag) ==
  /\ Begin(p, op, u) /\ message[k] # NoRow
  /\ req' = [req EXCEPT ![p] = [NoRequest EXCEPT !.op = op, !.user = u, !.key = k, !.flag = flag]]
  /\ RoomAsItWas

Edit(p) == \E u \in Users, k \in Messages :
  message[k] # NoRow /\ (message[k].sender = u \/ Rights(u))
  /\ Open(p, "edit", u, k, message[k].deleted)
Delete(p) == \E u \in Users, k \in Messages :
  message[k] # NoRow /\ (message[k].sender = u \/ Rights(u))
  /\ Open(p, "delete", u, k, message[k].deleted)

\* edit_message() looks at deleted_at of its copy and writes only the text
SaveEdit(p) ==
  /\ At(p, "edit")
  /\ message' = [message EXCEPT ![req[p].key].text = @ \/ ~req[p].flag]
  /\ Reply(p)
  /\ UNCHANGED <<kind, provider, participant, votes, clock, blob, spyVars>>
  /\ Unnotified

SoftDelete(p) ==
  LET k == req[p].key IN
  /\ At(p, "delete")
  /\ message' = IF req[p].flag THEN message
                ELSE [message EXCEPT ![k].deleted = TRUE, ![k].text = FALSE]
  /\ Reply(p)
  /\ UNCHANGED <<kind, provider, participant, votes, clock, blob, spyVars>>
  /\ Unnotified

\* break_glass_read(): what it returned is remembered if it was deleted
BreakGlass(p) ==
  /\ Serve(p, 1) /\ "glass" \in Operations
  /\ \E u \in Moderators, k \in Messages :
       /\ message[k] # NoRow /\ kind # "direct"
       /\ leaked' = IF message[k].deleted /\ message[k].text THEN leaked \cup {k} ELSE leaked
  /\ UNCHANGED <<job, roomVars, framed, heard, may, died>>
  /\ Unnotified

Vote(p) == \E u \in Users, k \in Messages, o \in Options :
  /\ Begin(p, "vote", u) /\ Live(u)
  /\ message[k] # NoRow /\ message[k].poll = "open"
  /\ req' = [req EXCEPT ![p] = [NoRequest EXCEPT !.op = "vote", !.user = u, !.key = k,
                                                 !.option = o]]
  /\ RoomAsItWas

\* A single choice.  The transaction deletes the user's other votes it sees and
\* inserts its own, whatever happened to the poll since it was read.
ClearVotes(p) ==
  LET r == req[p] IN
  /\ At(p, "vote")
  /\ req' = [req EXCEPT ![p].op = "cast",
       ![p].set = {v \in votes : v[1] = r.key /\ v[2] = r.user /\ v[3] # r.option}]
  /\ RoomAsItWas /\ UNCHANGED job

CastVote(p) ==
  LET r == req[p] IN
  /\ At(p, "cast")
  /\ votes' = (votes \ r.set) \cup {<<r.key, r.user, r.option>>}
  /\ Reply(p)
  /\ UNCHANGED <<kind, provider, participant, message, clock, blob, spyVars>>
  /\ Unnotified

ClosePoll(p) == \E u \in Users, k \in Messages :
  /\ Serve(p, 1) /\ "close" \in Operations
  /\ message[k] # NoRow /\ message[k].poll # "none"
  /\ Live(u) /\ (message[k].sender = u \/ Rights(u))
  /\ message' = [message EXCEPT ![k].poll = "closed"]
  /\ UNCHANGED <<job, req, kind, provider, participant, votes, clock, blob, spyVars>>
  /\ Unnotified

(***************************************************************************)
(* Membership and the participants' own rows.                              *)
(***************************************************************************)
\* after a change of the participants: who could be told of what is committed
Watched ==
  may' = [k \in Messages |->
    IF message[k] = NoRow THEN {}
    ELSE may[k] \cup {u \in Users \ {message[k].sender} :
           participant'[u] # NoRow /\ participant'[u].live /\ ~participant'[u].muted}]
Own(p, op, u) == Serve(p, 1) /\ op \in Operations /\ Live(u)
Settled == /\ UNCHANGED <<kind, provider, message, votes, clock, blob, framed, heard, leaked, died>>
           /\ Unnotified

SetPreferences(p) == \E u \in Users :
  /\ Own(p, "preferences", u)
  /\ participant' = [participant EXCEPT ![u].muted = ~@]
  /\ Watched /\ Settled /\ UNCHANGED <<job, req>>

Archive(p) == \E u \in Users :
  /\ Own(p, "archive", u)
  /\ participant' = [participant EXCEPT ![u].archived = ~@]
  /\ Settled /\ UNCHANGED <<job, req, may>>

MarkRead(p) == \E u \in Users :
  /\ Begin(p, "read", u) /\ Live(u)
  /\ req' = [req EXCEPT ![p] = [NoRequest EXCEPT !.op = "read", !.user = u, !.stamp = clock,
                                                 !.stored = participant[u].read]]
  /\ Settled /\ UNCHANGED <<participant, may>>

\* mark_read() compares with the mark it read, not with the one that is there
SaveRead(p) ==
  /\ At(p, "read")
  /\ participant' = [participant EXCEPT ![req[p].user].read =
                       IF req[p].stamp > req[p].stored THEN req[p].stamp ELSE @]
  /\ Reply(p) /\ Settled /\ UNCHANGED may

\* open_direct(): both rows are manual
OpenDirect(p) == \E u, v \in Users :
  /\ Serve(p, 1) /\ "open" \in Operations
  /\ kind = "direct" /\ u # v
  /\ participant' = [w \in Users |-> IF w \in {u, v} /\ participant[w] = NoRow
                                        THEN Manual ELSE participant[w]]
  /\ Watched /\ Settled /\ UNCHANGED <<job, req>>

\* create_conversation() joins the actor and reconciles; the app also
\* reconciles when its domain changes.  The provider's snapshot is taken first.
Reconcile(p) == \E u \in Moderators \cup {NoUser}, absent \in BOOLEAN :
  /\ Serve(p, 1) /\ "reconcile" \in Operations /\ kind # "direct"
  /\ job' = [job EXCEPT ![p].at = "request"]
  /\ req' = [req EXCEPT ![p] = [NoRequest EXCEPT !.op = "members", !.user = u,
                                                 !.set = provider, !.flag = absent]]
  /\ Settled /\ UNCHANGED <<participant, may>>

\* a provider's member gets or regains a row, others lose only provided ones
Reconciled(u, r) ==
  LET row == participant[u] IN
  IF row = NoRow THEN IF u = r.user THEN Manual ELSE IF u \in r.set THEN Provided ELSE NoRow
  ELSE IF row.source = "manual" THEN row
  ELSE [row EXCEPT !.live = u \in r.set \/ (@ /\ ~r.flag)]

ApplyMembers(p) ==
  /\ At(p, "members")
  /\ participant' = [u \in Users |-> Reconciled(u, req[p])]
  /\ Reply(p) /\ Watched /\ Settled

\* the app's domain changes
DomainChanges ==
  /\ Count(3)
  /\ \E u \in Users : provider' = (provider \ {u}) \cup ({u} \ provider)
  /\ UNCHANGED <<kind, participant, message, votes, clock, blob, req, spyVars, job>>
  /\ Unnotified

\* the server dies under a request: its transaction rolls back, its files stay
RequestDies(p) ==
  /\ On(p, "request")
  /\ died' = died \cup (IF req[p].op \in Sending THEN Blobs(p, req[p].stored) ELSE {})
  /\ Reply(p)
  /\ UNCHANGED <<kind, provider, participant, message, votes, clock, blob>>
  /\ UNCHANGED <<framed, heard, may, leaked>>
  /\ Unnotified

Init ==
  /\ NotifyInit
  /\ kind \in Kinds /\ provider = Users
  /\ load[1] = 0 => kind = "group"
  /\ \/ participant = [u \in Users |-> NoRow]
     \/ /\ load[1] > 0
        /\ participant = [u \in Users |-> IF kind = "direct" \/ u \in Moderators
                                             THEN Manual ELSE Provided]
  /\ message = [k \in Messages |-> NoRow] /\ votes = {}
  /\ clock = 0 /\ blob = {}
  /\ req = [p \in Processes |-> NoRequest]
  /\ framed = [k \in Messages |-> 0] /\ heard = [k \in Messages |-> {}]
  /\ may = [k \in Messages |-> {}] /\ leaked = {} /\ died = {}

Quiet == UNCHANGED <<roomVars, spyVars>>
Next ==
  \/ \E p \in Processes :
       \/ Send(p) \/ Insert(p) \/ Touch(p) \/ StoreFile(p) \/ RejectFile(p) \/ Commit(p)
       \/ Publish(p) \/ NotifyMessage(p)
       \/ Edit(p) \/ SaveEdit(p) \/ Delete(p) \/ SoftDelete(p) \/ BreakGlass(p)
       \/ Vote(p) \/ ClearVotes(p) \/ CastVote(p) \/ ClosePoll(p)
       \/ SetPreferences(p) \/ Archive(p) \/ MarkRead(p) \/ SaveRead(p)
       \/ OpenDirect(p) \/ Reconcile(p) \/ ApplyMembers(p) \/ RequestDies(p)
       \/ Emit(p) /\ Quiet
       \/ Author(p) /\ Quiet
       \/ AddRecipient(p) /\ Quiet
       \/ Claim(p) /\ Quiet
       \/ Dispatch(p) /\ Quiet
       \/ Record(p) /\ Quiet
       \/ Resolve(p) /\ Quiet
       \/ Mark(p) /\ Quiet
       \/ Feed(p) /\ Quiet
       \/ Digest(p) /\ Quiet
       \/ Stale(p) /\ Quiet
       \/ Pending(p) /\ Quiet
       \/ ClaimThreshold(p) /\ Quiet
       \/ Mail(p) /\ Quiet
       \/ Dies(p) /\ Quiet
  \/ DomainChanges
  \/ World /\ Quiet

Spec == Init /\ [][Next]_vars

(***************************************************************************)
(* What the readers see.                                                   *)
(***************************************************************************)
\* unread_counts(), by message
Unread(u, k) ==
  /\ ~message[k].deleted /\ message[k].sender # u
  /\ participant[u].read = 0 \/ message[k].at > participant[u].read

BugReadStatus(k) ==
  LET ps == {u \in Users : Live(u) /\ u # message[k].sender}
      readers == {u \in ps : participant[u].read > message[k].at}
  IN [all |-> ps # {} /\ ps \ readers = {},
      count |-> Cardinality(ps), read |-> Cardinality(readers)]

\* read_status(): two queries over the live participants but the sender
ReadStatus(k) ==
  LET ps == {u \in Users : Live(u) /\ u # message[k].sender}
      readers == {u \in ps : participant[u].read >= message[k].at}
  IN [all |-> ps # {} /\ ps \ readers = {},
      count |-> Cardinality(ps), read |-> Cardinality(readers)]

\* batch_read_status(): rows fetched once, filtered per message
BatchReadStatus(k) ==
  LET rows == {u \in Users : Live(u)}
      others == rows \ {message[k].sender}
  IN [all |-> others # {} /\ \A u \in others :
                participant[u].read # 0 /\ participant[u].read >= message[k].at,
      count |-> Cardinality(others),
      read |-> Cardinality({u \in others : participant[u].read # 0
                                             /\ participant[u].read >= message[k].at})]

(***************************************************************************)
(* Properties.                                                             *)
(***************************************************************************)
\* The single and the batch endpoint agree ("same per-message aggregate"), and
\* a message is read by all exactly when it has readers and none of them has
\* it among the unread ones (read_status, batch_read_status, unread_counts).
StatusAgrees ==
  \A k \in Messages : message[k] # NoRow =>
    /\ BatchReadStatus(k) = ReadStatus(k)
    /\ ~message[k].deleted =>
         (ReadStatus(k).all <=> /\ \E u \in Users : Live(u) /\ u # message[k].sender
                                /\ \A u \in Users : Live(u) => ~Unread(u, k))

\* Who left or muted the conversation before a message was committed is not
\* told of it: recipients are resolved in the callbacks (send_message).
LeaversHearNothing == \A k \in Messages : heard[k] \subseteq may[k]

\* Every file of a message is in the storage, and the storage holds nothing
\* else, but what requests at work have stored and what dead ones left
\* (create_attachment and the upload view clean up).
BlobsMatch ==
  LET kept == UNION {message[k].files : k \in {m \in Messages : message[m] # NoRow}}
      coming == UNION {Blobs(p, req[p].stored) : p \in {q \in Processes : req[q].op \in Sending}}
  IN kept \subseteq blob /\ blob \subseteq kept \cup coming \cup died

\* A message is announced once however often and however concurrently its
\* request id is sent (the unique constraint and what its loser does), and a
\* user is told once per channel and episode.
AnnouncedOnce == ToldOnce /\ \A k \in Messages : framed[k] <= 1

\* Each message is announced once, and to members only.
AnnouncedToMembers == AnnouncedOnce /\ LeaversHearNothing

\* "Deletion is irreversible and deleted content is unreadable even through
\* break-glass" (docs/design/messaging-platform.md).
DeletedIsUnreadable == leaked = {}
=============================================================================
