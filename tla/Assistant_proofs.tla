--------------------------- MODULE Assistant_proofs ---------------------------
(***************************************************************************)
(* Proofs about Assistant: the rows of the chat table stay well-formed, a   *)
(* chat never has two generating turns or two turns of one number, a turn   *)
(* that ended stays as it ended, and the provider sees every completed turn.*)
(***************************************************************************)
EXTENDS Assistant, TLAPS

\* A task that drives a turn drives a row that exists, in the task's own chat.
DrivesItsTurn ==
  \A k \in Conns : conn[k].step \in Driving =>
    /\ turns[conn[k].turn].chat = conn[k].chat
    /\ turns[conn[k].turn].state # "none"

\* Two transactions never insert into the same chat.
OneInserter ==
  \A k, m \in Conns :
    At(k, "commit") /\ At(m, "commit") /\ conn[k].chat = conn[m].chat => k = m

TableInv == DrivesItsTurn /\ OneInserter /\ OneGenerating /\ SequenceUnique

\* What every step but the insert does to the rows ...
RowsOnlyEnd ==
  \A t \in Turns :
    /\ turns'[t].chat = turns[t].chat
    /\ turns'[t].sequence = turns[t].sequence
    /\ \/ turns'[t].state = turns[t].state
       \/ turns[t].state = "generating" /\ turns'[t].state \in Terminal
       \/ turns[t].state # "none" /\ turns'[t].state = "deleted"

\* ... and to the tasks: none of them starts to drive a turn.
NobodyStarts ==
  \A k \in Conns :
    /\ conn'[k].step \in Driving =>
         /\ conn[k].step \in Driving
         /\ conn'[k].turn = conn[k].turn
         /\ conn'[k].chat = conn[k].chat
    /\ conn'[k].step = "commit" => conn[k].step = "commit"

-----------------------------------------------------------------------------
\* The initial state is well-typed.
LEMMA InitTypeOK == Init => TypeOK
<1> SUFFICES ASSUME Init PROVE TypeOK
  OBVIOUS
<1>1. Idle \in Conn /\ Coherent(Idle)
  BY DEF Idle, Conn, Coherent, Steps, Driving
<1>2. turns \in [Turns -> TurnRow]
  BY DEF Init, TurnRow, DriverNames, States
<1>3. chats \in [Chats -> ChatRow]
  BY DEF Init, ChatRow
<1> QED
  BY <1>1, <1>2, <1>3 DEF Init, TypeOK, NoPatch

\* A reconciliation keeps the rows well-typed.
LEMMA InterruptedType ==
  ASSUME TypeOK, NEW S
  PROVE  Interrupted(S) \in [Turns -> TurnRow]
  BY DEF TypeOK, Interrupted, TurnRow, States, Terminal

\* A task that becomes a coherent task leaves the tasks well-typed.
LEMMA BecomeType ==
  ASSUME TypeOK, NEW k \in Conns, NEW task \in Conn, Coherent(task), Become(k, task)
  PROVE  conn' \in [Conns -> Conn] /\ \A m \in Conns : Coherent(conn'[m])
  BY DEF TypeOK, Become

\* A task that ends leaves them well-typed.
LEMMA LeaveType ==
  ASSUME TypeOK, NEW k \in Conns, Leave(k)
  PROVE  conn' \in [Conns -> Conn] /\ \A m \in Conns : Coherent(conn'[m])
<1>1. Idle \in Conn /\ Coherent(Idle)
  BY DEF Idle, Conn, Coherent, Steps, Driving
<1> QED
  BY <1>1, BecomeType DEF Leave

\* A task that goes on with its turn stays coherent.
LEMMA GotoType ==
  ASSUME TypeOK, NEW k \in Conns, conn[k].step \in Driving,
         NEW step \in {"recount", "prepare"}, Goto(k, step)
  PROVE  conn' \in [Conns -> Conn] /\ \A m \in Conns : Coherent(conn'[m])
<1> DEFINE task == [conn[k] EXCEPT !.step = step]
<1>1. conn[k] \in Conn /\ Coherent(conn[k])
  BY DEF TypeOK
<1>2. task \in Conn
  BY <1>1 DEF Conn, Steps, Driving
<1>3. Coherent(task)
  BY <1>1 DEF Conn, Coherent, Driving
<1> HIDE DEF task
<1> QED
  BY <1>2, <1>3, BecomeType DEF Goto, task

\* A chat row whose session changes stays well-typed.
LEMMA SessionType ==
  ASSUME TypeOK, NEW c \in Chats, NEW session \in Turns \cup {NoTurn},
         chats' = [chats EXCEPT ![c].session = session] \/ chats' = chats
  PROVE  chats' \in [Chats -> ChatRow]
  BY DEF TypeOK, ChatRow

\* The steps that start a turn keep the state well-typed.
LEMMA StartTypeOK ==
  ASSUME TypeOK, NEW k \in Conns,
         Send(k) \/ Create(k) \/ Commit(k) \/ Recount(k)
  PROVE  TypeOK'
<1>0. conn[k] \in Conn /\ Coherent(conn[k])
  BY DEF TypeOK
<1>1. CASE Send(k)
  <2>1. turns' \in [Turns -> TurnRow]
    BY <1>1, InterruptedType DEF Send
  <2>2. PICK c \in Chats, u \in Users :
          Become(k, [Idle EXCEPT !.step = "create", !.chat = c, !.sender = u])
    BY <1>1 DEF Send
  <2> DEFINE task == [Idle EXCEPT !.step = "create", !.chat = c, !.sender = u]
  <2>3. task \in Conn /\ Coherent(task)
    BY DEF Idle, Conn, Coherent, Steps, Driving
  <2> HIDE DEF task
  <2>4. conn' \in [Conns -> Conn] /\ \A m \in Conns : Coherent(conn'[m])
    BY <2>2, <2>3, BecomeType DEF task
  <2> QED
    BY <1>1, <2>1, <2>4 DEF Send, TypeOK
<1>2. CASE Create(k)
  <2>1. CASE Leave(k) /\ UNCHANGED turns
    BY <1>2, <2>1, LeaveType DEF Create, TypeOK
  <2>2. CASE ~ (Leave(k) /\ UNCHANGED turns)
    <3>1. PICK t \in Turns, n \in 1 .. MaxTurn + 1, driver \in DriverNames :
            /\ turns' = [turns EXCEPT ![t] =
                 [chat |-> conn[k].chat, sender |-> conn[k].sender, sequence |-> n,
                  driver |-> driver, state |-> "generating", fresh |-> TRUE]]
            /\ Become(k, [conn[k] EXCEPT !.step = "commit", !.turn = t])
      BY <1>2, <2>2 DEF Create
    <3>2. conn[k].chat \in Chats /\ conn[k].sender \in Users
      BY <1>0, <1>2 DEF Create, At, Coherent
    <3>3. n \in Nat
      BY AssistantAssumption
    <3>4. turns' \in [Turns -> TurnRow]
      BY <3>1, <3>2, <3>3 DEF TypeOK, TurnRow, States
    <3> DEFINE task == [conn[k] EXCEPT !.step = "commit", !.turn = t]
    <3>5. task \in Conn
      BY <1>0 DEF Conn, Steps, Driving
    <3>6. Coherent(task)
      BY <1>0, <3>2 DEF Conn, Coherent, Driving
    <3> HIDE DEF task
    <3>7. conn' \in [Conns -> Conn] /\ \A m \in Conns : Coherent(conn'[m])
      BY <3>1, <3>5, <3>6, BecomeType DEF task
    <3> QED
      BY <1>2, <3>4, <3>7 DEF Create, TypeOK
  <2> QED
    BY <2>1, <2>2
<1>3. CASE Commit(k)
  <2>1. conn[k].step \in Driving /\ Goto(k, "recount")
    BY <1>3 DEF Commit, At, Driving
  <2>2. chats' \in [Chats -> ChatRow]
    BY <1>0, <1>3, <2>1 DEF Commit, TypeOK, Coherent, ChatRow, TurnRow
  <2> QED
    BY <1>3, <2>1, <2>2, GotoType DEF Commit, TypeOK
<1>4. CASE Recount(k)
  <2>1. turns' \in [Turns -> TurnRow]
    BY <1>4, ZenonT(60) DEF Recount, TypeOK, TurnRow, States
  <2>2. conn[k].step \in Driving
    BY <1>4 DEF Recount, At, Driving
  <2>3. conn' \in [Conns -> Conn] /\ \A m \in Conns : Coherent(conn'[m])
    BY <1>4, <2>2, LeaveType, GotoType DEF Recount
  <2> QED
    BY <1>4, <2>1, <2>3 DEF Recount, TypeOK
<1> QED
  BY <1>1, <1>2, <1>3, <1>4

\* So do the steps that run it.
LEMMA RunTypeOK ==
  ASSUME TypeOK, NEW k \in Conns,
         Prepare(k) \/ Answer(k) \/ Abort(k) \/ Finish(k)
  PROVE  TypeOK'
<1>0. conn[k] \in Conn /\ Coherent(conn[k])
  BY DEF TypeOK
<1>1. CASE Prepare(k)
  <2> DEFINE c == conn[k].chat
  <2>1. c \in Chats /\ conn[k].turn \in Turns
    BY <1>0, <1>1 DEF Prepare, At, Coherent, Driving
  <2>2. chats' \in [Chats -> ChatRow]
    <3>1. chats' = [chats EXCEPT ![c].session = NoTurn] \/ chats' = chats
      BY <1>1 DEF Prepare
    <3> QED
      BY <2>1, <3>1, SessionType
  <2>3. PICK s \in Turns \cup {NoTurn}, known \in SUBSET Turns :
          Become(k, [conn[k] EXCEPT !.step = "stream", !.session = s, !.context = known])
    <3>1. PICK resume \in BOOLEAN, summarised \in BOOLEAN :
            /\ resume => Resumable(c, turns[conn[k].turn].driver)
            /\ Become(k, [conn[k] EXCEPT !.step = "stream",
                 !.session = IF resume THEN chats[c].session ELSE NoTurn,
                 !.context = IF resume THEN files[chats[c].session] ELSE Completed(c)])
      BY <1>1 DEF Prepare
    <3>2. Completed(c) \in SUBSET Turns
      BY DEF Completed, VisibleIn
    <3>3. chats[c].session \in Turns \cup {NoTurn}
      BY <2>1 DEF TypeOK, ChatRow
    <3>4. resume => files[chats[c].session] \in SUBSET Turns
      BY <3>1, <3>3 DEF Resumable, TypeOK
    <3>5. CASE resume
      BY <3>1, <3>3, <3>4, <3>5
    <3>6. CASE ~ resume
      BY <3>1, <3>2, <3>6
    <3> QED
      BY <3>5, <3>6
  <2> DEFINE task == [conn[k] EXCEPT !.step = "stream", !.session = s, !.context = known]
  <2>4. task \in Conn
    BY <1>0 DEF Conn, Steps, Driving
  <2>5. Coherent(task)
    BY <1>0, <2>1, <1>1 DEF Conn, Coherent, Driving, Prepare, At
  <2> HIDE DEF task
  <2>6. conn' \in [Conns -> Conn] /\ \A m \in Conns : Coherent(conn'[m])
    BY <2>3, <2>4, <2>5, BecomeType DEF task
  <2> QED
    BY <1>1, <2>2, <2>6 DEF Prepare, TypeOK
<1>2. CASE Answer(k)
  <2>1. PICK session \in Turns :
          /\ files' = IF turns[conn[k].turn].driver = "claude_cli"
                      THEN [files EXCEPT ![session] = @ \cup conn[k].context
                                                        \cup {conn[k].turn}]
                      ELSE files
          /\ Become(k, [conn[k] EXCEPT !.step = "finish", !.session = session,
                                       !.context = {}, !.result = "completed"])
    BY <1>0, <1>2 DEF Answer, At, Conn, Coherent, Driving
  <2>2. conn[k].turn \in Turns
    BY <1>0, <1>2 DEF Answer, At, Coherent, Driving
  <2>3. files' \in [Turns -> SUBSET Turns]
    BY <1>0, <2>1, <2>2 DEF TypeOK, Conn
  <2> DEFINE task == [conn[k] EXCEPT !.step = "finish", !.session = session,
                                     !.context = {}, !.result = "completed"]
  <2>4. task \in Conn
    BY <1>0 DEF Conn, Steps, Driving
  <2>5. Coherent(task)
    BY <1>0, <1>2, <2>2 DEF Conn, Coherent, Driving, Answer, At
  <2> HIDE DEF task
  <2>6. conn' \in [Conns -> Conn] /\ \A m \in Conns : Coherent(conn'[m])
    BY <2>1, <2>4, <2>5, BecomeType DEF task
  <2> QED
    BY <1>2, <2>3, <2>6 DEF Answer, TypeOK
<1>3. CASE Abort(k)
  <2>1. PICK result \in {"failed", "cancelled"} :
          Become(k, [conn[k] EXCEPT !.step = "finish", !.session = NoTurn,
                                    !.context = {}, !.result = result])
    BY <1>3 DEF Abort
  <2> DEFINE task == [conn[k] EXCEPT !.step = "finish", !.session = NoTurn,
                                     !.context = {}, !.result = result]
  <2>2. task \in Conn
    BY <1>0 DEF Conn, Steps, Driving
  <2>3. Coherent(task)
    BY <1>0, <1>3 DEF Conn, Coherent, Driving, Abort
  <2> HIDE DEF task
  <2>4. conn' \in [Conns -> Conn] /\ \A m \in Conns : Coherent(conn'[m])
    BY <2>1, <2>2, <2>3, BecomeType DEF task
  <2>5. chats' \in [Chats -> ChatRow]
    <3>1. conn[k].chat \in Chats
      BY <1>0, <1>3 DEF Abort, Coherent
    <3>2. \/ chats' = [chats EXCEPT ![conn[k].chat].session = NoTurn]
          \/ chats' = chats
      BY <1>3 DEF Abort
    <3> QED
      BY <3>1, <3>2, SessionType
  <2> QED
    BY <1>3, <2>4, <2>5 DEF Abort, TypeOK
<1>4. CASE Finish(k)
  <2> DEFINE t == conn[k].turn
             c == conn[k].chat
             session == NewSession(c, t, conn[k].session)
  <2>1. c \in Chats /\ conn[k].result \in States
    BY <1>0, <1>4 DEF Finish, At, Conn, Coherent, States, Terminal
  <2>2. turns' \in [Turns -> TurnRow]
    BY <1>4, <2>1, SMTT(30) DEF Finish, TypeOK, TurnRow
  <2>3. session \in Turns \cup {NoTurn}
    BY <1>0, <2>1 DEF TypeOK, NewSession, Conn, ChatRow
  <2>4. chats' = [chats EXCEPT ![c].session = session] \/ chats' = chats
    BY <1>4 DEF Finish
  <2> HIDE DEF session
  <2>5. chats' \in [Chats -> ChatRow]
    BY <2>1, <2>3, <2>4, SessionType
  <2> QED
    BY <1>4, <2>2, <2>5, LeaveType DEF Finish, TypeOK
<1> QED
  BY <1>1, <1>2, <1>3, <1>4

\* So do heartbeats, stops, crashes and requests.
LEMMA RestTypeOK ==
  ASSUME TypeOK,
         \/ \E k \in Conns : Beat(k) \/ StopEarly(k) \/ Crash(k)
         \/ \E t \in Turns : GoStale(t)
         \/ \E c \in Chats : OpenChat(c) \/ PatchRead(c)
         \/ PatchSave
  PROVE  TypeOK'
<1>1. ASSUME NEW k \in Conns, Beat(k) PROVE TypeOK'
  BY <1>1, ZenonT(60) DEF Beat, TypeOK, TurnRow
<1>2. ASSUME NEW k \in Conns, StopEarly(k) PROVE TypeOK'
  <2> DEFINE task == [conn[k] EXCEPT !.orphan = TRUE]
  <2>1. conn[k] \in Conn /\ Coherent(conn[k])
    BY DEF TypeOK
  <2>2. task \in Conn
    BY <2>1 DEF Conn
  <2>3. Coherent(task)
    BY <2>1 DEF Conn, Coherent
  <2>4. Become(k, task)
    BY <1>2 DEF StopEarly
  <2> HIDE DEF task
  <2>5. conn' \in [Conns -> Conn] /\ \A m \in Conns : Coherent(conn'[m])
    BY <2>2, <2>3, <2>4, BecomeType
  <2> QED
    BY <1>2, <2>5 DEF StopEarly, TypeOK
<1>3. ASSUME NEW k \in Conns, Crash(k) PROVE TypeOK'
  <2>1. turns' \in [Turns -> TurnRow]
    <3>1. \/ turns' = [turns EXCEPT ![conn[k].turn].state = "deleted"]
          \/ turns' = turns
      BY <1>3 DEF Crash
    <3> QED
      BY <3>1, SMTT(30) DEF TypeOK, TurnRow, States
  <2> QED
    BY <1>3, <2>1, LeaveType DEF Crash, TypeOK
<1>4. ASSUME NEW t \in Turns, GoStale(t) PROVE TypeOK'
  BY <1>4, ZenonT(60) DEF GoStale, TypeOK, TurnRow
<1>5. ASSUME NEW c \in Chats, OpenChat(c) PROVE TypeOK'
  BY <1>5, InterruptedType DEF OpenChat, TypeOK
<1>6. ASSUME NEW c \in Chats, PatchRead(c) PROVE TypeOK'
  BY <1>6 DEF PatchRead, TypeOK
<1>7. CASE PatchSave
  <2>1. patch \in [chat : Chats, row : ChatRow]
    BY <1>7 DEF PatchSave, TypeOK
  <2>2. chats' \in [Chats -> ChatRow]
    BY <1>7, <2>1, ZenonT(60) DEF PatchSave, TypeOK, ChatRow
  <2> QED
    BY <1>7, <2>2 DEF PatchSave, TypeOK
<1> QED
  BY <1>1, <1>2, <1>3, <1>4, <1>5, <1>6, <1>7

\* Every step keeps the state well-typed.
LEMMA NextTypeOK == TypeOK /\ [Next]_vars => TypeOK'
<1> SUFFICES ASSUME TypeOK, [Next]_vars PROVE TypeOK'
  OBVIOUS
<1>1. CASE UNCHANGED vars
  BY <1>1 DEF vars, TypeOK
<1>2. CASE Next
  BY <1>2, StartTypeOK, RunTypeOK, RestTypeOK DEF Next, Task
<1> QED
  BY <1>1, <1>2

\* The rows, the tasks and the stored sessions are always well-formed.
THEOREM AssistantTyped == Spec => []TypeOK
  BY InitTypeOK, NextTypeOK, PTL DEF Spec

-----------------------------------------------------------------------------
\* A turn of the chat's own that is not yet visible keeps everybody out.
LEMMA HiddenIsLocked ==
  ASSUME TypeOK, TableInv, NEW t \in Turns,
         turns[t].state \notin {"none", "deleted"}, ~ Visible(t)
  PROVE  Locked(turns[t].chat)
<1>1. PICK m \in Conns : At(m, "commit") /\ conn[m].turn = t
  BY DEF Visible
<1>2. turns[t].chat = conn[m].chat
  BY <1>1 DEF TableInv, DrivesItsTurn, At, Driving
<1> QED
  BY <1>1, <1>2 DEF Locked

\* The rows that exist stay what they are, but for turns that end or go.
LEMMA TaskEnds ==
  ASSUME TypeOK, TableInv, NEW k \in Conns, Task(k), ~ Create(k)
  PROVE  RowsOnlyEnd /\ NobodyStarts
<1>0. conn[k] \in Conn /\ Coherent(conn[k])
  BY DEF TypeOK
<1> USE DEF TypeOK
<1>1. CASE Send(k)
  BY <1>1 DEF Send, Become, Idle, Driving, Interrupted, Generating, Visible,
     RowsOnlyEnd, NobodyStarts, Terminal, TurnRow
<1>2. CASE Commit(k)
  BY <1>0, <1>2 DEF Commit, Become, Goto, At, Conn, Driving, RowsOnlyEnd, NobodyStarts
<1>3. CASE Recount(k)
  <2>1. conn[k].turn \in Turns /\ turns[conn[k].turn].state # "none"
    BY <1>0, <1>3 DEF Recount, At, Coherent, Driving, TableInv, DrivesItsTurn
  <2>2. RowsOnlyEnd
    BY <1>3, <2>1 DEF Recount, RowsOnlyEnd, TurnRow
  <2>3. NobodyStarts
    BY <1>0, <1>3 DEF Recount, Become, Goto, Leave, Idle, At, Conn, Driving, NobodyStarts
  <2> QED
    BY <2>2, <2>3
<1>4. CASE Prepare(k) \/ Answer(k) \/ Abort(k) \/ StopEarly(k)
  <2>1. /\ \A m \in Conns : m # k => conn'[m] = conn[m]
        /\ conn'[k].step \in Driving => conn[k].step \in Driving
        /\ conn'[k].turn = conn[k].turn /\ conn'[k].chat = conn[k].chat
        /\ conn'[k].step = "commit" => conn[k].step = "commit"
    <3>1. CASE Prepare(k)
      <4>1. PICK s, known :
              Become(k, [conn[k] EXCEPT !.step = "stream", !.session = s, !.context = known])
        BY <3>1 DEF Prepare
      <4> QED
        BY <1>0, <3>1, <4>1 DEF Prepare, At, Become, Conn, Driving
    <3>2. CASE Answer(k)
      <4>1. PICK s :
              Become(k, [conn[k] EXCEPT !.step = "finish", !.session = s, !.context = {},
                                        !.result = "completed"])
        BY <3>2 DEF Answer
      <4> QED
        BY <1>0, <3>2, <4>1 DEF Answer, At, Become, Conn, Driving
    <3>3. CASE Abort(k)
      <4>1. PICK result \in {"failed", "cancelled"} :
              Become(k, [conn[k] EXCEPT !.step = "finish", !.session = NoTurn,
                                        !.context = {}, !.result = result])
        BY <3>3 DEF Abort
      <4> QED
        BY <1>0, <3>3, <4>1 DEF Abort, Become, Conn, Driving
    <3>4. CASE StopEarly(k)
      BY <1>0, <3>4 DEF StopEarly, Become, Conn, Driving
    <3> QED
      BY <1>4, <3>1, <3>2, <3>3, <3>4
  <2>2. turns' = turns
    BY <1>4 DEF Prepare, Answer, Abort, StopEarly
  <2> QED
    BY <2>1, <2>2 DEF RowsOnlyEnd, NobodyStarts
<1>5. CASE Finish(k)
  <2>1. conn[k].turn \in Turns /\ conn[k].result \in Terminal
    BY <1>0, <1>5 DEF Finish, At, Conn, Coherent, Driving, Terminal
  <2>2. RowsOnlyEnd
    BY <1>5, <2>1 DEF Finish, RowsOnlyEnd, TurnRow
  <2>3. NobodyStarts
    BY <1>5 DEF Finish, Become, Leave, Idle, Driving, NobodyStarts
  <2> QED
    BY <2>2, <2>3
<1>6. CASE Beat(k)
  BY <1>6 DEF Beat, RowsOnlyEnd, NobodyStarts, TurnRow
<1>7. CASE Crash(k)
  <2>1. At(k, "commit") => conn[k].turn \in Turns /\ turns[conn[k].turn].state # "none"
    BY <1>0 DEF At, Coherent, Driving, TableInv, DrivesItsTurn
  <2>2. RowsOnlyEnd
    BY <1>7, <2>1 DEF Crash, RowsOnlyEnd, TurnRow
  <2>3. NobodyStarts
    BY <1>7 DEF Crash, Become, Leave, Idle, Driving, NobodyStarts
  <2> QED
    BY <2>2, <2>3
<1> QED
  BY <1>1, <1>2, <1>3, <1>4, <1>5, <1>6, <1>7 DEF Task

\* The same of the steps no task takes.
LEMMA RestEnds ==
  ASSUME TypeOK,
         \/ \E t \in Turns : GoStale(t)
         \/ \E c \in Chats : OpenChat(c) \/ PatchRead(c)
         \/ PatchSave
  PROVE  RowsOnlyEnd /\ NobodyStarts
<1>1. ASSUME NEW t \in Turns, GoStale(t) PROVE RowsOnlyEnd /\ NobodyStarts
  BY <1>1 DEF GoStale, TypeOK, TurnRow, RowsOnlyEnd, NobodyStarts
<1>2. ASSUME NEW c \in Chats, OpenChat(c) PROVE RowsOnlyEnd /\ NobodyStarts
  BY <1>2 DEF OpenChat, TypeOK, TurnRow, Interrupted, Generating, Visible, Terminal,
     RowsOnlyEnd, NobodyStarts
<1> QED
  BY <1>1, <1>2 DEF PatchRead, PatchSave, RowsOnlyEnd, NobodyStarts

\* What only lets turns end keeps the invariant of the tables.
LEMMA EndingKeepsTable ==
  ASSUME TypeOK, TableInv, RowsOnlyEnd, NobodyStarts
  PROVE  TableInv'
<1>1. DrivesItsTurn'
  <2> SUFFICES ASSUME NEW k \in Conns, conn'[k].step \in Driving
               PROVE  /\ turns'[conn'[k].turn].chat = conn'[k].chat
                      /\ turns'[conn'[k].turn].state # "none"
    BY DEF DrivesItsTurn
  <2>1. conn[k].step \in Driving /\ conn'[k].turn = conn[k].turn
        /\ conn'[k].chat = conn[k].chat
    BY DEF NobodyStarts
  <2>2. conn[k].turn \in Turns
    BY <2>1 DEF TypeOK, Coherent
  <2> QED
    BY <2>1, <2>2 DEF TableInv, DrivesItsTurn, RowsOnlyEnd, Terminal
<1>2. OneInserter'
  BY DEF TableInv, OneInserter, NobodyStarts, At, Driving
<1>3. OneGenerating'
  BY DEF TableInv, OneGenerating, RowsOnlyEnd, Terminal
<1>4. SequenceUnique'
  BY DEF TableInv, SequenceUnique, RowsOnlyEnd, Terminal
<1> QED
  BY <1>1, <1>2, <1>3, <1>4 DEF TableInv

\* The insert happens under the lock of a chat in which nothing is hidden: the
\* new turn is the only one that is generated, and has a number of its own.
LEMMA CreateKeepsTable ==
  ASSUME TypeOK, TableInv, NEW k \in Conns, Create(k)
  PROVE  TableInv'
<1> DEFINE c == conn[k].chat
<1>0. conn[k] \in Conn /\ Coherent(conn[k]) /\ ~ Locked(c) /\ c \in Chats
  BY DEF TypeOK, Create, Coherent, At
<1>1. CASE Leave(k) /\ UNCHANGED turns
  <2>1. RowsOnlyEnd
    BY <1>1 DEF RowsOnlyEnd
  <2>2. NobodyStarts
    BY <1>1 DEF NobodyStarts, Leave, Become, Idle, Driving, TypeOK
  <2> QED
    BY <2>1, <2>2, EndingKeepsTable
<1>2. CASE ~ (Leave(k) /\ UNCHANGED turns)
  <2>1. PICK t \in Turns, n \in 1 .. MaxTurn + 1, driver \in DriverNames :
          /\ ~ Refused(c, conn[k].sender)
          /\ turns[t].state = "none"
          /\ NextSequence(c, n)
          /\ turns' = [turns EXCEPT ![t] =
               [chat |-> c, sender |-> conn[k].sender, sequence |-> n,
                driver |-> driver, state |-> "generating", fresh |-> TRUE]]
          /\ Become(k, [conn[k] EXCEPT !.step = "commit", !.turn = t])
    BY <1>2 DEF Create
  <2>2. /\ \A s \in Turns : s # t => turns'[s] = turns[s]
        /\ turns'[t].chat = c /\ turns'[t].sequence = n /\ turns'[t].state = "generating"
    BY <2>1 DEF TypeOK
  <2>3. /\ \A m \in Conns : m # k => conn'[m] = conn[m]
        /\ conn'[k].step = "commit" /\ conn'[k].turn = t /\ conn'[k].chat = c
    BY <1>0, <2>1 DEF TypeOK, Become, Conn
  <2>4. \A s \in Turns : turns[s].chat = c /\ turns[s].state \notin {"none", "deleted"}
          => s \in VisibleIn(c)
    BY <1>0, HiddenIsLocked DEF VisibleIn
  <2>5. DrivesItsTurn'
    <3> SUFFICES ASSUME NEW m \in Conns, conn'[m].step \in Driving
                 PROVE  /\ turns'[conn'[m].turn].chat = conn'[m].chat
                        /\ turns'[conn'[m].turn].state # "none"
      BY DEF DrivesItsTurn
    <3>1. CASE m = k
      BY <3>1, <2>2, <2>3
    <3>2. CASE m # k
      <4>1. conn'[m] = conn[m] /\ conn[m].turn \in Turns
        BY <3>2, <2>3 DEF TypeOK, Coherent
      <4>2. turns[conn[m].turn].state # "none" /\ turns[conn[m].turn].chat = conn[m].chat
        BY <4>1 DEF TableInv, DrivesItsTurn
      <4> QED
        BY <4>1, <4>2, <2>1, <2>2
    <3> QED
      BY <3>1, <3>2
  <2>6. OneInserter'
    <3>1. \A m \in Conns : At(m, "commit") => conn[m].chat # c
      BY <1>0 DEF Locked
    <3> QED
      BY <3>1, <2>3 DEF TableInv, OneInserter, At
  <2>7. OneGenerating'
    <3>1. \A s \in Turns : s # t /\ turns[s].chat = c => turns[s].state # "generating"
      BY <2>1, <2>4 DEF Refused, Generating, VisibleIn
    <3> QED
      BY <3>1, <2>2 DEF TableInv, OneGenerating
  <2>8. SequenceUnique'
    <3>1. \A s \in Turns : s # t /\ turns[s].chat = c
            /\ turns[s].state \notin {"none", "deleted"} => turns[s].sequence < n
      BY <2>1, <2>4 DEF NextSequence
    <3>2. n \in Nat /\ \A s \in Turns : turns[s].sequence \in Nat
      BY AssistantAssumption DEF TypeOK, TurnRow
    <3>3. \A s \in Turns : s # t /\ turns[s].chat = c
            /\ turns[s].state \notin {"none", "deleted"} => turns[s].sequence # n
      BY <3>1, <3>2
    <3> QED
      BY <3>3, <2>2 DEF TableInv, SequenceUnique
  <2> QED
    BY <2>5, <2>6, <2>7, <2>8 DEF TableInv
<1> QED
  BY <1>1, <1>2

\* The invariant of the tables is inductive.
LEMMA StepKeepsTable == TypeOK /\ TableInv /\ [Next]_vars => TableInv'
<1> SUFFICES ASSUME TypeOK, TableInv, [Next]_vars PROVE TableInv'
  OBVIOUS
<1>1. CASE UNCHANGED vars
  BY <1>1 DEF vars, TableInv, DrivesItsTurn, OneInserter, OneGenerating,
     SequenceUnique, At
<1>2. CASE \E k \in Conns : Create(k)
  BY <1>2, CreateKeepsTable
<1>3. CASE Next /\ ~ \E k \in Conns : Create(k)
  BY <1>3, TaskEnds, RestEnds, EndingKeepsTable DEF Next
<1> QED
  BY <1>1, <1>2, <1>3

\* No row exists at first.
LEMMA InitTable == Init => TableInv
  BY DEF Init, Idle, TableInv, DrivesItsTurn, OneInserter, OneGenerating,
     SequenceUnique, At, Driving

\* In every reachable state the tables are well-typed and consistent.
LEMMA TableInvariant == Spec => [](TypeOK /\ TableInv)
<1>1. TypeOK /\ TableInv /\ [Next]_vars => (TypeOK /\ TableInv)'
  BY NextTypeOK, StepKeepsTable
<1> QED
  BY InitTypeOK, InitTable, <1>1, PTL DEF Spec

\* However many connections, chats, users and processes there are, whatever is
\* cancelled, crashes or goes stale: a chat never has two generating turns.
THEOREM NeverTwoGenerating == Spec => []OneGenerating
  BY TableInvariant, PTL DEF TableInv

\* ... and two turns of a chat never carry the same number.
THEOREM NumbersNeverClash == Spec => []SequenceUnique
  BY TableInvariant, PTL DEF TableInv

\* A turn that ended keeps its state, but for the removal of a refused one.
THEOREM EndedStaysEnded == Spec => TerminalIsFinal
<1> DEFINE Final == \A t \in Turns : turns[t].state \in Terminal
                      => turns'[t].state \in {turns[t].state, "deleted"}
<1>1. TypeOK /\ TableInv /\ [Next]_vars => [Final]_vars
  <2> SUFFICES ASSUME TypeOK, TableInv, Next PROVE Final
    OBVIOUS
  <2>1. ASSUME NEW k \in Conns, Create(k) PROVE Final
    BY <2>1 DEF Create, TypeOK, Terminal
  <2>2. CASE ~ \E k \in Conns : Create(k)
    <3>1. RowsOnlyEnd
      BY <2>2, TaskEnds, RestEnds DEF Next
    <3> QED
      BY <3>1 DEF RowsOnlyEnd, Terminal
  <2> QED
    BY <2>1, <2>2
<1> QED
  BY TableInvariant, <1>1, PTL DEF Spec, TerminalIsFinal

-----------------------------------------------------------------------------
(* What the provider is shown. A CLI session stands in for the stored history, *)
(* so it must know every completed turn whenever a chat row names it.          *)

\* Two tasks never drive one turn ...
OwnTurns ==
  \A k, m \in Conns :
    conn[k].step \in Driving /\ conn[m].step \in Driving /\ conn[k].turn = conn[m].turn
      => k = m

\* ... and nothing happens to a turn before its insert is committed.
HiddenIsGenerating ==
  \A k \in Conns : At(k, "commit") => turns[conn[k].turn].state = "generating"

SoloInv == OwnTurns /\ HiddenIsGenerating

\* The session a chat row names knows what has been completed in the chat.
SessionsKnow ==
  \A c \in Chats :
    chats[c].session # NoTurn => Completed(c) \subseteq files[chats[c].session]

\* While a task's turn is still generated, what it showed to the provider is all
\* there is, ...
StreamKnows(k) ==
  At(k, "stream") /\ turns[conn[k].turn].state = "generating"
    => Completed(conn[k].chat) \subseteq conn[k].context

\* ... and the session it is about to store knows that and the turn itself.
FinishKnows(k) ==
  At(k, "finish") =>
    \/ conn[k].result # "completed" /\ conn[k].session = NoTurn
    \/ /\ conn[k].session # NoTurn
       /\ turns[conn[k].turn].driver = "claude_cli"
          /\ turns[conn[k].turn].state = "generating"
            => Completed(conn[k].chat) \cup {conn[k].turn} \subseteq files[conn[k].session]

\* A PATCH under way holds the session its chat still has.
PatchKnows == patch # NoPatch => patch.row.session = chats[patch.chat].session

SessionInv ==
  /\ SessionsKnow
  /\ \A k \in Conns : StreamKnows(k) /\ FinishKnows(k)
  /\ PatchKnows

\* Nothing is known less well than before, and nothing new is completed.
FilesGrow == \A s \in Turns : files[s] \subseteq files'[s]
NothingCompletes == \A c \in Chats : Completed(c)' \subseteq Completed(c)

\* What a step other than _finish does to the rows.
RowsGoOn ==
  \A t \in Turns :
    /\ turns[t].state # "none" => /\ turns'[t].driver = turns[t].driver
                                  /\ turns'[t].chat = turns[t].chat
    /\ turns'[t].state = "completed" => turns[t].state = "completed"
    /\ turns'[t].state = "generating" => turns[t].state \in {"none", "generating"}

\* An insert takes a row nobody drives; the other steps start nothing, and leave a
\* turn alone that is not committed yet.
LEMMA StepKeepsSolo ==
  ASSUME TypeOK, TableInv, SoloInv, Next
  PROVE  SoloInv'
<1>1. ASSUME NEW k \in Conns, Create(k) PROVE SoloInv'
  <2>0. conn[k] \in Conn
    BY DEF TypeOK
  <2>1. CASE Leave(k) /\ UNCHANGED turns
    <3>1. \A m \in Conns : conn'[m].step \in Driving => conn'[m] = conn[m]
      BY <2>1 DEF Leave, Become, Idle, Driving, TypeOK
    <3>2. turns' = turns
      BY <2>1
    <3> QED
      BY <3>1, <3>2 DEF SoloInv, OwnTurns, HiddenIsGenerating, At, Driving
  <2>2. CASE ~ (Leave(k) /\ UNCHANGED turns)
    <3>1. PICK t \in Turns :
            /\ turns[t].state = "none"
            /\ \E row : row.state = "generating" /\ turns' = [turns EXCEPT ![t] = row]
            /\ Become(k, [conn[k] EXCEPT !.step = "commit", !.turn = t])
      BY <1>1, <2>2 DEF Create
    <3>2. turns'[t].state = "generating" /\ \A s \in Turns : s # t => turns'[s] = turns[s]
      BY <3>1 DEF TypeOK
    <3>3. /\ conn'[k].step = "commit" /\ conn'[k].turn = t
          /\ \A m \in Conns : m # k => conn'[m] = conn[m]
      BY <2>0, <3>1 DEF Become, TypeOK, Conn
    <3>4. \A m \in Conns : conn[m].step \in Driving => conn[m].turn \in Turns \ {t}
      BY <3>1 DEF TableInv, DrivesItsTurn, TypeOK, Coherent
    <3>5. OwnTurns'
      BY <3>3, <3>4 DEF SoloInv, OwnTurns
    <3>6. HiddenIsGenerating'
      <4> SUFFICES ASSUME NEW m \in Conns, conn'[m].step = "commit"
                   PROVE  turns'[conn'[m].turn].state = "generating"
        BY DEF HiddenIsGenerating, At
      <4>1. CASE m = k
        BY <4>1, <3>2, <3>3
      <4>2. CASE m # k
        <5>1. conn'[m] = conn[m] /\ conn[m].turn \in Turns \ {t}
          BY <4>2, <3>3, <3>4 DEF Driving
        <5> QED
          BY <5>1, <3>2 DEF SoloInv, HiddenIsGenerating, At
      <4> QED
        BY <4>1, <4>2
    <3> QED
      BY <3>5, <3>6 DEF SoloInv
  <2> QED
    BY <2>1, <2>2
<1>2. CASE ~ \E k \in Conns : Create(k)
  <2>1. RowsOnlyEnd /\ NobodyStarts
    BY <1>2, TaskEnds, RestEnds DEF Next
  <2>2. OwnTurns'
    BY <2>1 DEF NobodyStarts, SoloInv, OwnTurns
  <2>3. HiddenIsGenerating'
    <3> SUFFICES ASSUME NEW m \in Conns, conn'[m].step = "commit"
                 PROVE  turns'[conn'[m].turn].state = "generating"
      BY DEF HiddenIsGenerating, At
    <3> DEFINE t == conn[m].turn
    <3>1. conn[m].step = "commit" /\ conn'[m].turn = t /\ t \in Turns
      BY <2>1 DEF NobodyStarts, TypeOK, Coherent, Driving
    <3>2. turns[t].state = "generating" /\ ~ Visible(t)
      BY <3>1 DEF SoloInv, HiddenIsGenerating, At, Visible
    <3>3. ASSUME NEW k \in Conns, k # m PROVE conn[k].step \in Driving => conn[k].turn # t
      BY <3>1, <3>3 DEF SoloInv, OwnTurns, Driving
    <3>4. \A set : Interrupted(set)[t] = turns[t]
      BY <3>1, <3>2 DEF Interrupted, Generating
    <3>5. ASSUME NEW k \in Conns, Task(k) PROVE turns'[t].state = "generating"
      <4>1. CASE Send(k)
        BY <4>1, <3>2, <3>4 DEF Send
      <4>2. CASE Commit(k) \/ Prepare(k) \/ Answer(k) \/ Abort(k) \/ StopEarly(k)
        BY <4>2, <3>2 DEF Commit, Prepare, Answer, Abort, StopEarly
      <4>3. CASE Recount(k) \/ Finish(k) \/ Beat(k)
        <5>1. k # m /\ conn[k].step \in Driving
          BY <4>3, <3>1 DEF Recount, Finish, Beat, At, Driving
        <5>2. conn[k].turn # t
          BY <5>1, <3>3
        <5> QED
          BY <4>3, <5>2, <3>1, <3>2 DEF Recount, Finish, Beat, TypeOK
      <4>4. CASE Crash(k)
        <5>1. k # m
          BY <4>4, <3>1 DEF Crash, Leave, Become, Idle, TypeOK
        <5>2. At(k, "commit") => conn[k].turn # t
          BY <5>1, <3>3 DEF At, Driving
        <5> QED
          BY <4>4, <5>2, <3>1, <3>2 DEF Crash, TypeOK
      <4> QED
        BY <3>5, <1>2, <4>1, <4>2, <4>3, <4>4 DEF Task
    <3>6. ASSUME NEW s \in Turns, GoStale(s) PROVE turns'[t].state = "generating"
      BY <3>6, <3>1, <3>2 DEF GoStale, TypeOK, TurnRow
    <3>7. ASSUME NEW c \in Chats, OpenChat(c) PROVE turns'[t].state = "generating"
      BY <3>7, <3>2, <3>4 DEF OpenChat
    <3>8. ASSUME (\E c \in Chats : PatchRead(c)) \/ PatchSave
          PROVE  turns'[t].state = "generating"
      BY <3>8, <3>2 DEF PatchRead, PatchSave
    <3> QED
      BY <3>1, <3>5, <3>6, <3>7, <3>8 DEF Next
  <2> QED
    BY <2>2, <2>3 DEF SoloInv
<1> QED
  BY <1>1, <1>2

\* A turn that becomes visible is generating, so what is completed was so before.
LEMMA RowsCompleteNothing ==
  ASSUME TypeOK, SoloInv, NEW c \in Chats, NEW t \in Turns, t \in Completed(c)',
         turns[t].state = "completed", turns'[t].chat = turns[t].chat
  PROVE  t \in Completed(c)
<1>1. turns[t].chat = c
  BY DEF Completed, VisibleIn
<1>2. Visible(t)
  BY DEF Visible, SoloInv, HiddenIsGenerating, At
<1> QED
  BY <1>1, <1>2 DEF Completed, VisibleIn

\* Every step but _finish only lets the rows go on.
LEMMA StepGoesOn ==
  ASSUME TypeOK, TableInv, SoloInv, Next, ~ \E k \in Conns : Finish(k)
  PROVE  RowsGoOn /\ NothingCompletes
<1> USE DEF TypeOK
<1>1. RowsGoOn
  <2>1. ASSUME NEW k \in Conns, Task(k) PROVE RowsGoOn
    <3>1. CASE Send(k)
      BY <3>1 DEF Send, Interrupted, RowsGoOn, TurnRow
    <3>2. CASE Create(k)
      <4>1. CASE UNCHANGED turns
        BY <4>1 DEF RowsGoOn
      <4>2. CASE ~ UNCHANGED turns
        <5>1. PICK t \in Turns : /\ turns[t].state = "none"
                                 /\ \E row : row.state = "generating"
                                             /\ turns' = [turns EXCEPT ![t] = row]
          BY <3>2, <4>2 DEF Create
        <5> QED
          BY <5>1 DEF RowsGoOn
      <4> QED
        BY <4>1, <4>2
    <3>3. CASE Recount(k)
      BY <3>3 DEF Recount, RowsGoOn, TurnRow
    <3>4. CASE Beat(k)
      BY <3>4 DEF Beat, RowsGoOn, TurnRow
    <3>5. CASE Crash(k)
      BY <3>5 DEF Crash, RowsGoOn, TurnRow
    <3>6. CASE Commit(k) \/ Prepare(k) \/ Answer(k) \/ Abort(k) \/ StopEarly(k)
      BY <3>6 DEF Commit, Prepare, Answer, Abort, StopEarly, RowsGoOn
    <3> QED
      BY <2>1, <3>1, <3>2, <3>3, <3>4, <3>5, <3>6 DEF Task
  <2>2. ASSUME NEW t \in Turns, GoStale(t) PROVE RowsGoOn
    BY <2>2 DEF GoStale, RowsGoOn, TurnRow
  <2>3. ASSUME NEW c \in Chats, OpenChat(c) PROVE RowsGoOn
    BY <2>3 DEF OpenChat, Interrupted, RowsGoOn, TurnRow
  <2>4. CASE (\E c \in Chats : PatchRead(c)) \/ PatchSave
    BY <2>4 DEF PatchRead, PatchSave, RowsGoOn
  <2> QED
    BY <2>1, <2>2, <2>3, <2>4 DEF Next
<1>2. NothingCompletes
  <2> SUFFICES ASSUME NEW c \in Chats, NEW t \in Turns, t \in Completed(c)'
               PROVE  t \in Completed(c)
    BY DEF NothingCompletes, Completed, VisibleIn
  <2>1. turns'[t].state = "completed"
    BY DEF Completed
  <2> QED
    BY <1>1, <2>1, RowsCompleteNothing DEF RowsGoOn
<1> QED
  BY <1>1, <1>2

\* A session that is kept or dropped still knows what it has to.
LEMMA SessionsKept ==
  ASSUME TypeOK, SessionInv, FilesGrow, NothingCompletes,
         \A c \in Chats : chats'[c].session \in {chats[c].session, NoTurn}
  PROVE  SessionsKnow'
<1> SUFFICES ASSUME NEW c \in Chats, chats'[c].session # NoTurn
             PROVE  Completed(c)' \subseteq files'[chats'[c].session]
  BY DEF SessionsKnow
<1>1. chats'[c].session = chats[c].session /\ chats[c].session \in Turns
  BY DEF TypeOK, ChatRow
<1>2. Completed(c) \subseteq files[chats[c].session]
  BY <1>1 DEF SessionInv, SessionsKnow
<1> QED
  BY <1>1, <1>2 DEF FilesGrow, NothingCompletes

\* A task that rests knows what it has to while nothing is completed in its chat,
\* or its own turn is over.
LEMMA RestingKnows ==
  ASSUME TypeOK, TableInv, SessionInv, FilesGrow, NEW m \in Conns, conn'[m] = conn[m],
         m \in Conns /\ conn[m].step \in Driving =>
           /\ turns'[conn[m].turn].driver = turns[conn[m].turn].driver
           /\ turns'[conn[m].turn].state = "generating" =>
                /\ turns[conn[m].turn].state = "generating"
                /\ Completed(conn[m].chat)' \subseteq Completed(conn[m].chat)
  PROVE  StreamKnows(m)' /\ FinishKnows(m)'
<1>1. Coherent(conn[m]) /\ conn[m] \in Conn
  BY DEF TypeOK
<1> DEFINE t == conn[m].turn
           c == conn[m].chat
<1>2. StreamKnows(m) /\ FinishKnows(m)
  BY DEF SessionInv
<1>3. StreamKnows(m)'
  BY <1>2 DEF StreamKnows, At, Driving
<1>4. FinishKnows(m)'
  <2> SUFFICES ASSUME conn[m].step = "finish",
                      ~ (conn[m].result # "completed" /\ conn[m].session = NoTurn)
               PROVE  /\ conn[m].session # NoTurn
                      /\ turns'[t].driver = "claude_cli" /\ turns'[t].state = "generating"
                           => Completed(c)' \cup {t} \subseteq files'[conn[m].session]
    BY DEF FinishKnows, At
  <2>1. conn[m].session \in Turns /\ conn[m].session # NoTurn
    BY <1>1, <1>2 DEF FinishKnows, At, Conn
  <2>2. files[conn[m].session] \subseteq files'[conn[m].session]
    BY <2>1 DEF FilesGrow
  <2>3. conn[m].step \in Driving
    BY DEF Driving
  <2> QED
    BY <1>2, <2>1, <2>2, <2>3 DEF FinishKnows, At
<1> QED
  BY <1>3, <1>4

\* While a PATCH is under way, nobody else changes the session of its chat.
LEMMA PatchedIsLocked ==
  ASSUME TypeOK, "stale_patch" \notin Faults, patch # NoPatch
  PROVE  patch.chat \in Chats /\ Locked(patch.chat)
  BY DEF TypeOK, Locked

\* A turn somebody else drives does not notice a step that completes nothing.
LEMMA OthersKnow ==
  ASSUME TypeOK, TableInv, SoloInv, SessionInv, FilesGrow, RowsGoOn, NothingCompletes,
         NEW m \in Conns, conn'[m] = conn[m]
  PROVE  StreamKnows(m)' /\ FinishKnows(m)'
<1>1. conn[m].step \in Driving =>
        /\ conn[m].turn \in Turns /\ conn[m].chat \in Chats
        /\ turns[conn[m].turn].state # "none"
  BY DEF TypeOK, Coherent, TableInv, DrivesItsTurn, Driving
<1>2. conn[m].step \in Driving =>
        /\ turns'[conn[m].turn].driver = turns[conn[m].turn].driver
        /\ turns'[conn[m].turn].state = "generating" =>
             /\ turns[conn[m].turn].state = "generating"
             /\ Completed(conn[m].chat)' \subseteq Completed(conn[m].chat)
  BY <1>1 DEF RowsGoOn, NothingCompletes
<1> QED
  BY <1>2, RestingKnows

\* A step that only lets the rows go on, touches no session and moves no task
\* into or within the provider call.
LEMMA AsideKnows ==
  ASSUME TypeOK, TableInv, SoloInv, SessionInv, RowsGoOn, NothingCompletes,
         files' = files,
         \A c \in Chats : chats'[c].session = chats[c].session,
         \A m \in Conns : conn'[m] = conn[m] \/ conn'[m].step \notin {"stream", "finish"},
         patch' # NoPatch => patch' = patch \/ \E c \in Chats :
                               patch' = [chat |-> c, row |-> chats[c]]
  PROVE  SessionInv'
<1>1. FilesGrow
  BY DEF FilesGrow
<1>2. SessionsKnow'
  BY <1>1, SessionsKept
<1>3. ASSUME NEW m \in Conns PROVE StreamKnows(m)' /\ FinishKnows(m)'
  <2>1. CASE conn'[m] = conn[m]
    BY <1>1, <2>1, OthersKnow
  <2>2. CASE conn'[m].step \notin {"stream", "finish"}
    BY <2>2 DEF StreamKnows, FinishKnows, At
  <2> QED
    BY <2>1, <2>2
<1>4. PatchKnows'
  <2> SUFFICES ASSUME patch' # NoPatch
               PROVE  patch'.row.session = chats'[patch'.chat].session
    BY DEF PatchKnows
  <2>1. CASE patch' = patch
    <3>1. patch.chat \in Chats
      BY <2>1 DEF TypeOK
    <3> QED
      BY <2>1, <3>1 DEF SessionInv, PatchKnows
  <2>2. CASE patch' # patch
    <3>1. PICK c \in Chats : patch' = [chat |-> c, row |-> chats[c]]
      BY <2>2
    <3> QED
      BY <3>1
  <2> QED
    BY <2>1, <2>2
<1> QED
  BY <1>2, <1>3, <1>4 DEF SessionInv

\* The steps of a task that are not part of the provider call.
LEMMA TaskAsideKnows ==
  ASSUME TypeOK, TableInv, SoloInv, SessionInv, RowsGoOn, NothingCompletes,
         NEW k \in Conns,
         \/ Send(k) \/ Create(k) \/ Commit(k) \/ Recount(k) \/ Beat(k)
         \/ StopEarly(k) \/ Crash(k)
  PROVE  SessionInv'
<1>0. conn[k] \in Conn /\ Coherent(conn[k])
  BY DEF TypeOK
<1>1. files' = files /\ patch' = patch
  BY DEF Send, Create, Commit, Recount, Beat, StopEarly, Crash
<1>2. \A c \in Chats : chats'[c].session = chats[c].session
  <2>1. CASE Commit(k)
    BY <2>1 DEF Commit, TypeOK, ChatRow
  <2>2. CASE ~ Commit(k)
    BY <2>2 DEF Send, Create, Recount, Beat, StopEarly, Crash
  <2> QED
    BY <2>1, <2>2
<1>3. \A m \in Conns : conn'[m] = conn[m] \/ conn'[m].step \notin {"stream", "finish"}
  <2>1. PICK task : /\ task = conn[k] \/ task.step \notin {"stream", "finish"}
                    /\ conn' = [conn EXCEPT ![k] = task]
    <3>1. CASE Send(k)
      <4>1. PICK c \in Chats, u \in Users :
              Become(k, [Idle EXCEPT !.step = "create", !.chat = c, !.sender = u])
        BY <3>1 DEF Send
      <4> QED
        BY <4>1 DEF Become, Idle
    <3>2. CASE Create(k)
      <4>1. CASE Leave(k)
        BY <4>1 DEF Leave, Become, Idle
      <4>2. CASE ~ Leave(k)
        <5>1. PICK t \in Turns : Become(k, [conn[k] EXCEPT !.step = "commit", !.turn = t])
          BY <3>2, <4>2 DEF Create
        <5> QED
          BY <1>0, <5>1 DEF Become, Conn
      <4> QED
        BY <4>1, <4>2
    <3>3. CASE Commit(k)
      BY <1>0, <3>3 DEF Commit, Goto, Become, Conn
    <3>4. CASE Recount(k)
      BY <1>0, <3>4 DEF Recount, Goto, Leave, Become, Conn, Idle
    <3>5. CASE Beat(k)
      <4>1. conn' = [conn EXCEPT ![k] = conn[k]]
        BY <3>5 DEF Beat, TypeOK
      <4> QED
        BY <4>1
    <3>6. CASE StopEarly(k)
      BY <1>0, <3>6 DEF StopEarly, Become, Conn
    <3>7. CASE Crash(k)
      BY <3>7 DEF Crash, Leave, Become, Idle
    <3> QED
      BY <3>1, <3>2, <3>3, <3>4, <3>5, <3>6, <3>7
  <2> QED
    BY <2>1 DEF TypeOK
<1> QED
  BY <1>1, <1>2, <1>3, AsideKnows

\* The steps no task takes: a PATCH saves the session it has read, which the
\* chat still has.
LEMMA RestKnows ==
  ASSUME TypeOK, TableInv, SoloInv, SessionInv, RowsGoOn, NothingCompletes,
         \/ \E t \in Turns : GoStale(t)
         \/ \E c \in Chats : OpenChat(c) \/ PatchRead(c)
         \/ PatchSave
  PROVE  SessionInv'
<1>1. files' = files /\ conn' = conn
  BY DEF GoStale, OpenChat, PatchRead, PatchSave
<1>2. \A c \in Chats : chats'[c].session = chats[c].session
  <2>1. CASE PatchSave
    <3>1. /\ patch.chat \in Chats /\ patch.row \in ChatRow
          /\ patch.row.session = chats[patch.chat].session
      BY <2>1 DEF PatchSave, TypeOK, SessionInv, PatchKnows
    <3>2. PICK driver \in DriverNames, archived \in BOOLEAN :
            chats' = [chats EXCEPT ![patch.chat] =
                        [patch.row EXCEPT !.driver = driver, !.archived = archived]]
      BY <2>1 DEF PatchSave
    <3>3. [patch.row EXCEPT !.driver = driver, !.archived = archived].session
            = patch.row.session
      BY <3>1 DEF ChatRow
    <3> QED
      BY <3>1, <3>2, <3>3 DEF TypeOK
  <2>2. CASE ~ PatchSave
    BY <2>2 DEF GoStale, OpenChat, PatchRead
  <2> QED
    BY <2>1, <2>2
<1>3. patch' # NoPatch => patch' = patch \/ \E c \in Chats :
                            patch' = [chat |-> c, row |-> chats[c]]
  BY DEF GoStale, OpenChat, PatchRead, PatchSave
<1> QED
  BY <1>1, <1>2, <1>3, AsideKnows

\* Who changes the session of a chat has its lock, so no PATCH is under way there.
LEMMA SessionChangeMeetsNoPatch ==
  ASSUME TypeOK, SessionInv, "stale_patch" \notin Faults,
         NEW c \in Chats, ~ Locked(c), patch' = patch,
         \A d \in Chats : d # c => chats'[d] = chats[d]
  PROVE  PatchKnows'
<1> SUFFICES ASSUME patch # NoPatch
             PROVE  patch.row.session = chats'[patch.chat].session
  BY DEF PatchKnows
<1>1. patch.chat \in Chats /\ patch.chat # c
  BY PatchedIsLocked
<1> QED
  BY <1>1 DEF SessionInv, PatchKnows

\* A call that starts shows all completed turns: it resumes a session that knows
\* them, or rebuilds the history.
LEMMA PrepareShowsAll ==
  ASSUME TypeOK, SessionInv, NEW k \in Conns, Prepare(k)
  PROVE  /\ conn'[k].step = "stream" /\ conn'[k].turn = conn[k].turn
         /\ conn'[k].chat = conn[k].chat
         /\ Completed(conn[k].chat) \subseteq conn'[k].context
         /\ \A m \in Conns : m # k => conn'[m] = conn[m]
<1> DEFINE c == conn[k].chat
<1>0. conn[k] \in Conn /\ c \in Chats
  BY DEF TypeOK, Coherent, Prepare, At
<1>a. PICK resume \in BOOLEAN :
        \E session, context :
          /\ resume => chats[c].session # NoTurn /\ context = files[chats[c].session]
          /\ ~ resume => context = Completed(c)
          /\ Become(k, [conn[k] EXCEPT !.step = "stream", !.session = session,
                                       !.context = context])
  BY DEF Prepare, Resumable
<1>1. PICK session, context :
        /\ resume => chats[c].session # NoTurn /\ context = files[chats[c].session]
        /\ ~ resume => context = Completed(c)
        /\ Become(k, [conn[k] EXCEPT !.step = "stream", !.session = session,
                                     !.context = context])
  BY <1>a
<1>2. Completed(c) \subseteq context
  BY <1>0, <1>1 DEF SessionInv, SessionsKnow
<1>3. conn'[k] = [conn[k] EXCEPT !.step = "stream", !.session = session,
                                 !.context = context]
  BY <1>1 DEF Become, TypeOK
<1>4. \A m \in Conns : m # k => conn'[m] = conn[m]
  BY <1>1 DEF Become, TypeOK
<1> QED
  BY <1>0, <1>2, <1>3, <1>4 DEF Conn

\* The steps of the provider call keep the sessions complete.
LEMMA CallKnows ==
  ASSUME TypeOK, TableInv, SoloInv, SessionInv, RowsGoOn, NothingCompletes,
         "stale_patch" \notin Faults, NEW k \in Conns,
         Prepare(k) \/ Answer(k) \/ Abort(k)
  PROVE  SessionInv'
<1>0. PICK c \in Chats, t \in Turns :
        conn[k] \in Conn /\ c = conn[k].chat /\ t = conn[k].turn
  BY DEF TypeOK, Coherent, Prepare, Answer, Abort, At, Driving
<1>1. turns' = turns /\ patch' = patch
  BY DEF Prepare, Answer, Abort
<1>2. CASE Prepare(k)
  <2>1. FilesGrow
    BY <1>2 DEF Prepare, FilesGrow
  <2>2. \A d \in Chats : /\ chats'[d].session \in {chats[d].session, NoTurn}
                         /\ d # c => chats'[d] = chats[d]
    <3>1. chats' = chats \/ chats' = [chats EXCEPT ![c].session = NoTurn]
      BY <1>0, <1>2 DEF Prepare
    <3> QED
      BY <3>1 DEF TypeOK, ChatRow
  <2>3. SessionsKnow'
    BY <2>1, <2>2, SessionsKept
  <2>4. PatchKnows'
    BY <1>0, <1>1, <1>2, <2>2, SessionChangeMeetsNoPatch DEF Prepare
  <2>5. ASSUME NEW m \in Conns PROVE StreamKnows(m)' /\ FinishKnows(m)'
    <3>1. CASE m = k
      <4>1. Completed(c)' \subseteq Completed(c)
        BY <1>0 DEF NothingCompletes
      <4> QED
        BY <1>0, <1>2, <3>1, <4>1, PrepareShowsAll DEF StreamKnows, FinishKnows, At
    <3>2. CASE m # k
      BY <1>2, <2>1, <3>2, PrepareShowsAll, OthersKnow
    <3> QED
      BY <3>1, <3>2
  <2> QED
    BY <2>3, <2>4, <2>5 DEF SessionInv
<1>3. CASE Answer(k)
  <2>1. PICK session \in Turns :
          /\ files' = IF turns[t].driver = "claude_cli"
                      THEN [files EXCEPT ![session] = @ \cup conn[k].context \cup {t}]
                      ELSE files
          /\ Become(k, [conn[k] EXCEPT !.step = "finish", !.session = session,
                                       !.context = {}, !.result = "completed"])
    BY <1>0, <1>3 DEF Answer, Conn
  <2>2. FilesGrow
    BY <2>1 DEF FilesGrow, TypeOK
  <2>3. chats' = chats
    BY <1>3 DEF Answer
  <2>4. SessionsKnow'
    BY <2>2, <2>3, SessionsKept
  <2>5. PatchKnows'
    BY <1>1, <2>3 DEF SessionInv, PatchKnows
  <2>6. /\ conn'[k].step = "finish" /\ conn'[k].turn = t /\ conn'[k].chat = c
        /\ conn'[k].session = session /\ session # NoTurn
        /\ \A m \in Conns : m # k => conn'[m] = conn[m]
    BY <1>0, <2>1, AssistantAssumption DEF Become, TypeOK, Conn, Turns
  <2>7. StreamKnows(k)' /\ FinishKnows(k)'
    <3>1. StreamKnows(k)'
      BY <2>6 DEF StreamKnows, At
    <3>2. ASSUME turns[t].driver = "claude_cli", turns[t].state = "generating"
          PROVE  Completed(c)' \cup {t} \subseteq files'[session]
      <4>1. Completed(c) \subseteq conn[k].context
        BY <1>0, <1>3, <3>2 DEF SessionInv, StreamKnows, Answer
      <4>2. Completed(c)' \subseteq Completed(c)
        BY <1>0 DEF NothingCompletes
      <4>3. files'[session] = files[session] \cup conn[k].context \cup {t}
        BY <2>1, <3>2 DEF TypeOK
      <4> QED
        BY <4>1, <4>2, <4>3
    <3>3. FinishKnows(k)'
      BY <1>1, <2>6, <3>2 DEF FinishKnows
    <3> QED
      BY <3>1, <3>3
  <2>8. \A m \in Conns : m # k => StreamKnows(m)' /\ FinishKnows(m)'
    BY <2>2, <2>6, OthersKnow
  <2> QED
    BY <2>4, <2>5, <2>7, <2>8 DEF SessionInv
<1>4. CASE Abort(k)
  <2>1. PICK result \in {"failed", "cancelled"} :
          Become(k, [conn[k] EXCEPT !.step = "finish", !.session = NoTurn,
                                    !.context = {}, !.result = result])
    BY <1>4 DEF Abort
  <2>2. FilesGrow
    BY <1>4 DEF Abort, FilesGrow
  <2>3. \A d \in Chats : /\ chats'[d].session \in {chats[d].session, NoTurn}
                         /\ d # c => chats'[d] = chats[d]
    <3>1. chats' = chats \/ chats' = [chats EXCEPT ![c].session = NoTurn]
      BY <1>0, <1>4 DEF Abort
    <3> QED
      BY <3>1 DEF TypeOK, ChatRow
  <2>4. SessionsKnow'
    BY <2>2, <2>3, SessionsKept
  <2>5. PatchKnows'
    BY <1>0, <1>1, <1>4, <2>3, SessionChangeMeetsNoPatch DEF Abort
  <2>6. /\ conn'[k].step = "finish" /\ conn'[k].session = NoTurn
        /\ conn'[k].result # "completed"
        /\ \A m \in Conns : m # k => conn'[m] = conn[m]
    BY <1>0, <2>1 DEF Become, TypeOK, Conn
  <2>7. StreamKnows(k)' /\ FinishKnows(k)'
    BY <2>6 DEF StreamKnows, FinishKnows, At
  <2>8. \A m \in Conns : m # k => StreamKnows(m)' /\ FinishKnows(m)'
    BY <2>2, <2>6, OthersKnow
  <2> QED
    BY <2>4, <2>5, <2>7, <2>8 DEF SessionInv
<1> QED
  BY <1>2, <1>3, <1>4

\* _finish completes one turn, the only one its chat is generating, and stores a
\* session that knows it; a turn that ended otherwise adds nothing.
LEMMA FinishKeepsSessions ==
  ASSUME TypeOK, TableInv, SoloInv, SessionInv, "stale_patch" \notin Faults,
         NEW k \in Conns, Finish(k)
  PROVE  SessionInv'
<1>0. PICK c \in Chats, t \in Turns :
        /\ conn[k] \in Conn /\ c = conn[k].chat /\ t = conn[k].turn
        /\ conn[k].step = "finish" /\ turns[t].chat = c
  BY DEF TypeOK, Coherent, Finish, At, Driving, TableInv, DrivesItsTurn
<1>a. PICK session : session = NewSession(c, t, conn[k].session)
  OBVIOUS
<1>1. files' = files /\ patch' = patch /\ ~ Locked(c) /\ FilesGrow
  BY <1>0 DEF Finish, FilesGrow
<1>2. conn' = [conn EXCEPT ![k] = Idle]
  BY DEF Finish, Leave, Become
<1>3. \A m \in Conns : m # k => conn'[m] = conn[m]
  BY <1>2 DEF TypeOK
<1>4. conn'[k].step = "idle"
  BY <1>2 DEF TypeOK, Idle
<1>5. StreamKnows(k)' /\ FinishKnows(k)'
  BY <1>4 DEF StreamKnows, FinishKnows, At
<1>6. CASE turns[t].state # "generating"
  <2>1. turns' = turns /\ chats' = chats
    BY <1>0, <1>6 DEF Finish
  <2>2. RowsGoOn
    BY <2>1 DEF RowsGoOn
  <2>3. NothingCompletes
    <3> SUFFICES ASSUME NEW d \in Chats, NEW s \in Turns, s \in Completed(d)'
                 PROVE  s \in Completed(d)
      BY DEF NothingCompletes, Completed, VisibleIn
    <3>1. turns[s].state = "completed" /\ turns'[s].chat = turns[s].chat
      BY <2>1 DEF Completed
    <3> QED
      BY <3>1, RowsCompleteNothing
  <2>4. \A m \in Conns : conn'[m] = conn[m] \/ conn'[m].step \notin {"stream", "finish"}
    BY <1>3, <1>4
  <2> QED
    BY <1>1, <2>1, <2>2, <2>3, <2>4, AsideKnows
<1>7. CASE turns[t].state = "generating"
  <2>1. /\ \A s \in Turns : s # t => turns'[s] = turns[s]
        /\ turns'[t].state = conn[k].result /\ turns'[t].chat = c
        /\ turns'[t].driver = turns[t].driver
    BY <1>0, <1>7 DEF Finish, TypeOK, TurnRow
  <2>2. chats' = [chats EXCEPT ![c].session = session]
    BY <1>0, <1>a, <1>7 DEF Finish
  <2>3. chats'[c].session = session /\ \A d \in Chats : d # c => chats'[d] = chats[d]
    BY <1>0, <2>2 DEF TypeOK, ChatRow
  <2>4. \A d \in Chats : Completed(d)' \subseteq Completed(d) \cup {t}
    <3> SUFFICES ASSUME NEW d \in Chats, NEW s \in Turns, s \in Completed(d)', s # t
                 PROVE  s \in Completed(d)
      BY DEF Completed, VisibleIn
    <3>1. turns'[s] = turns[s]
      BY <2>1
    <3>2. turns[s].state = "completed" /\ turns'[s].chat = turns[s].chat
      BY <3>1 DEF Completed
    <3> QED
      BY <3>2, RowsCompleteNothing
  <2>5. \A d \in Chats : t \in Completed(d)' => d = c /\ conn[k].result = "completed"
    BY <2>1 DEF Completed, VisibleIn
  <2>6. SessionsKnow'
    <3> SUFFICES ASSUME NEW d \in Chats, chats'[d].session # NoTurn
                 PROVE  Completed(d)' \subseteq files[chats'[d].session]
      BY <1>1 DEF SessionsKnow
    <3>1. CASE d # c
      BY <2>3, <2>4, <2>5, <3>1 DEF SessionInv, SessionsKnow
    <3>2. CASE d = c
      <4>1. turns[t].driver = "claude_cli" /\ session # NoTurn
        BY <1>a, <2>3, <3>2 DEF NewSession
      <4>2. FinishKnows(k)
        BY DEF SessionInv
      <4>3. CASE conn[k].session # NoTurn
        <5>1. session = conn[k].session
          BY <1>a, <4>1, <4>3 DEF NewSession
        <5>2. Completed(c) \cup {t} \subseteq files[conn[k].session]
          BY <1>0, <1>7, <4>1, <4>2, <4>3 DEF FinishKnows, At
        <5> QED
          BY <1>1, <2>3, <2>4, <3>2, <5>1, <5>2
      <4>4. CASE conn[k].session = NoTurn
        <5>1. session = chats[c].session
          BY <1>a, <4>1, <4>4 DEF NewSession
        <5>2. conn[k].result # "completed"
          BY <1>0, <4>2, <4>4 DEF FinishKnows, At
        <5>3. Completed(c)' \subseteq Completed(c)
          BY <1>0, <2>4, <2>5, <5>2
        <5> QED
          BY <2>3, <3>2, <4>1, <5>1, <5>3 DEF SessionInv, SessionsKnow
      <4> QED
        BY <4>3, <4>4
    <3> QED
      BY <3>1, <3>2
  <2>7. PatchKnows'
    BY <1>0, <1>1, <2>3, SessionChangeMeetsNoPatch
  <2>8. ASSUME NEW m \in Conns, m # k PROVE StreamKnows(m)' /\ FinishKnows(m)'
    <3>1. conn'[m] = conn[m]
      BY <1>3, <2>8
    <3>2. ASSUME conn[m].step \in Driving
          PROVE  /\ turns'[conn[m].turn].driver = turns[conn[m].turn].driver
                 /\ turns'[conn[m].turn].state = "generating" =>
                      /\ turns[conn[m].turn].state = "generating"
                      /\ Completed(conn[m].chat)' \subseteq Completed(conn[m].chat)
      <4> DEFINE u == conn[m].turn
      <4>1. u \in Turns /\ conn[m].chat \in Chats /\ turns[u].chat = conn[m].chat
        BY <3>2 DEF TypeOK, Coherent, TableInv, DrivesItsTurn, Driving
      <4>2. u # t
        BY <1>0, <2>8, <3>2 DEF SoloInv, OwnTurns, Driving
      <4>3. turns'[u] = turns[u]
        BY <2>1, <4>1, <4>2
      <4>4. ASSUME turns[u].state = "generating" PROVE conn[m].chat # c
        BY <1>0, <1>7, <4>1, <4>2, <4>4 DEF TableInv, OneGenerating
      <4>5. ASSUME conn[m].chat # c
            PROVE  Completed(conn[m].chat)' \subseteq Completed(conn[m].chat)
        BY <3>1, <2>4, <2>5, <4>1, <4>5
      <4> QED
        BY <3>1, <4>3, <4>4, <4>5
    <3> QED
      BY <1>1, <3>1, <3>2, RestingKnows
  <2> QED
    BY <1>5, <2>6, <2>7, <2>8 DEF SessionInv
<1> QED
  BY <1>6, <1>7

\* The invariant of the sessions is inductive while a PATCH keeps other writers out.
LEMMA StepKeepsSessions ==
  ASSUME "stale_patch" \notin Faults,
         TypeOK, TableInv, SoloInv, SessionInv, [Next]_vars
  PROVE  SoloInv' /\ SessionInv'
<1>1. CASE UNCHANGED vars
  <2>1. SoloInv'
    BY <1>1 DEF vars, SoloInv, OwnTurns, HiddenIsGenerating, At
  <2>2. SessionInv'
    BY <1>1 DEF vars, SessionInv, SessionsKnow, StreamKnows, FinishKnows, PatchKnows,
       Completed, VisibleIn, Visible, At
  <2> QED
    BY <2>1, <2>2
<1>2. CASE Next
  <2>1. SoloInv'
    BY <1>2, StepKeepsSolo
  <2>2. CASE \E k \in Conns : Finish(k)
    BY <2>1, <2>2, FinishKeepsSessions
  <2>3. CASE ~ \E k \in Conns : Finish(k)
    <3>1. RowsGoOn /\ NothingCompletes
      BY <1>2, <2>3, StepGoesOn
    <3> QED
      BY <1>2, <2>1, <2>3, <3>1, TaskAsideKnows, CallKnows, RestKnows DEF Next, Task
  <2> QED
    BY <2>2, <2>3
<1> QED
  BY <1>1, <1>2

\* No session, no task and no PATCH at first.
LEMMA InitSessions == Init => SoloInv /\ SessionInv
<1> SUFFICES ASSUME Init PROVE SoloInv /\ SessionInv
  OBVIOUS
<1>1. \A c \in Chats : chats[c].session = NoTurn
  BY DEF Init
<1>2. \A k \in Conns : conn[k].step = "idle"
  BY DEF Init, Idle
<1>3. patch = NoPatch
  BY DEF Init
<1> QED
  BY <1>1, <1>2, <1>3 DEF SoloInv, OwnTurns, HiddenIsGenerating, SessionInv, SessionsKnow,
     StreamKnows, FinishKnows, PatchKnows, At, Driving

\* Only the step that makes the provider call begins one.
LEMMA OnlyPrepareStreams ==
  ASSUME TypeOK, Next, NEW k \in Conns, conn[k].step = "prepare", conn'[k].step = "stream"
  PROVE  \E m \in Conns : Prepare(m)
<1>0. conn[k] \in Conn
  BY DEF TypeOK
<1>1. conn' # conn
  OBVIOUS
<1>2. PICK m \in Conns : Task(m)
  BY <1>1 DEF Next, GoStale, OpenChat, PatchRead, PatchSave
<1>3. ASSUME NEW task, Become(m, task), task.step = "stream" => task = conn[m]
      PROVE  FALSE
  BY <1>1, <1>3 DEF Become, TypeOK
<1>4. ~ Leave(m)
  BY <1>3 DEF Leave, Idle
<1>5. ASSUME NEW step \in {"recount", "prepare"} PROVE ~ Goto(m, step)
  BY <1>3 DEF Goto, TypeOK, Conn
<1>6. CASE Send(m)
  <2>1. PICK c \in Chats, u \in Users :
          Become(m, [Idle EXCEPT !.step = "create", !.chat = c, !.sender = u])
    BY <1>6 DEF Send
  <2> QED
    BY <2>1, <1>3 DEF Idle
<1>7. CASE Create(m)
  <2>1. PICK t \in Turns : Become(m, [conn[m] EXCEPT !.step = "commit", !.turn = t])
    BY <1>4, <1>7 DEF Create
  <2> QED
    BY <2>1, <1>3 DEF TypeOK, Conn
<1>8. CASE Commit(m) \/ Recount(m) \/ Finish(m) \/ Crash(m)
  BY <1>4, <1>5, <1>8 DEF Commit, Recount, Finish, Crash
<1>9. CASE Answer(m)
  <2>1. PICK s : Become(m, [conn[m] EXCEPT !.step = "finish", !.session = s,
                                           !.context = {}, !.result = "completed"])
    BY <1>9 DEF Answer
  <2> QED
    BY <2>1, <1>3 DEF TypeOK, Conn
<1>10. CASE Abort(m)
  <2>1. PICK result : Become(m, [conn[m] EXCEPT !.step = "finish", !.session = NoTurn,
                                                !.context = {}, !.result = result])
    BY <1>10 DEF Abort
  <2> QED
    BY <2>1, <1>3 DEF TypeOK, Conn
<1>11. CASE StopEarly(m)
  <2>1. Become(m, [conn[m] EXCEPT !.orphan = TRUE]) /\ conn[m].step # "stream"
    BY <1>11 DEF StopEarly
  <2> QED
    BY <2>1, <1>3 DEF TypeOK, Conn
<1>12. ~ Beat(m)
  BY <1>1 DEF Beat
<1> QED
  BY <1>2, <1>6, <1>7, <1>8, <1>9, <1>10, <1>11, <1>12 DEF Task

\* However the drivers of a chat change, whatever is lost, crashes or goes stale,
\* the provider sees every completed turn, as long as a PATCH keeps other writers of
\* its row out; with "stale_patch" it does not (assistant/views.py takes no lock).
THEOREM NothingIsForgotten ==
  ASSUME "stale_patch" \notin Faults
  PROVE  Spec => ContextIsComplete
<1> DEFINE Inv == TypeOK /\ TableInv /\ SoloInv /\ SessionInv
           Shown == \A k \in Conns : At(k, "prepare") /\ conn'[k].step = "stream"
                      => Completed(conn[k].chat) \subseteq conn'[k].context
<1>1. Init => Inv
  BY InitTypeOK, InitTable, InitSessions
<1>2. Inv /\ [Next]_vars => Inv'
  BY NextTypeOK, StepKeepsTable, StepKeepsSessions
<1>3. Inv /\ [Next]_vars => [Shown]_vars
  <2> SUFFICES ASSUME Inv, Next, NEW k \in Conns, At(k, "prepare"),
                      conn'[k].step = "stream"
               PROVE  Completed(conn[k].chat) \subseteq conn'[k].context
    OBVIOUS
  <2>1. CASE \E m \in Conns : Prepare(m)
    <3>1. PICK m \in Conns : Prepare(m)
      BY <2>1
    <3>2. m = k
      BY <3>1, PrepareShowsAll DEF At
    <3> QED
      BY <3>1, <3>2, PrepareShowsAll
  <2>2. CASE ~ \E m \in Conns : Prepare(m)
    BY <2>2, OnlyPrepareStreams DEF At
  <2> QED
    BY <2>1, <2>2
<1> QED
  BY <1>1, <1>2, <1>3, PTL DEF Spec, ContextIsComplete
=============================================================================
