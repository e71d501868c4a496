-------------------------- MODULE RelayQueueProofs --------------------------
(***************************************************************************)
(* Proofs about RelayQueue for any number of requests, receivers, workers, *)
(* keys and delivery attempts.                                             *)
(***************************************************************************)
EXTENDS RelayQueue, TLAPS

\* The two rows of a task are inserted together; a request that has not
\* inserted yet has no row; only a task in the table is ever handed out.
RowsInv ==
  \A t \in Sends :
    /\ status[t] = "none" <=> message[t] = "none"
    /\ send[t] \in {"new", "unknown"} => status[t] = "none"
    /\ send[t] = "inserted" => status[t] # "none"

\* What a handler read may be stale, but only in one direction: a task it saw
\* past delivery is still past delivery.
HandlerInv ==
  \A w \in Workers :
    /\ handler[w].op \in {"ack", "respond"} => status[handler[w].task] # "none"
    /\ handler[w].op = "respond" => handler[w].status \notin Undelivered
    /\ handler[w].op = "ack" /\ handler[w].status \notin Undelivered
         => status[handler[w].task] \notin Undelivered

SweepInv == \A t \in sweep : status[t] = "expired"

\* One row per key, and an answer names a row with the caller's key.
KeysInv ==
  /\ \A s, t \in Sends :
       /\ KeyOf[s] = KeyOf[t] /\ KeyOf[s] \in Keys
       /\ status[s] # "none" /\ status[t] # "none"
       => s = t
  /\ \A c \in Sends :
       told[c] # NoTask =>
         /\ status[told[c]] # "none"
         /\ KeyOf[told[c]] = KeyOf[c]

QueueInv ==
  /\ TypeOK
  /\ RowsInv
  /\ HandlerInv
  /\ SweepInv
  /\ KeysInv
  /\ MessageAgreesWithTask

-----------------------------------------------------------------------------
(* Types *)

\* A worker that is busy holds a well-formed request.
LEMMA RequestTyped ==
  ASSUME TypeOK, NEW w \in Workers, handler[w].op \in {"ack", "respond"}
  PROVE  /\ handler[w] \in Request
         /\ handler[w].task \in Sends
         /\ handler[w].status \in TaskStatus
<1>1. handler[w] \in {Idle} \cup Request
  BY DEF TypeOK
<1>2. handler[w] # Idle
  BY DEF Idle
<1> QED
  BY <1>1, <1>2 DEF Request

\* An ack of a request that is still undelivered makes it stored, and never
\* makes anything undelivered.
LEMMA AckedStatus ==
  ASSUME NEW s \in TaskStatus
  PROVE  /\ StatusAfterAck(s) \in TaskStatus \ Undelivered
         /\ StatusAfterAck(s) # s <=> s \in Undelivered
         /\ s \in Undelivered => StatusAfterAck(s) = "stored_by_remote_agent"
BY DEF StatusAfterAck, TaskStatus, Undelivered

\* A guarded update of one task's row keeps the types of the table.
LEMMA UpdateTyped ==
  ASSUME TypeOK, NEW t \in Sends, NEW s \in TaskStatus, UpdateTask(t, s)
  PROVE  /\ status' \in [Sends -> TaskStatus \cup {"none"}]
         /\ backoff' \in [Sends -> BOOLEAN]
<1>1. CASE MayUpdate(t)
  <2>1. /\ status' = [status EXCEPT ![t] = s]
        /\ backoff' = [backoff EXCEPT ![t] = FALSE]
    BY <1>1 DEF UpdateTask
  <2> QED
    BY <2>1 DEF TypeOK
<1>2. CASE ~MayUpdate(t)
  BY <1>2 DEF UpdateTask, TypeOK
<1> QED
  BY <1>1, <1>2

\* Every handler, fetch, sweep, tick and crash keeps the types.
LEMMA TypeStep == TypeOK /\ [Next]_vars => TypeOK'
<1> SUFFICES ASSUME TypeOK, [Next]_vars PROVE TypeOK'
  OBVIOUS
<1> USE QueueConstants, ForwardResponses
<1>1. ASSUME NEW c \in Sends, SendLookup(c) PROVE TypeOK'
  BY <1>1 DEF SendLookup, taskVars, SameKey, TypeOK
<1>2. ASSUME NEW c \in Sends, SendInsert(c) PROVE TypeOK'
  BY <1>2 DEF SendInsert, TypeOK, TaskStatus, MessageStatus
<1>3. ASSUME NEW c \in Sends, SendEnqueue(c) PROVE TypeOK'
  BY <1>3 DEF SendEnqueue, TypeOK, TaskStatus
<1>4. ASSUME NEW r \in Receivers, FetchInbox(r) PROVE TypeOK'
  BY <1>4 DEF FetchInbox, Eligible, AtLimit, TypeOK, TaskStatus, MessageStatus
<1>5. ASSUME NEW w \in Workers, NEW t \in Sends, AckRead(w, t) PROVE TypeOK'
  BY <1>5 DEF AckRead, taskVars, Request, TypeOK
<1>6. ASSUME NEW w \in Workers, AckCommit(w) PROVE TypeOK'
  <2> DEFINE t == handler[w].task
             next == StatusAfterAck(handler[w].status)
  <2>1. t \in Sends /\ next \in TaskStatus
    BY <1>6, RequestTyped, AckedStatus DEF AckCommit
  <2>2. /\ status' \in [Sends -> TaskStatus \cup {"none"}]
        /\ backoff' \in [Sends -> BOOLEAN]
    <3>1. CASE next # handler[w].status
      <4> HIDE DEF next, t
      <4>1. UpdateTask(t, next)
        BY <1>6, <3>1 DEF AckCommit, next, t
      <4> QED
        BY <4>1, <2>1, UpdateTyped
    <3>2. CASE next = handler[w].status
      BY <1>6, <3>2 DEF AckCommit, TypeOK
    <3> QED
      BY <3>1, <3>2
  <2>3. message' \in [Sends -> MessageStatus \cup {"none"}]
    <3> HIDE DEF t
    <3> message' = [message EXCEPT ![t] = IF @ \in Open THEN "acked" ELSE @]
      BY <1>6 DEF AckCommit, t
    <3> QED
      BY <2>1 DEF TypeOK, MessageStatus
  <2>4. handler' \in [Workers -> {Idle} \cup Request]
    BY <1>6 DEF AckCommit, TypeOK
  <2> QED
    BY <1>6, <2>2, <2>3, <2>4 DEF AckCommit, TypeOK
<1>7. ASSUME NEW w \in Workers, NEW t \in Sends, NEW s \in Responses, RespondRead(w, t, s)
      PROVE TypeOK'
  BY <1>7 DEF RespondRead, taskVars, Request, TypeOK
<1>8. ASSUME NEW w \in Workers, RespondCommit(w) PROVE TypeOK'
  <2> DEFINE t == handler[w].task
             s == handler[w].status
  <2>1. t \in Sends /\ s \in TaskStatus
    BY <1>8, RequestTyped DEF RespondCommit
  <2>2. /\ answered' = [answered EXCEPT ![t] = TRUE]
        /\ UpdateTask(t, s)
        /\ handler' = [handler EXCEPT ![w] = Idle]
    BY <1>8 DEF RespondCommit
  <2> HIDE DEF t, s
  <2>3. /\ status' \in [Sends -> TaskStatus \cup {"none"}]
        /\ backoff' \in [Sends -> BOOLEAN]
    BY <2>1, <2>2, UpdateTyped
  <2>4. /\ answered' \in [Sends -> BOOLEAN]
        /\ handler' \in [Workers -> {Idle} \cup Request]
    BY <2>1, <2>2 DEF TypeOK
  <2> QED
    BY <1>8, <2>3, <2>4 DEF RespondCommit, TypeOK
<1>9. ASSUME SweepTasks PROVE TypeOK'
  BY <1>9 DEF SweepTasks, TypeOK, TaskStatus
<1>10. ASSUME SweepMessages PROVE TypeOK'
  BY <1>10 DEF SweepMessages, TypeOK, MessageStatus
<1>11. ASSUME NEW t \in Sends, TtlElapses(t) PROVE TypeOK'
  BY <1>11 DEF TtlElapses, TypeOK
<1>12. ASSUME NEW t \in Sends, BackoffElapses(t) PROVE TypeOK'
  BY <1>12 DEF BackoffElapses, TypeOK
<1>13. ASSUME Crash PROVE TypeOK'
  BY <1>13 DEF Crash, taskVars, TypeOK
<1>14. ASSUME UNCHANGED vars PROVE TypeOK'
  BY <1>14 DEF vars, taskVars, TypeOK
<1> QED
  BY <1>1, <1>2, <1>3, <1>4, <1>5, <1>6, <1>7, <1>8, <1>9, <1>10, <1>11, <1>12,
     <1>13, <1>14 DEF Next, Send, Ack, Respond, Sweep, Tick

\* The queue's tables, requests and sweep stay in their types.
THEOREM TypeCorrect == Spec => []TypeOK
<1>1. Init => TypeOK
  BY QueueConstants DEF Init, TypeOK
<1> QED
  BY <1>1, TypeStep, PTL DEF Spec

-----------------------------------------------------------------------------
(* How one step may move one task's row *)

\* Everything the invariants need to know about a step: a row is created as
\* 'accepted' and never removed, a terminal status is final, and a task past
\* delivery does not come back.
Moves(t) ==
  /\ status[t] = "none" => status'[t] \in {"none", "accepted"}
  /\ status[t] # "none" => status'[t] # "none"
  /\ status[t] \in Terminal => status'[t] = status[t]
  /\ status[t] \notin Undelivered \cup {"none"} => status'[t] \notin Undelivered

\* What one inbox fetch does to the row of one task.
LEMMA FetchRow ==
  ASSUME TypeOK, NEW r \in Receivers, FetchInbox(r), NEW t \in Sends
  PROVE  \/ /\ Expirable(t)
            /\ status'[t] = "expired"
            /\ message'[t] = IF message[t] \in Open THEN "expired" ELSE message[t]
            /\ attempts'[t] = attempts[t]
         \/ /\ Exhausted(t)
            /\ status'[t] = "failed"
            /\ message'[t] = IF message[t] \in Open THEN "failed" ELSE message[t]
            /\ attempts'[t] = attempts[t]
         \/ /\ Eligible(t)
            /\ status'[t] = "delivered_to_remote_agent"
            /\ message'[t] = "delivered"
         \/ /\ status'[t] = status[t]
            /\ \/ message'[t] = message[t]
               \/ /\ message'[t] = "expired"
                  /\ status[t] = "expired"
                  /\ message[t] \in Open
            /\ attempts'[t] = attempts[t]
<1> DEFINE mine == {u \in Sends : To[u] = r}
           expired == {u \in mine : Expirable(u)}
           exhausted == {u \in mine : Exhausted(u)}
<1>1. PICK batch \in SUBSET {u \in mine : Eligible(u)} :
        /\ status' = [u \in Sends |->
             CASE u \in expired   -> "expired"
               [] u \in exhausted -> "failed"
               [] u \in batch     -> "delivered_to_remote_agent"
               [] OTHER           -> status[u]]
        /\ message' = [u \in Sends |->
             CASE u \in mine /\ ExpiresMessage(u)          -> "expired"
               [] u \in exhausted /\ message[u] \in Open   -> "failed"
               [] u \in batch                              -> "delivered"
               [] OTHER                                    -> message[u]]
        /\ attempts' = [u \in Sends |->
             IF u \in batch THEN attempts[u] + 1 ELSE attempts[u]]
  BY DEF FetchInbox
<1>2. ~(Expirable(t) /\ Exhausted(t))
  BY DEF Exhausted
<1>3. ~(Expirable(t) /\ t \in batch) /\ ~(Exhausted(t) /\ t \in batch)
  BY DEF Expirable, Exhausted, Eligible
<1>4. ExpiresMessage(t) /\ ~Expirable(t) => status[t] = "expired" /\ message[t] \in Open
  BY DEF ExpiresMessage
<1>5. status[t] = "expired" => ~Expirable(t) /\ ~Exhausted(t) /\ ~Eligible(t)
  BY DEF Expirable, Exhausted, Eligible, Undelivered
<1> QED
  BY <1>1, <1>2, <1>3, <1>4, <1>5 DEF ExpiresMessage

\* A guarded update moves only its own row, and moves a terminal one nowhere.
LEMMA UpdateMoves ==
  ASSUME TypeOK, NEW t \in Sends, NEW s \in TaskStatus \ Undelivered,
         status[t] # "none", UpdateTask(t, s), NEW u \in Sends
  PROVE  Moves(u)
<1>1. CASE MayUpdate(t)
  <2>1. status' = [status EXCEPT ![t] = s]
    BY <1>1 DEF UpdateTask
  <2> QED
    BY <1>1, <2>1 DEF TypeOK, Moves, MayUpdate, TaskStatus
<1>2. CASE ~MayUpdate(t)
  BY <1>2 DEF UpdateTask, Moves, TypeOK
<1> QED
  BY <1>1, <1>2

\* Whatever happens, a row only makes moves that the guarded updates allow.
LEMMA StepMoves ==
  ASSUME TypeOK, RowsInv, HandlerInv, [Next]_vars, NEW t \in Sends
  PROVE  Moves(t)
<1> USE DEF Moves
<1>1. ASSUME NEW c \in Sends, SendInsert(c) PROVE Moves(t)
  BY <1>1 DEF SendInsert, RowsInv, TypeOK, Undelivered, Terminal
<1>2. ASSUME NEW c \in Sends, SendEnqueue(c) PROVE Moves(t)
  BY <1>2 DEF SendEnqueue, RowsInv, TypeOK, Undelivered, Terminal
<1>3. ASSUME NEW r \in Receivers, FetchInbox(r) PROVE Moves(t)
  BY <1>3, FetchRow DEF Expirable, Exhausted, Eligible, Undelivered, Terminal
<1>4. ASSUME NEW w \in Workers, AckCommit(w) PROVE Moves(t)
  <2> DEFINE u == handler[w].task
             read == handler[w].status
  <2>1. /\ u \in Sends
        /\ read \in TaskStatus
        /\ status[u] # "none"
        /\ StatusAfterAck(read) \in TaskStatus \ Undelivered
    BY <1>4, RequestTyped, AckedStatus DEF AckCommit, HandlerInv
  <2>2. CASE UpdateTask(u, StatusAfterAck(read))
    <3> HIDE DEF u, read
    <3> QED
      BY <2>1, <2>2, UpdateMoves
  <2>3. CASE status' = status
    BY <2>3
  <2> QED
    BY <1>4, <2>2, <2>3 DEF AckCommit
<1>5. ASSUME NEW w \in Workers, RespondCommit(w) PROVE Moves(t)
  <2>1. /\ handler[w].task \in Sends
        /\ handler[w].status \in TaskStatus \ Undelivered
        /\ status[handler[w].task] # "none"
    BY <1>5, RequestTyped DEF RespondCommit, HandlerInv
  <2>2. UpdateTask(handler[w].task, handler[w].status)
    BY <1>5 DEF RespondCommit
  <2> QED
    BY <2>1, <2>2, UpdateMoves
<1>6. ASSUME SweepTasks PROVE Moves(t)
  BY <1>6 DEF SweepTasks, Expirable, Undelivered, Terminal
<1>7. ASSUME status' = status PROVE Moves(t)
  BY <1>7
<1> QED
  BY <1>1, <1>2, <1>3, <1>4, <1>5, <1>6, <1>7
     DEF Next, Send, Ack, Respond, Sweep, Tick, SendLookup, AckRead, RespondRead,
         SweepMessages, TtlElapses, BackoffElapses, Crash, vars, taskVars

-----------------------------------------------------------------------------
(* The invariant, one conjunct at a time *)

\* The ids that the sweep works on between its two statements are of expired rows.
LEMMA SweepStep ==
  ASSUME TypeOK, SweepInv, [Next]_vars, \A t \in Sends : Moves(t)
  PROVE  SweepInv'
<1>1. \A t \in sweep : status'[t] = "expired"
  BY DEF Moves, SweepInv, Terminal, TypeOK
<1>2. CASE SweepTasks
  BY <1>2 DEF SweepTasks, SweepInv
<1>3. CASE sweep' \subseteq sweep
  BY <1>1, <1>3 DEF SweepInv
<1> QED
  BY <1>2, <1>3
     DEF Next, Send, Ack, Respond, Sweep, Tick, SendLookup, SendInsert, SendEnqueue,
         FetchInbox, AckRead, AckCommit, RespondRead, RespondCommit, SweepMessages,
         TtlElapses, BackoffElapses, Crash, vars, taskVars

\* What a waiting handler has read of a row stays true enough: the row exists,
\* and it has left "undelivered" if it had left it then.
LEMMA HandlerStep ==
  ASSUME TypeOK, HandlerInv, [Next]_vars, \A t \in Sends : Moves(t)
  PROVE  HandlerInv'
<1> DEFINE Good(w) ==
      /\ handler'[w].op \in {"ack", "respond"} => status'[handler'[w].task] # "none"
      /\ handler'[w].op = "respond" => handler'[w].status \notin Undelivered
      /\ handler'[w].op = "ack" /\ handler'[w].status \notin Undelivered
           => status'[handler'[w].task] \notin Undelivered
<1> SUFFICES ASSUME NEW w \in Workers PROVE Good(w)
  BY DEF HandlerInv
<1>1. CASE handler'[w] = handler[w]
  <2>1. CASE handler[w].op \in {"ack", "respond"}
    <3>1. handler[w].task \in Sends
      BY <2>1, RequestTyped
    <3>2. Moves(handler[w].task)
      BY <3>1
    <3> QED
      BY <1>1, <2>1, <3>2 DEF HandlerInv, Moves
  <2>2. CASE handler[w].op \notin {"ack", "respond"}
    BY <1>1, <2>2
  <2> QED
    BY <2>1, <2>2
<1>2. CASE handler'[w] = Idle
  BY <1>2 DEF Idle
<1>3. ASSUME NEW t \in Sends, AckRead(w, t) PROVE Good(w)
  <2>1. handler'[w] = [op |-> "ack", task |-> t, status |-> status[t]]
    BY <1>3 DEF AckRead, TypeOK
  <2> QED
    BY <1>3, <2>1 DEF AckRead, taskVars
<1>4. ASSUME NEW t \in Sends, NEW s \in Responses, RespondRead(w, t, s) PROVE Good(w)
  <2>1. handler'[w] = [op |-> "respond", task |-> t, status |-> s]
    BY <1>4 DEF RespondRead, TypeOK
  <2>2. s \notin Undelivered
    BY ForwardResponses
  <2> QED
    BY <1>4, <2>1, <2>2 DEF RespondRead, taskVars, Terminal
<1>5. \/ handler'[w] = handler[w]
      \/ handler'[w] = Idle
      \/ \E t \in Sends : AckRead(w, t)
      \/ \E t \in Sends, s \in Responses : RespondRead(w, t, s)
  <2>1. CASE handler' = handler
    BY <2>1
  <2>2. ASSUME NEW v \in Workers, AckCommit(v) \/ RespondCommit(v) PROVE <1>5!1 \/ <1>5!2
    BY <2>2 DEF AckCommit, RespondCommit, TypeOK
  <2>3. ASSUME NEW v \in Workers, NEW t \in Sends, AckRead(v, t) PROVE <1>5
    BY <2>3 DEF AckRead, TypeOK
  <2>4. ASSUME NEW v \in Workers, NEW t \in Sends, NEW s \in Responses, RespondRead(v, t, s)
        PROVE <1>5
    BY <2>4 DEF RespondRead, TypeOK
  <2>5. CASE Crash
    BY <2>5 DEF Crash
  <2> QED
    BY <2>1, <2>2, <2>3, <2>4, <2>5
       DEF Next, Send, Ack, Respond, Sweep, Tick, SendLookup, SendInsert, SendEnqueue,
           FetchInbox, SweepTasks, SweepMessages, TtlElapses, BackoffElapses, vars
<1> QED
  BY <1>1, <1>2, <1>3, <1>4, <1>5

\* Only the insert of a request creates its row.
LEMMA NewRow ==
  ASSUME TypeOK, RowsInv, HandlerInv, [Next]_vars,
         NEW t \in Sends, status[t] = "none", status'[t] # "none"
  PROVE  SendInsert(t) /\ KeyIsFree(t)
<1>1. ASSUME NEW c \in Sends, SendInsert(c) PROVE SendInsert(t) /\ KeyIsFree(t)
  BY <1>1 DEF SendInsert, TypeOK
<1>2. ASSUME NEW c \in Sends, SendEnqueue(c) PROVE FALSE
  BY <1>2 DEF SendEnqueue, TypeOK
<1>3. ASSUME NEW r \in Receivers, FetchInbox(r) PROVE FALSE
  BY <1>3, FetchRow DEF Expirable, Exhausted, Eligible, Undelivered
<1>4. ASSUME NEW u \in Sends, NEW s \in TaskStatus, status[u] # "none", UpdateTask(u, s)
      PROVE  FALSE
  BY <1>4 DEF UpdateTask, TypeOK
<1>5. ASSUME NEW w \in Workers, AckCommit(w) PROVE FALSE
  BY <1>5, <1>4, RequestTyped, AckedStatus DEF AckCommit, HandlerInv
<1>6. ASSUME NEW w \in Workers, RespondCommit(w) PROVE FALSE
  BY <1>6, <1>4, RequestTyped DEF RespondCommit, HandlerInv
<1>7. ASSUME SweepTasks PROVE FALSE
  BY <1>7 DEF SweepTasks, Expirable, Undelivered
<1> QED
  BY <1>1, <1>2, <1>3, <1>5, <1>6, <1>7
     DEF Next, Send, Ack, Respond, Sweep, Tick, SendLookup, AckRead, RespondRead,
         SweepMessages, TtlElapses, BackoffElapses, Crash, vars, taskVars

\* Rows of one sender and key stay unique, and answers name a row of their key.
LEMMA KeysStep ==
  ASSUME TypeOK, RowsInv, HandlerInv, KeysInv, [Next]_vars, \A t \in Sends : Moves(t)
  PROVE  KeysInv'
<1>1. ASSUME NEW t \in Sends, NEW u \in Sends,
             KeyOf[u] = KeyOf[t], KeyOf[u] \in Keys,
             status'[u] # "none", status'[t] # "none"
      PROVE  u = t
  <2>1. CASE status[u] # "none" /\ status[t] # "none"
    BY <1>1, <2>1 DEF KeysInv
  <2>2. CASE status[u] = "none" /\ status[t] # "none"
    BY <1>1, <2>2, NewRow DEF KeyIsFree, SameKey
  <2>3. CASE status[u] # "none" /\ status[t] = "none"
    BY <1>1, <2>3, NewRow DEF KeyIsFree, SameKey
  <2>4. CASE status[u] = "none" /\ status[t] = "none"
    BY <1>1, <2>4, NewRow DEF SendInsert, TypeOK
  <2> QED
    BY <2>1, <2>2, <2>3, <2>4
<1>2. ASSUME NEW c \in Sends, told'[c] # NoTask
      PROVE  status'[told'[c]] # "none" /\ KeyOf[told'[c]] = KeyOf[c]
  <2>1. CASE told'[c] = told[c]
    BY <1>2, <2>1 DEF KeysInv, Moves, TypeOK
  <2>2. ASSUME SendLookup(c), NEW d \in SameKey(c), told'[c] = d
        PROVE  status'[told'[c]] # "none" /\ KeyOf[told'[c]] = KeyOf[c]
    BY <2>2 DEF SendLookup, taskVars, SameKey
  <2>3. CASE SendEnqueue(c) /\ told'[c] = c
    BY <2>3 DEF SendEnqueue, RowsInv, Moves, TypeOK
  <2>4. \/ told'[c] = told[c]
        \/ SendLookup(c) /\ \E d \in SameKey(c) : told'[c] = d
        \/ SendEnqueue(c) /\ told'[c] = c
    <3>1. ASSUME NEW b \in Sends, SendLookup(b) PROVE <2>4
      BY <3>1 DEF SendLookup, TypeOK
    <3>2. ASSUME NEW b \in Sends, SendEnqueue(b) PROVE <2>4
      BY <3>2 DEF SendEnqueue, TypeOK
    <3>3. CASE told' = told
      BY <3>3
    <3> QED
      BY <3>1, <3>2, <3>3
         DEF Next, Send, Ack, Respond, Sweep, Tick, SendInsert, FetchInbox, AckRead,
             AckCommit, RespondRead, RespondCommit, SweepTasks, SweepMessages,
             TtlElapses, BackoffElapses, Crash, vars
  <2> QED
    BY <2>1, <2>2, <2>3, <2>4
<1> QED
  BY <1>1, <1>2 DEF KeysInv

\* The rows and the requests, one step on.
LEMMA RowsStep ==
  ASSUME TypeOK, RowsInv, HandlerInv, SweepInv, [Next]_vars
  PROVE  RowsInv'
<1> USE DEF RowsInv
<1>1. ASSUME NEW c \in Sends, SendLookup(c) PROVE RowsInv'
  BY <1>1 DEF SendLookup, taskVars, TypeOK
<1>2. ASSUME NEW c \in Sends, SendInsert(c) PROVE RowsInv'
  BY <1>2 DEF SendInsert, TypeOK
<1>3. ASSUME NEW c \in Sends, SendEnqueue(c) PROVE RowsInv'
  BY <1>3 DEF SendEnqueue, TypeOK
<1>4. ASSUME NEW r \in Receivers, FetchInbox(r) PROVE RowsInv'
  <2>1. send' = send
    BY <1>4 DEF FetchInbox
  <2>2. \A t \in Sends : status'[t] = "none" <=> status[t] = "none"
    BY <1>4, FetchRow DEF Expirable, Exhausted, Eligible, Undelivered
  <2>3. \A t \in Sends : message'[t] = "none" <=> message[t] = "none"
    BY <1>4, FetchRow DEF Expirable, Exhausted, Eligible, Undelivered, Open
  <2> QED
    BY <2>1, <2>2, <2>3
<1>5. ASSUME NEW w \in Workers, AckCommit(w) PROVE RowsInv'
  <2> DEFINE u == handler[w].task
             next == StatusAfterAck(handler[w].status)
  <2>1. u \in Sends /\ next \in TaskStatus /\ status[u] # "none"
    BY <1>5, RequestTyped, AckedStatus DEF AckCommit, HandlerInv
  <2>2. /\ message' = [message EXCEPT ![u] = IF @ \in Open THEN "acked" ELSE @]
        /\ send' = send
        /\ UpdateTask(u, next) \/ status' = status
    BY <1>5 DEF AckCommit
  <2> HIDE DEF u, next
  <2>3. \A t \in Sends : status'[t] = "none" <=> status[t] = "none"
    BY <2>1, <2>2 DEF UpdateTask, TypeOK, TaskStatus
  <2>4. \A t \in Sends : message'[t] = "none" <=> message[t] = "none"
    BY <2>1, <2>2 DEF TypeOK, Open
  <2> QED
    BY <2>2, <2>3, <2>4
<1>6. ASSUME NEW w \in Workers, RespondCommit(w) PROVE RowsInv'
  <2>1. /\ handler[w].task \in Sends
        /\ handler[w].status \in TaskStatus
        /\ status[handler[w].task] # "none"
    BY <1>6, RequestTyped DEF RespondCommit, HandlerInv
  <2>2. /\ message' = message
        /\ send' = send
        /\ UpdateTask(handler[w].task, handler[w].status)
    BY <1>6 DEF RespondCommit
  <2>3. \A t \in Sends : status'[t] = "none" <=> status[t] = "none"
    BY <2>1, <2>2 DEF UpdateTask, TypeOK, TaskStatus
  <2> QED
    BY <2>2, <2>3
<1>7. ASSUME SweepTasks PROVE RowsInv'
  BY <1>7 DEF SweepTasks, Expirable, Undelivered, TypeOK
<1>8. ASSUME SweepMessages PROVE RowsInv'
  BY <1>8 DEF SweepMessages, SweepInv, Open, TypeOK
<1>9. ASSUME Crash PROVE RowsInv'
  BY <1>9 DEF Crash, taskVars, TypeOK
<1>10. ASSUME UNCHANGED <<status, message, send>> PROVE RowsInv'
  BY <1>10
<1> QED
  BY <1>1, <1>2, <1>3, <1>4, <1>5, <1>6, <1>7, <1>8, <1>9, <1>10
     DEF Next, Send, Ack, Respond, Sweep, Tick, AckRead, RespondRead,
         TtlElapses, BackoffElapses, vars, taskVars

\* The tables keep agreeing.  An ack is the hard case: it closes the message
\* by what the row is now and moves the task by what the row was.
LEMMA AgreementStep ==
  ASSUME QueueInv, [Next]_vars
  PROVE  MessageAgreesWithTask'
<1> USE DEF QueueInv
<1> DEFINE Agree(s, m) ==
      /\ s \in {"accepted", "queued"} => m = "queued"
      /\ s = "delivered_to_remote_agent" => m = "delivered"
      /\ m = "acked" => s \notin Undelivered
      /\ m = "failed" => s = "failed"
      /\ m = "expired" => s = "expired"
<1> SUFFICES ASSUME NEW t \in Sends PROVE Agree(status'[t], message'[t])
  BY DEF MessageAgreesWithTask
<1>0. Agree(status[t], message[t])
  BY DEF MessageAgreesWithTask
<1>1. ASSUME NEW c \in Sends, SendInsert(c) PROVE Agree(status'[t], message'[t])
  BY <1>0, <1>1 DEF SendInsert, TypeOK
<1>2. ASSUME NEW c \in Sends, SendEnqueue(c) PROVE Agree(status'[t], message'[t])
  BY <1>0, <1>2 DEF SendEnqueue, TypeOK
<1>3. ASSUME NEW r \in Receivers, FetchInbox(r) PROVE Agree(status'[t], message'[t])
  BY <1>0, <1>3, FetchRow DEF Expirable, Exhausted, Undelivered, Open
<1>4. ASSUME NEW w \in Workers, AckCommit(w) PROVE Agree(status'[t], message'[t])
  <2> DEFINE u == handler[w].task
             read == handler[w].status
             next == StatusAfterAck(read)
  <2>1. /\ u \in Sends
        /\ read \in TaskStatus
        /\ status[u] # "none"
        /\ read \notin Undelivered => status[u] \notin Undelivered
        /\ next # read <=> read \in Undelivered
        /\ next \notin Undelivered
        /\ read \in Undelivered => next = "stored_by_remote_agent"
    BY <1>4, RequestTyped, AckedStatus DEF AckCommit, HandlerInv
  <2>2. /\ message' = [message EXCEPT ![u] = IF @ \in Open THEN "acked" ELSE @]
        /\ IF next # read THEN UpdateTask(u, next) ELSE status' = status
    BY <1>4 DEF AckCommit
  <2> HIDE DEF u, read, next
  <2>3. CASE t # u
    BY <1>0, <2>1, <2>2, <2>3 DEF UpdateTask, TypeOK
  <2>4. CASE t = u
    <3>1. message'[t] = IF message[t] \in Open THEN "acked" ELSE message[t]
      BY <2>1, <2>2, <2>4 DEF TypeOK
    <3>2. CASE read \notin Undelivered
      BY <1>0, <2>1, <2>2, <2>4, <3>1, <3>2 DEF Open, Undelivered
    <3>3. CASE read \in Undelivered /\ MayUpdate(u)
      <4>1. status'[t] = "stored_by_remote_agent"
        BY <2>1, <2>2, <2>4, <3>3 DEF UpdateTask, TypeOK
      <4>2. message[t] \notin {"failed", "expired"}
        BY <1>0, <2>4, <3>3 DEF MayUpdate, Terminal
      <4> QED
        BY <3>1, <4>1, <4>2 DEF Open, Undelivered
    <3>4. CASE read \in Undelivered /\ ~MayUpdate(u)
      <4>1. status'[t] = status[t] /\ status[t] \in Terminal
        BY <2>1, <2>2, <2>4, <3>4 DEF UpdateTask, MayUpdate
      <4> QED
        BY <1>0, <3>1, <4>1 DEF Terminal, Undelivered, Open
    <3> QED
      BY <3>2, <3>3, <3>4
  <2> QED
    BY <2>3, <2>4
<1>5. ASSUME NEW w \in Workers, RespondCommit(w) PROVE Agree(status'[t], message'[t])
  <2>1. /\ handler[w].task \in Sends
        /\ handler[w].status \in TaskStatus \ Undelivered
    BY <1>5, RequestTyped DEF RespondCommit, HandlerInv
  <2>2. message' = message /\ UpdateTask(handler[w].task, handler[w].status)
    BY <1>5 DEF RespondCommit
  <2> QED
    BY <1>0, <2>1, <2>2 DEF UpdateTask, MayUpdate, Terminal, Undelivered, TypeOK
<1>6. ASSUME SweepTasks PROVE Agree(status'[t], message'[t])
  BY <1>0, <1>6 DEF SweepTasks, Expirable, Undelivered
<1>7. ASSUME SweepMessages PROVE Agree(status'[t], message'[t])
  BY <1>0, <1>7 DEF SweepMessages, SweepInv, Undelivered
<1>8. ASSUME UNCHANGED <<status, message>> PROVE Agree(status'[t], message'[t])
  BY <1>0, <1>8
<1> QED
  BY <1>1, <1>2, <1>3, <1>4, <1>5, <1>6, <1>7, <1>8
     DEF Next, Send, Ack, Respond, Sweep, Tick, SendLookup, AckRead, RespondRead,
         TtlElapses, BackoffElapses, Crash, vars, taskVars

-----------------------------------------------------------------------------
(* Safety *)

\* The invariant is inductive.
LEMMA InvariantStep == QueueInv /\ [Next]_vars => QueueInv'
<1> SUFFICES ASSUME QueueInv, [Next]_vars PROVE QueueInv'
  OBVIOUS
<1>1. \A t \in Sends : Moves(t)
  BY StepMoves DEF QueueInv
<1> QED
  BY <1>1, TypeStep, RowsStep, HandlerStep, SweepStep, KeysStep, AgreementStep DEF QueueInv

\* The inductive invariant of the queue: types, rows, requests in flight, the
\* sweep, the idempotency keys and the agreement of the two tables.
THEOREM Invariance == Spec => []QueueInv
<1>1. Init => QueueInv
  BY QueueConstants
     DEF Init, QueueInv, TypeOK, RowsInv, HandlerInv, SweepInv, KeysInv,
         MessageAgreesWithTask, Idle
<1> QED
  BY <1>1, InvariantStep, PTL DEF Spec

\* The message row and the task row never disagree about what may still be
\* delivered, however acks, responses, fetches and sweeps interleave.
THEOREM Agreement == Spec => []MessageAgreesWithTask
BY Invariance, PTL DEF QueueInv

\* Two sends with one idempotency key are never answered with two tasks.
THEOREM Idempotence == Spec => []IdempotentSend
<1>1. QueueInv => IdempotentSend
  BY DEF QueueInv, KeysInv, IdempotentSend, TypeOK
<1> QED
  BY <1>1, Invariance, PTL

\* Completed, failed and expired are final, whatever a handler read earlier.
THEOREM Finality == Spec => TerminalIsFinal
<1>1. QueueInv /\ [Next]_vars =>
        [\A t \in Sends : status[t] \in Terminal => status'[t] = status[t]]_status
  BY StepMoves DEF QueueInv, Moves
<1> QED
  BY <1>1, Invariance, PTL DEF Spec, TerminalIsFinal

\* A recorded ack is never undone and its message is never delivered again.
THEOREM AckFinality == Spec => AckIsFinal
<1> DEFINE Kept(t) == message'[t] = "acked" /\ attempts'[t] = attempts[t]
<1>1. ASSUME QueueInv, [Next]_vars, NEW t \in Sends, message[t] = "acked" PROVE Kept(t)
  <2>0. status[t] \notin Undelivered \cup {"none"}
    BY <1>1 DEF QueueInv, RowsInv, MessageAgreesWithTask
  <2>1. ASSUME NEW c \in Sends, SendInsert(c) PROVE Kept(t)
    BY <1>1, <2>0, <2>1 DEF SendInsert, QueueInv, TypeOK, RowsInv
  <2>2. ASSUME NEW r \in Receivers, FetchInbox(r) PROVE Kept(t)
    BY <1>1, <2>0, <2>2, FetchRow
       DEF Expirable, Exhausted, Eligible, Undelivered, Open, QueueInv
  <2>3. ASSUME NEW w \in Workers, AckCommit(w) PROVE Kept(t)
    <3>1. handler[w].task \in Sends
      BY <1>1, <2>3, RequestTyped DEF AckCommit, QueueInv
    <3> QED
      BY <1>1, <2>3, <3>1 DEF AckCommit, QueueInv, TypeOK
  <2>4. ASSUME SweepMessages PROVE Kept(t)
    BY <1>1, <2>4 DEF SweepMessages, Open
  <2>5. ASSUME UNCHANGED <<message, attempts>> PROVE Kept(t)
    BY <1>1, <2>5
  <2> QED
    BY <1>1, <2>1, <2>2, <2>3, <2>4, <2>5
       DEF Next, Send, Ack, Respond, Sweep, Tick, SendLookup, SendEnqueue, AckRead,
           RespondRead, RespondCommit, SweepTasks, TtlElapses, BackoffElapses, Crash,
           vars, taskVars
<1>2. QueueInv /\ [Next]_vars =>
        [\A t \in Sends : message[t] = "acked" => Kept(t)]_<<message, attempts>>
  BY <1>1
<1> QED
  BY <1>2, Invariance, PTL DEF Spec, AckIsFinal

-----------------------------------------------------------------------------
(* One request at a time *)

\* Where a single request is handled at a time, what an ack has read is not overtaken:
\* a task it saw undelivered is so still, or is done for.
AloneInv ==
  \A w \in Workers :
    /\ handler[w].op = "ack" /\ handler[w].status \in Undelivered
         => status[handler[w].task] \in Undelivered \cup Terminal
    /\ handler[w].op = "respond" => handler[w].status \in Responses

LEMMA AloneStep ==
  ASSUME \A v, w \in Workers : v = w, QueueInv, AloneInv, [Next]_vars
  PROVE  AloneInv'
<1> DEFINE Good(w) ==
      /\ handler'[w].op = "ack" /\ handler'[w].status \in Undelivered
           => status'[handler'[w].task] \in Undelivered \cup Terminal
      /\ handler'[w].op = "respond" => handler'[w].status \in Responses
<1> SUFFICES ASSUME NEW w \in Workers PROVE Good(w)
  BY DEF AloneInv
<1> USE DEF QueueInv
<1>i. ASSUME handler'[w] = Idle PROVE Good(w)
  BY <1>i DEF Idle
<1>k. ASSUME handler' = handler,
             \A t \in Sends : status[t] \in Undelivered \cup Terminal =>
                              status'[t] \in Undelivered \cup Terminal
      PROVE  Good(w)
  BY <1>k, RequestTyped DEF AloneInv
<1>1. ASSUME NEW c \in Sends, SendInsert(c) \/ SendEnqueue(c) PROVE Good(w)
  BY <1>1, <1>k DEF SendInsert, SendEnqueue, TypeOK, Undelivered, Terminal
<1>2. ASSUME NEW r \in Receivers, FetchInbox(r) PROVE Good(w)
  <2>1. ASSUME NEW t \in Sends, status[t] \in Undelivered \cup Terminal
        PROVE  status'[t] \in Undelivered \cup Terminal
    BY <1>2, <2>1, FetchRow DEF Undelivered, Terminal
  <2>2. handler' = handler
    BY <1>2 DEF FetchInbox
  <2> QED
    BY <1>k, <2>1, <2>2
<1>3. ASSUME NEW v \in Workers, AckCommit(v) \/ RespondCommit(v) PROVE Good(w)
  BY <1>3, <1>i DEF AckCommit, RespondCommit, TypeOK
<1>4. ASSUME NEW v \in Workers, NEW t \in Sends, AckRead(v, t) PROVE Good(w)
  <2>1. handler'[w] = [op |-> "ack", task |-> t, status |-> status[t]]
    BY <1>4 DEF AckRead, TypeOK
  <2> QED
    BY <1>4, <2>1 DEF AckRead, taskVars
<1>5. ASSUME NEW v \in Workers, NEW t \in Sends, NEW s \in Responses, RespondRead(v, t, s)
      PROVE  Good(w)
  <2>1. handler'[w] = [op |-> "respond", task |-> t, status |-> s]
    BY <1>5 DEF RespondRead, TypeOK
  <2> QED
    BY <2>1
<1>6. CASE SweepTasks
  BY <1>6, <1>k DEF SweepTasks, Terminal
<1>7. CASE Crash
  BY <1>7, <1>i DEF Crash
<1>8. CASE UNCHANGED <<handler, status>>
  BY <1>8, <1>k
<1> QED
  BY <1>1, <1>2, <1>3, <1>4, <1>5, <1>6, <1>7, <1>8
     DEF Next, Send, Ack, Respond, Sweep, Tick, SendLookup, SweepMessages, TtlElapses,
         BackoffElapses, vars, taskVars

\* docs/relay-architecture.md:28 is true of a control plane that handles one ack or
\* response at a time: the read that ackRelay does outside its transaction, with
\* another request in between, is all that ever takes a task back to stored.
THEOREM AckKeepsProgressAlone ==
  ASSUME \A v, w \in Workers : v = w, "stored_by_remote_agent" \notin Responses
  PROVE  Spec => RepeatedAckKeepsProgress
<1> DEFINE Later(t) == /\ message[t] = "acked"
                       /\ status[t] \in {"waiting_approval", "approved", "transfer_started"}
<1>1. ASSUME QueueInv, AloneInv, [Next]_vars, NEW t \in Sends, Later(t)
      PROVE  status'[t] # "stored_by_remote_agent"
  <2> USE <1>1 DEF QueueInv
  <2>0. status[t] \notin Undelivered \cup Terminal \cup {"none"}
    BY DEF Undelivered, Terminal
  <2>1. ASSUME NEW c \in Sends, SendInsert(c) \/ SendEnqueue(c)
        PROVE  status'[t] # "stored_by_remote_agent"
    BY <2>1 DEF SendInsert, SendEnqueue, TypeOK
  <2>2. ASSUME NEW r \in Receivers, FetchInbox(r) PROVE status'[t] # "stored_by_remote_agent"
    BY <2>2, FetchRow
  <2>3. ASSUME NEW w \in Workers, AckCommit(w) PROVE status'[t] # "stored_by_remote_agent"
    <3>1. handler[w].task \in Sends
      BY <2>3, RequestTyped DEF AckCommit
    <3>2. CASE handler[w].status \in Undelivered
      <4>1. handler[w].task # t
        BY <2>0, <2>3, <3>2 DEF AckCommit, AloneInv
      <4>2. status'[t] = status[t]
        BY <2>3, <3>1, <4>1 DEF AckCommit, UpdateTask, TypeOK
      <4> QED
        BY <4>2
    <3>3. CASE handler[w].status \notin Undelivered
      BY <2>3, <3>3 DEF AckCommit, StatusAfterAck
    <3> QED
      BY <3>2, <3>3
  <2>4. ASSUME NEW w \in Workers, RespondCommit(w) PROVE status'[t] # "stored_by_remote_agent"
    <3>1. handler[w].task \in Sends /\ handler[w].status # "stored_by_remote_agent"
      BY <2>4, RequestTyped DEF RespondCommit, AloneInv
    <3> QED
      BY <2>4, <3>1 DEF RespondCommit, UpdateTask, TypeOK
  <2>5. CASE SweepTasks
    BY <2>5 DEF SweepTasks
  <2>6. CASE UNCHANGED status
    BY <2>6
  <2> QED
    BY <2>1, <2>2, <2>3, <2>4, <2>5, <2>6
       DEF Next, Send, Ack, Respond, Sweep, Tick, SendLookup, AckRead, RespondRead,
           SweepMessages, TtlElapses, BackoffElapses, Crash, vars, taskVars
<1>2. QueueInv /\ AloneInv /\ [Next]_vars =>
        [\A t \in Sends :
           /\ message[t] = "acked"
           /\ status[t] \in {"waiting_approval", "approved", "transfer_started"}
           => status'[t] # "stored_by_remote_agent"]_status
  BY <1>1
<1>3. Init => AloneInv
  BY DEF Init, AloneInv, Idle
<1>4. QueueInv /\ AloneInv /\ [Next]_vars => AloneInv'
  BY AloneStep
<1> QED
  BY <1>2, <1>3, <1>4, Invariance, PTL DEF Spec, RepeatedAckKeepsProgress

-----------------------------------------------------------------------------
(* Refinement *)

\* The phase that a sender can tell from each status.
LEMMA PhaseValues ==
  ASSUME NEW s
  PROVE  /\ PhaseOf(s) \in Lifecycle!Phases
         /\ PhaseOf(s) = "absent" <=> s = "none"
         /\ s \in Undelivered => PhaseOf(s) = "pending"
         /\ s \in Terminal => PhaseOf(s) = "done"
         /\ s \notin Undelivered \cup Terminal \cup {"none"} => PhaseOf(s) = "held"
<1> USE DEF PhaseOf, Undelivered, Terminal, Lifecycle!Phases
<1>1. CASE s = "none"
  BY <1>1
<1>2. CASE s \in Undelivered
  BY <1>2
<1>3. CASE s \in Terminal
  BY <1>3
<1>4. CASE s \notin Undelivered \cup Terminal \cup {"none"}
  BY <1>4
<1> QED
  BY <1>1, <1>2, <1>3, <1>4

\* The phases that may follow each phase.
LEMMA AfterValues ==
  /\ Lifecycle!After("absent") = {"absent", "pending"}
  /\ Lifecycle!After("pending") = {"pending", "held", "done"}
  /\ Lifecycle!After("held") = {"held", "done"}
  /\ Lifecycle!After("done") = {"done"}
BY DEF Lifecycle!After

\* The queue implements RelayLifecycle: every step of the tables, the handlers
\* and the sweep is a step, or no step, of the sender's view of its tasks.
THEOREM Refinement == Spec => ImplementsLifecycle
<1>1. Init => Lifecycle!Init
  BY PhaseValues DEF Init, Lifecycle!Init, phase
<1>2. QueueInv /\ QueueInv' /\ [Next]_vars => [Lifecycle!Next]_phase
  <2> SUFFICES ASSUME QueueInv, QueueInv', [Next]_vars PROVE Lifecycle!Next
    OBVIOUS
  <2>1. ASSUME NEW t \in Sends PROVE Moves(t)
    BY StepMoves DEF QueueInv
  <2>2. phase' = [t \in Sends |-> PhaseOf(status'[t])]
    BY DEF phase
  <2>3. phase' \in [Sends -> Lifecycle!Phases]
    BY <2>2, PhaseValues
  <2>4. ASSUME NEW t \in Sends PROVE phase'[t] \in Lifecycle!After(phase[t])
    <3> DEFINE old == status[t]
               new == status'[t]
    <3>0. phase[t] = PhaseOf(old) /\ phase'[t] = PhaseOf(new)
      BY <2>2 DEF phase
    <3>1. CASE old = "none"
      BY <2>1, <3>0, <3>1, PhaseValues, AfterValues DEF Moves, Undelivered
    <3>2. CASE old \in Undelivered
      BY <2>1, <3>0, <3>2, PhaseValues, AfterValues DEF Moves, Undelivered, Lifecycle!Phases
    <3>3. CASE old \in Terminal
      BY <2>1, <3>0, <3>3, PhaseValues, AfterValues DEF Moves
    <3>4. CASE old \notin Undelivered \cup Terminal \cup {"none"}
      <4>1. new # "none" /\ new \notin Undelivered
        BY <2>1, <3>4 DEF Moves
      <4>2. PhaseOf(new) \in {"held", "done"}
        BY <4>1, PhaseValues
      <4> QED
        BY <3>0, <3>4, <4>2, PhaseValues, AfterValues
    <3> QED
      BY <3>1, <3>2, <3>3, <3>4
  <2>5. \A s, t \in Sends :
          /\ KeyOf[s] = KeyOf[t] /\ KeyOf[s] \in Keys
          /\ phase'[s] # "absent" /\ phase'[t] # "absent"
          => s = t
    BY <2>2, PhaseValues DEF QueueInv, KeysInv
  <2> QED
    BY <2>3, <2>4, <2>5 DEF Lifecycle!Next, Lifecycle!Unique
<1> QED
  BY <1>1, <1>2, Invariance, PTL DEF Spec, ImplementsLifecycle, Lifecycle!Spec
=============================================================================
