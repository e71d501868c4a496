----------------------------- MODULE RelayQueue -----------------------------
(***************************************************************************)
(* The control plane's A2A relay: the tables relay_tasks and               *)
(* relay_messages and every code path that writes them.                    *)
(*                                                                         *)
(*   apps/control-plane/src/relay/A2ARelayService.ts   send, ack, respond  *)
(*   apps/control-plane/src/relay/RelayQueue.ts        enqueue, inbox,     *)
(*                                                     expiry, dead letter *)
(*                                                                         *)
(* A database transaction, or a statement outside one, is one action. A    *)
(* handler that reads a row first and writes it in a later transaction is  *)
(* two actions with its snapshot kept in between, because other requests   *)
(* run there. A relay task is named by the send request that inserts it.   *)
(***************************************************************************)
EXTENDS Naturals, FiniteSets

CONSTANTS
  Sends,        \* send requests, client retries included
  Receivers,    \* receiving agent instances
  To,           \* To[c]: the receiver request c is addressed to
  Keys,         \* (org, sender, idempotency_key) triples
  KeyOf,        \* KeyOf[c]: the key of request c, NoKey if it carries none
  NoKey,
  NoTask,       \* "not answered yet"
  Workers,      \* ack and respond requests the server handles at one time
  MaxAttempts,  \* RELAY_MAX_DELIVERY_ATTEMPTS
  MaxBatch,     \* the LIMIT of an inbox fetch
  Responses     \* task statuses the receivers' responses map to

TaskStatus ==
  {"accepted", "queued", "delivered_to_remote_agent", "stored_by_remote_agent",
   "waiting_approval", "approved", "transfer_started",
   "completed", "failed", "expired"}

\* The statuses the three expiry statements cover: not yet held by the receiver.
Undelivered == {"accepted", "queued", "delivered_to_remote_agent"}

\* The statuses a guarded UPDATE refuses to leave.
Terminal == {"completed", "failed", "expired"}

MessageStatus == {"queued", "delivered", "acked", "failed", "expired"}

\* A message an inbox fetch may still hand out.
Open == {"queued", "delivered"}

ASSUME QueueConstants ==
  /\ To \in [Sends -> Receivers]
  /\ KeyOf \in [Sends -> Keys \cup {NoKey}]
  /\ NoKey \notin Keys
  /\ NoTask \notin Sends
  /\ MaxAttempts \in Nat \ {0}
  /\ MaxBatch \in Nat \ {0}

\* No agent of this repository answers a task with a status from before it
\* was stored, although statusFromResponse would let one through.
ASSUME ForwardResponses == Responses \subseteq TaskStatus \ Undelivered

VARIABLES
  status,    \* relay_tasks.status, "none" before the row exists
  message,   \* relay_messages.status of the task's request message
  attempts,  \* relay_tasks.attempt_count
  backoff,   \* next_retry_at lies in the future
  overdue,   \* expires_at has passed
  answered,  \* a relay_messages row with status 'responded' exists
  send,      \* where each send request is in sendRelay
  told,      \* the relay_task_id a send request was answered with
  handler,   \* the ack or respond request each worker is handling
  sweep      \* tasks expired by the first statement of a running markExpired

taskVars == <<status, message, attempts, backoff, overdue, answered>>
vars == <<taskVars, send, told, handler, sweep>>

Idle == [op |-> "idle"]

\* An ack keeps the status it read, a respond the status it is going to set.
Request == [op : {"ack", "respond"}, task : Sends, status : TaskStatus]

TypeOK ==
  /\ status \in [Sends -> TaskStatus \cup {"none"}]
  /\ message \in [Sends -> MessageStatus \cup {"none"}]
  /\ attempts \in [Sends -> 0 .. MaxAttempts]
  /\ backoff \in [Sends -> BOOLEAN]
  /\ overdue \in [Sends -> BOOLEAN]
  /\ answered \in [Sends -> BOOLEAN]
  /\ send \in [Sends -> {"new", "unknown", "inserted", "answered", "refused", "lost"}]
  /\ told \in [Sends -> Sends \cup {NoTask}]
  /\ handler \in [Workers -> {Idle} \cup Request]
  /\ sweep \in SUBSET Sends

Init ==
  /\ status = [c \in Sends |-> "none"]
  /\ message = [c \in Sends |-> "none"]
  /\ attempts = [c \in Sends |-> 0]
  /\ backoff = [c \in Sends |-> FALSE]
  /\ overdue = [c \in Sends |-> FALSE]
  /\ answered = [c \in Sends |-> FALSE]
  /\ send = [c \in Sends |-> "new"]
  /\ told = [c \in Sends |-> NoTask]
  /\ handler = [w \in Workers |-> Idle]
  /\ sweep = {}

-----------------------------------------------------------------------------
(* sendRelay *)

\* The tasks whose message row carries the idempotency key of request c.
SameKey(c) == {d \in Sends : status[d] # "none" /\ KeyOf[d] \in Keys /\ KeyOf[d] = KeyOf[c]}

\* The idempotency lookup runs before, and outside, the insert transaction.
\* A hit is answered from the existing row; nothing is enqueued again.
SendLookup(c) ==
  /\ send[c] = "new"
  /\ \/ /\ SameKey(c) = {}
        /\ send' = [send EXCEPT ![c] = "unknown"]
        /\ UNCHANGED told
     \/ \E d \in SameKey(c) :
          /\ send' = [send EXCEPT ![c] = "answered"]
          /\ told' = [told EXCEPT ![c] = d]
  /\ UNCHANGED <<taskVars, handler, sweep>>

\* UNIQUE (org_id, from_agent_instance_id, idempotency_key)
KeyIsFree_missing_index(c) == TRUE
KeyIsFree(c) == SameKey(c) = {}

\* The transaction that inserts the task 'accepted' and its message 'queued'.
\* A key taken since the lookup violates the unique index: all is rolled back
\* and the request ends in an error.
SendInsert(c) ==
  /\ send[c] = "unknown"
  /\ IF KeyIsFree(c)
     THEN /\ status' = [status EXCEPT ![c] = "accepted"]
          /\ message' = [message EXCEPT ![c] = "queued"]
          /\ send' = [send EXCEPT ![c] = "inserted"]
     ELSE /\ send' = [send EXCEPT ![c] = "refused"]
          /\ UNCHANGED <<status, message>>
  /\ UNCHANGED <<attempts, backoff, overdue, answered, told, handler, sweep>>

\* enqueue, in statements of its own after the commit: 'accepted' -> 'queued'.
SendEnqueue(c) ==
  /\ send[c] = "inserted"
  /\ status' = [status EXCEPT ![c] = IF @ = "accepted" THEN "queued" ELSE @]
  /\ send' = [send EXCEPT ![c] = "answered"]
  /\ told' = [told EXCEPT ![c] = c]
  /\ UNCHANGED <<message, attempts, backoff, overdue, answered, handler, sweep>>

-----------------------------------------------------------------------------
(* fetchInbox: one transaction of three steps *)

\* markExpiredForReceiver and markExpired select the same tasks.
Expirable_forgets_accepted(t) ==
  status[t] \in {"queued", "delivered_to_remote_agent"} /\ overdue[t]
Expirable(t) == status[t] \in Undelivered /\ overdue[t]

\* attempt_count >= max_attempts
AtLimit_off_by_one(t) == attempts[t] > MaxAttempts
AtLimit(t) == attempts[t] >= MaxAttempts

\* markExhaustedAttempts, after the expiry
Exhausted(t) ==
  /\ status[t] \in {"queued", "delivered_to_remote_agent"}
  /\ ~Expirable(t)
  /\ AtLimit(t)

\* The claiming SELECT, after expiry and dead-lettering.
Eligible_ignores_message(t) ==
  /\ status[t] \in {"queued", "delivered_to_remote_agent", "stored_by_remote_agent"}
  /\ ~overdue[t]
  /\ ~backoff[t]
  /\ ~AtLimit(t)
Eligible(t) ==
  /\ message[t] \in Open
  /\ status[t] \in {"queued", "delivered_to_remote_agent"}
  /\ ~overdue[t]
  /\ ~backoff[t]
  /\ ~AtLimit(t)

\* The message clean-up of markExpiredForReceiver looks at every expired task
\* of the receiver, not only at the ones this fetch expired.
ExpiresMessage_only_new(t) == message[t] \in Open /\ Expirable(t)
ExpiresMessage(t) ==
  message[t] \in Open /\ (Expirable(t) \/ status[t] = "expired")

\* Receiver r polls. ORDER BY, LIMIT and SKIP LOCKED pick at most MaxBatch of
\* the eligible tasks; created_at is not modelled, so any such batch.
FetchInbox(r) ==
  LET mine == {t \in Sends : To[t] = r}
      expired == {t \in mine : Expirable(t)}
      exhausted == {t \in mine : Exhausted(t)}
  IN \E batch \in SUBSET {t \in mine : Eligible(t)} :
       /\ Cardinality(batch) <= MaxBatch
       /\ status' = [t \in Sends |->
            CASE t \in expired   -> "expired"
              [] t \in exhausted -> "failed"
              [] t \in batch     -> "delivered_to_remote_agent"
              [] OTHER           -> status[t]]
       /\ message' = [t \in Sends |->
            CASE t \in mine /\ ExpiresMessage(t)          -> "expired"
              [] t \in exhausted /\ message[t] \in Open   -> "failed"
              [] t \in batch                              -> "delivered"
              [] OTHER                                    -> message[t]]
       /\ attempts' = [t \in Sends |-> IF t \in batch THEN attempts[t] + 1 ELSE attempts[t]]
       /\ backoff' = [t \in Sends |-> t \in batch \/ backoff[t]]
       /\ UNCHANGED <<overdue, answered, send, told, handler, sweep>>

-----------------------------------------------------------------------------
(* ackRelay and respondRelay: a read, then a transaction *)

\* The receiver knows a task's id once it has been handed out.
AckRead(w, t) ==
  /\ handler[w] = Idle
  /\ attempts[t] > 0
  /\ status[t] \notin {"none", "failed", "expired"}
  /\ handler' = [handler EXCEPT ![w] = [op |-> "ack", task |-> t, status |-> status[t]]]
  /\ UNCHANGED <<taskVars, send, told, sweep>>

StatusAfterAck_forgets_delivered(s) ==
  IF s \in {"accepted", "queued"} THEN "stored_by_remote_agent" ELSE s
StatusAfterAck(s) == IF s \in Undelivered THEN "stored_by_remote_agent" ELSE s

\* WHERE status NOT IN ('failed', 'expired', 'completed')
MayUpdate_reopens_failed(t) == status[t] \notin {"completed", "expired"}
MayUpdate(t) == status[t] \notin Terminal

\* Sets task t to status s, unless the row has become terminal.
UpdateTask(t, s) ==
  IF MayUpdate(t)
  THEN /\ status' = [status EXCEPT ![t] = s]
       /\ backoff' = [backoff EXCEPT ![t] = FALSE]
  ELSE UNCHANGED <<status, backoff>>

\* nextStatus was computed from the status that was read, not from the row.
AckCommit(w) ==
  LET t == handler[w].task
      next == StatusAfterAck(handler[w].status)
  IN /\ handler[w].op = "ack"
     /\ message' = [message EXCEPT ![t] = IF @ \in Open THEN "acked" ELSE @]
     /\ IF next # handler[w].status
        THEN UpdateTask(t, next)
        ELSE UNCHANGED <<status, backoff>>
     /\ handler' = [handler EXCEPT ![w] = Idle]
     /\ UNCHANGED <<attempts, overdue, answered, send, told, sweep>>

\* A terminal task is answered at once, with no effect.
RespondRead(w, t, s) ==
  /\ handler[w] = Idle
  /\ attempts[t] > 0
  /\ status[t] \notin Terminal \cup {"none"}
  /\ handler' = [handler EXCEPT ![w] = [op |-> "respond", task |-> t, status |-> s]]
  /\ UNCHANGED <<taskVars, send, told, sweep>>

RespondCommit(w) ==
  LET t == handler[w].task
  IN /\ handler[w].op = "respond"
     /\ answered' = [answered EXCEPT ![t] = TRUE]
     /\ UpdateTask(t, handler[w].status)
     /\ handler' = [handler EXCEPT ![w] = Idle]
     /\ UNCHANGED <<message, attempts, overdue, send, told, sweep>>

-----------------------------------------------------------------------------
(* markExpired, run every 60 seconds: two statements, no transaction *)

SweepTasks ==
  LET expired == {t \in Sends : Expirable(t)}
  IN /\ sweep = {}
     /\ expired # {}
     /\ status' = [t \in Sends |-> IF t \in expired THEN "expired" ELSE status[t]]
     /\ sweep' = expired
     /\ UNCHANGED <<message, attempts, backoff, overdue, answered, send, told, handler>>

\* Only messages of tasks expired with this run's timestamp.
SweepMessages ==
  /\ sweep # {}
  /\ message' = [t \in Sends |->
       IF t \in sweep /\ message[t] \in Open THEN "expired" ELSE message[t]]
  /\ sweep' = {}
  /\ UNCHANGED <<status, attempts, backoff, overdue, answered, send, told, handler>>

-----------------------------------------------------------------------------
(* The clock, and a control plane that stops *)

TtlElapses(t) ==
  /\ status[t] # "none"
  /\ ~overdue[t]
  /\ overdue' = [overdue EXCEPT ![t] = TRUE]
  /\ UNCHANGED <<status, message, attempts, backoff, answered, send, told, handler, sweep>>

BackoffElapses(t) ==
  /\ backoff[t]
  /\ backoff' = [backoff EXCEPT ![t] = FALSE]
  /\ UNCHANGED <<status, message, attempts, overdue, answered, send, told, handler, sweep>>

\* Every request and sweep between two of its statements is lost; the tables
\* are not.
Crash ==
  /\ handler' = [w \in Workers |-> Idle]
  /\ sweep' = {}
  /\ send' = [c \in Sends |-> IF send[c] \in {"unknown", "inserted"} THEN "lost" ELSE send[c]]
  /\ UNCHANGED <<taskVars, told>>

-----------------------------------------------------------------------------

Send(c) == SendLookup(c) \/ SendInsert(c) \/ SendEnqueue(c)

Ack(w) == AckCommit(w) \/ \E t \in Sends : AckRead(w, t)

Respond(w) == RespondCommit(w) \/ \E t \in Sends, s \in Responses : RespondRead(w, t, s)

Sweep == SweepTasks \/ SweepMessages

Tick == \E t \in Sends : TtlElapses(t) \/ BackoffElapses(t)

Next ==
  \/ \E c \in Sends : Send(c)
  \/ \E r \in Receivers : FetchInbox(r)
  \/ \E w \in Workers : Ack(w) \/ Respond(w)
  \/ Sweep
  \/ Tick
  \/ Crash

Spec == Init /\ [][Next]_vars

\* Time passes and the timer of main.ts keeps firing; nobody need ever poll.
SweepFairness ==
  /\ \A t \in Sends : WF_vars(TtlElapses(t))
  /\ WF_vars(SweepTasks)
  /\ WF_vars(SweepMessages)

\* Receivers that stay online poll for ever (InboxPoller's interval).
PollFairness == \A r \in Receivers : WF_vars(FetchInbox(r))

SweepSpec == Spec /\ SweepFairness

-----------------------------------------------------------------------------
(* Safety *)

\* The two tables agree although no foreign key or single statement ties them:
\* a task still on its way has a message the inbox query can hand out, an acked
\* message never belongs to a task that can be delivered again, and a message
\* is dead only if its task died the same way.
MessageAgreesWithTask ==
  \A t \in Sends :
    /\ status[t] \in {"accepted", "queued"} => message[t] = "queued"
    /\ status[t] = "delivered_to_remote_agent" => message[t] = "delivered"
    /\ message[t] = "acked" => status[t] \notin Undelivered
    /\ message[t] = "failed" => status[t] = "failed"
    /\ message[t] = "expired" => status[t] = "expired"

\* Requests with one idempotency key are all answered with one task, even when
\* they race between the lookup and the insert: the index decides, not the read.
IdempotentSend ==
  \A c, d \in Sends :
    /\ KeyOf[c] = KeyOf[d] /\ KeyOf[c] \in Keys
    /\ told[c] # NoTask /\ told[d] # NoTask
    => told[c] = told[d]

\* A completed, failed or expired task never changes again, whatever an ack or
\* a response read before the task became terminal.
TerminalIsFinal ==
  [][\A t \in Sends : status[t] \in Terminal => status'[t] = status[t]]_status

\* Once an ack has been recorded the message is never handed out again and no
\* later sweep, fetch or response takes the record back.
AckIsFinal ==
  [][\A t \in Sends : message[t] = "acked" =>
       message'[t] = "acked" /\ attempts'[t] = attempts[t]]_<<message, attempts>>

\* docs/relay-architecture.md:28: a repeated ack "does not regress terminal or
\* advanced states". Once a task has been acked, no step takes it back to
\* stored from a later stage (checked with receivers that never answer 'stored').
RepeatedAckKeepsProgress ==
  [][\A t \in Sends :
       /\ message[t] = "acked"
       /\ status[t] \in {"waiting_approval", "approved", "transfer_started"}
       => status'[t] # "stored_by_remote_agent"]_status

-----------------------------------------------------------------------------
(* The abstract specification *)

PhaseOf(s) ==
  CASE s = "none"        -> "absent"
    [] s \in Undelivered -> "pending"
    [] s \in Terminal    -> "done"
    [] OTHER             -> "held"

phase == [t \in Sends |-> PhaseOf(status[t])]

Lifecycle == INSTANCE RelayLifecycle WITH Tasks <- Sends

\* The two tables and their handlers implement the sender's view.
ImplementsLifecycle == Lifecycle!Spec

-----------------------------------------------------------------------------
(* Liveness *)

\* No accepted task stays on its way for ever, not even one whose server died
\* between the insert and the enqueue, or whose receiver never polls.
EveryTaskSettles ==
  \A t \in Sends : status[t] \in Undelivered ~> status[t] \notin Undelivered

\* Where receivers keep polling, a message whose task expired does not stay open:
\* a sweep that died between its two statements leaves it to the next fetch.
ExpiredMessageCloses ==
  PollFairness => \A t \in Sends :
    (status[t] = "expired" /\ message[t] \in Open) ~> message[t] \notin Open
=============================================================================
