--------------------------- MODULE RelayDelivery ----------------------------
(***************************************************************************)
(* The receiving agent on top of the relay queue:                          *)
(*                                                                         *)
(*   src/runtime/InboxPoller.ts           poll, dispatch, ack              *)
(*   src/runtime/RemoteTaskDispatcher.ts  write locally, report, record    *)
(*                                                                         *)
(* setInterval starts a poll whether or not the last one has ended, so     *)
(* several runs of pollOnce are under way in one process.  A run is cut    *)
(* into actions at its awaits.  A call to the control plane is the read    *)
(* and the transaction of the RelayQueue handler that serves it, and it    *)
(* may be lost before, or time out after, the control plane acts on it.    *)
(***************************************************************************)
EXTENDS RelayQueue

CONSTANTS
  Polls,       \* runs of pollOnce that may overlap
  Owner,       \* Owner[p]: the agent instance run p polls for
  ChatTasks,   \* tasks of type message.send; the others are file.request.status
  NoWorker     \* "no call under way"

ASSUME DeliveryConstants ==
  /\ Owner \in [Polls -> Receivers]
  /\ ChatTasks \subseteq Sends
  /\ NoWorker \notin Workers
  /\ {"stored_by_remote_agent", "failed"} \subseteq Responses

VARIABLES
  ledger,    \* local_relay_dispatches.status of the task, "none" without a row
  timeline,  \* how often the task was appended to the chat timeline
  poll       \* where each run of pollOnce is

agentVars == <<ledger, timeline, poll>>
deliveryVars == <<vars, agentVars>>

Ended == [at |-> "ended", task |-> NoTask, todo |-> {}, call |-> NoWorker]

\* The awaits of a run, by what it is about to do.
Places == {"ended", "next", "write", "receipt", "record", "report", "giveup", "ack"}

DeliveryTypeOK ==
  /\ ledger \in [Sends -> {"none", "created", "failed"}]
  /\ timeline \in [Sends -> Nat]
  /\ poll \in [Polls -> [at : Places, task : Sends \cup {NoTask},
                         todo : SUBSET Sends, call : Workers \cup {NoWorker}]]
  /\ \A p \in Polls :
       /\ poll[p].at = "ended" => poll[p] = Ended
       /\ poll[p].call # NoWorker => poll[p].at \in {"receipt", "report", "ack"}

DeliveryInit ==
  /\ Init
  /\ ledger = [t \in Sends |-> "none"]
  /\ timeline = [t \in Sends |-> 0]
  /\ poll = [p \in Polls |-> Ended]

\* Run p goes on to its next place, with no call under way.
Goto_keeps_call(p, place) == poll' = [poll EXCEPT ![p].at = place]
Goto(p, place) == poll' = [poll EXCEPT ![p].at = place, ![p].call = NoWorker]

\* An exception leaves pollOnce: the rest of the batch is not dispatched.
Abort(p) == poll' = [poll EXCEPT ![p] = Ended]

At(p, place) == poll[p].at = place /\ poll[p].call = NoWorker

-----------------------------------------------------------------------------
(* pollOnce *)

\* The inbox is fetched; the answer lists what this fetch handed out, unless
\* it is lost on the way.
StartPoll(p) ==
  /\ poll[p] = Ended
  /\ FetchInbox(Owner[p])
  /\ \E items \in {{}, {t \in Sends : attempts'[t] > attempts[t]}} :
       poll' = [poll EXCEPT ![p].at = IF items = {} THEN "ended" ELSE "next",
                            ![p].todo = items]
  /\ UNCHANGED <<ledger, timeline>>

\* A task with a ledger row, whatever the row says, is a duplicate and is acked.
AfterLookup(t) == IF ledger[t] = "none" THEN "write" ELSE "ack"

\* The next item of the batch; created_at is not modelled, so any of them.
Take(p) ==
  /\ At(p, "next")
  /\ \/ /\ poll[p].todo = {}
        /\ Abort(p)
     \/ \E t \in poll[p].todo :
          poll' = [poll EXCEPT ![p].at = AfterLookup(t), ![p].task = t,
                               ![p].todo = @ \ {t}]
  /\ UNCHANGED <<vars, ledger, timeline>>

-----------------------------------------------------------------------------
(* dispatch, after the await that resolves the conversation *)

\* The conversation cannot be resolved or the append throws.
WriteFails_still_reports_stored(p) ==
  /\ At(p, "write")
  /\ Goto(p, IF poll[p].task \in ChatTasks THEN "receipt" ELSE "giveup")
  /\ UNCHANGED <<vars, ledger, timeline>>
WriteFails(p) ==
  /\ At(p, "write")
  /\ Goto(p, IF poll[p].task \in ChatTasks THEN "report" ELSE "giveup")
  /\ UNCHANGED <<vars, ledger, timeline>>

\* handleMessageSend appends, then awaits its delivery receipt;
\* handleFileRequestStatus appends and records without an await in between.
Write(p) ==
  /\ At(p, "write")
  /\ timeline' = [timeline EXCEPT ![poll[p].task] = @ + 1]
  /\ Goto(p, IF poll[p].task \in ChatTasks THEN "receipt" ELSE "record")
  /\ UNCHANGED <<vars, ledger>>

\* UNIQUE (profile_id, relay_task_id): the INSERT of a second row throws.
Recordable_overwrites(t) == TRUE
Recordable(t) == ledger[t] = "none"

Record(p) ==
  LET t == poll[p].task
  IN /\ At(p, "record")
     /\ IF Recordable(t)
        THEN /\ ledger' = [ledger EXCEPT ![t] = "created"]
             /\ Goto(p, "ack")
        ELSE /\ UNCHANGED ledger
             /\ Goto(p, IF t \in ChatTasks THEN "report" ELSE "giveup")
     /\ UNCHANGED <<vars, timeline>>

\* The catch block's record(..., "failed") may itself throw, out of dispatch.
GiveUp(p) ==
  LET t == poll[p].task
  IN /\ At(p, "giveup")
     /\ IF Recordable(t)
        THEN /\ ledger' = [ledger EXCEPT ![t] = "failed"]
             /\ Goto(p, "next")
        ELSE /\ UNCHANGED ledger
             /\ Abort(p)
     /\ UNCHANGED <<vars, timeline>>

-----------------------------------------------------------------------------
(* Calls to the control plane *)

\* The response each reporting place sends.
Report == [receipt |-> "stored_by_remote_agent", report |-> "failed"]

\* Where the run goes after it.
AfterReport_acks_unrecorded == [receipt |-> "ack", report |-> "giveup"]
AfterReport == [receipt |-> "record", report |-> "giveup"]

Free(w) == handler[w] = Idle /\ \A q \in Polls : poll[q].call # w

SendReport(p, w) ==
  /\ poll[p].at \in DOMAIN Report
  /\ RespondRead(w, poll[p].task, Report[poll[p].at])

\* The call reaches the control plane, which reads the row.
Call(p) ==
  /\ poll[p].call = NoWorker
  /\ \E w \in Workers :
       /\ Free(w)
       /\ \/ poll[p].at = "ack" /\ AckRead(w, poll[p].task)
          \/ SendReport(p, w)
       /\ poll' = [poll EXCEPT ![p].call = w]
  /\ UNCHANGED <<ledger, timeline>>

\* The transaction commits and its answer arrives.
Answered(p) ==
  LET w == poll[p].call
  IN /\ w \in Workers
     /\ \/ AckCommit(w) /\ Goto(p, "next")
        \/ RespondCommit(w) /\ Goto(p, AfterReport[poll[p].at])
     /\ UNCHANGED <<ledger, timeline>>

NoAnswer_writes_again(p) ==
  /\ \/ poll[p].at = "receipt" /\ Goto(p, "write")
     \/ poll[p].at = "report" /\ Goto(p, "giveup")
     \/ poll[p].at = "ack" /\ Abort(p)
  /\ UNCHANGED <<vars, ledger, timeline>>

\* The call is refused, lost, or not answered in time; the control plane may
\* still be serving it.  A report is best effort, an ack is not.
NoAnswer(p) ==
  /\ \/ poll[p].at \in DOMAIN Report /\ Goto(p, AfterReport[poll[p].at])
     \/ poll[p].at = "ack" /\ Abort(p)
  /\ UNCHANGED <<vars, ledger, timeline>>

\* The control plane finishes a call nobody waits for any more.
LateCommit(w) ==
  /\ \A p \in Polls : poll[p].call # w
  /\ AckCommit(w) \/ RespondCommit(w)
  /\ UNCHANGED agentVars

-----------------------------------------------------------------------------

\* The local agent stops: its runs are lost, its SQLite tables are not.
AgentCrash(r) ==
  /\ poll' = [p \in Polls |-> IF Owner[p] = r THEN Ended ELSE poll[p]]
  /\ UNCHANGED <<vars, ledger, timeline>>

AgentStep(p) ==
  \/ StartPoll(p) \/ Take(p)
  \/ WriteFails(p) \/ Write(p) \/ Record(p) \/ GiveUp(p)
  \/ Call(p) \/ Answered(p) \/ NoAnswer(p)

ServerStep ==
  /\ (\E c \in Sends : Send(c)) \/ Sweep \/ Tick \/ Crash
  /\ UNCHANGED agentVars

DeliveryNext ==
  \/ \E p \in Polls : AgentStep(p)
  \/ \E w \in Workers : LateCommit(w)
  \/ \E r \in Receivers : AgentCrash(r)
  \/ ServerStep

DeliverySpec == DeliveryInit /\ [][DeliveryNext]_deliveryVars

-----------------------------------------------------------------------------
(* Safety *)

\* Only the receiver's ledger row lets a run ack: whatever polls overlap, calls
\* time out or either side crashes, an acked message has been recorded.
AckedIsRecorded ==
  \A t \in Sends : message[t] = "acked" => ledger[t] # "none"

\* A sender never sees 'stored' for a message that neither reached the
\* receiver's timeline nor is on record as failed there.
StoredIsAccountedFor ==
  \A t \in Sends :
    status[t] = "stored_by_remote_agent" => timeline[t] > 0 \/ ledger[t] = "failed"

\* A crash or an overlapping poll may show a message twice, but never more
\* often than the relay handed it out.
AtMostOncePerDelivery == \A t \in Sends : timeline[t] <= attempts[t]

\* The ledger decides once: no overlapping run turns a recorded outcome over.
LedgerIsFinal ==
  [][\A t \in Sends : ledger[t] # "none" => ledger'[t] = ledger[t]]_ledger

\* README.md:130: message.send items "are written into the chat timeline before
\* ack, failed dispatches are left unacked for retry".
WrittenBeforeAck ==
  \A t \in Sends : message[t] = "acked" => timeline[t] > 0
=============================================================================
