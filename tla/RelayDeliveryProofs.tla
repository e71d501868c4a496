------------------------ MODULE RelayDeliveryProofs -------------------------
(***************************************************************************)
(* Theorems about RelayDelivery, for any number of tasks, agents,          *)
(* overlapping polls, server workers and delivery attempts.                *)
(***************************************************************************)
EXTENDS RelayDelivery, RelayQueueProofs, FiniteSetTheorems

\* What a run of pollOnce has done by the time it gets to a place.
PollInv ==
  \A p \in Polls :
    /\ poll[p].at \notin {"ended", "next"} => poll[p].task \in Sends
    /\ poll[p].at \in {"receipt", "record"} => timeline[poll[p].task] > 0
    /\ poll[p].at = "ack" => ledger[poll[p].task] # "none"

\* The call a run waits for is its own and of the kind its place makes.
CallInv ==
  /\ \A p, q \in Polls :
       poll[p].call = poll[q].call /\ poll[p].call # NoWorker => p = q
  /\ \A p \in Polls, w \in Workers :
       poll[p].call = w =>
         /\ handler[w].op = "ack" => poll[p].at = "ack"
         /\ handler[w].op = "respond" => poll[p].at \in {"receipt", "report"}

\* What a request said was true when it was sent, and so it is whenever the
\* control plane gets round to it.
HandledInv ==
  \A w \in Workers :
    /\ handler[w].op = "ack" => ledger[handler[w].task] # "none"
    /\ handler[w].op = "respond" /\ handler[w].status = "stored_by_remote_agent"
         => timeline[handler[w].task] > 0

\* A dispatch recorded as created has been written.
LedgerInv == \A t \in Sends : ledger[t] = "created" => timeline[t] > 0

AgentInv ==
  /\ DeliveryTypeOK
  /\ PollInv
  /\ CallInv
  /\ HandledInv
  /\ LedgerInv
  /\ AckedIsRecorded
  /\ StoredIsAccountedFor

-----------------------------------------------------------------------------
(* The agent uses the relay as RelayQueue allows *)

\* Every step of the agent and the control plane is one of the queue's, or
\* leaves the queue alone.
LEMMA QueueStep ==
  DeliveryTypeOK /\ PollInv /\ [DeliveryNext]_deliveryVars => [Next]_vars
<1> SUFFICES ASSUME DeliveryTypeOK, PollInv, [DeliveryNext]_deliveryVars PROVE [Next]_vars
  OBVIOUS
<1>1. ASSUME NEW p \in Polls, StartPoll(p) PROVE Next
  BY <1>1, DeliveryConstants DEF StartPoll, Next
<1>2. ASSUME NEW p \in Polls, Call(p) PROVE Next
  <2>1. PICK w \in Workers :
          \/ poll[p].at = "ack" /\ AckRead(w, poll[p].task)
          \/ SendReport(p, w)
    BY <1>2 DEF Call
  <2>2. CASE poll[p].at = "ack" /\ AckRead(w, poll[p].task)
    BY <2>2 DEF Next, Ack, PollInv
  <2>3. CASE SendReport(p, w)
    <3>1. poll[p].at \in {"receipt", "report"} /\ poll[p].task \in Sends
      BY <2>3 DEF SendReport, Report, PollInv
    <3>2. Report[poll[p].at] \in Responses
      BY <3>1, DeliveryConstants DEF Report
    <3> QED
      BY <2>3, <3>1, <3>2 DEF SendReport, Next, Respond
  <2> QED
    BY <2>1, <2>2, <2>3
<1>3. ASSUME NEW p \in Polls, Answered(p) PROVE Next
  BY <1>3 DEF Answered, Next, Ack, Respond
<1>4. ASSUME NEW w \in Workers, LateCommit(w) PROVE Next
  BY <1>4 DEF LateCommit, Next, Ack, Respond
<1>5. ASSUME ServerStep PROVE Next
  BY <1>5 DEF ServerStep, Next
<1> QED
  BY <1>1, <1>2, <1>3, <1>4, <1>5
  DEF DeliveryNext, AgentStep, Take, WriteFails, Write, Record, GiveUp, NoAnswer,
      AgentCrash, deliveryVars

\* A message is acked by the commit of an ack and in no other way.
LEMMA AckedByAck ==
  ASSUME TypeOK, [Next]_vars, NEW t \in Sends, message'[t] = "acked", message[t] # "acked"
  PROVE  \E w \in Workers : handler[w].op = "ack" /\ handler[w].task = t
<1>1. ASSUME NEW w \in Workers, AckCommit(w)
      PROVE  handler[w].op = "ack" /\ handler[w].task = t
  BY <1>1, RequestTyped DEF AckCommit, TypeOK
<1>2. ASSUME NEW c \in Sends, SendInsert(c) PROVE FALSE
  BY <1>2 DEF SendInsert, TypeOK
<1>3. ASSUME NEW r \in Receivers, FetchInbox(r) PROVE FALSE
  BY <1>3 DEF FetchInbox
<1>4. ASSUME SweepMessages PROVE FALSE
  BY <1>4 DEF SweepMessages
<1> QED
  BY <1>1, <1>2, <1>3, <1>4
  DEF Next, Send, Ack, Respond, Sweep, Tick, SendLookup, SendEnqueue, AckRead, RespondRead,
      RespondCommit, SweepTasks, TtlElapses, BackoffElapses, Crash, vars, taskVars

\* A task becomes stored by an ack, or by a response that says so.
LEMMA StoredByHandler ==
  ASSUME TypeOK, [Next]_vars, NEW t \in Sends,
         status'[t] = "stored_by_remote_agent", status[t] # "stored_by_remote_agent"
  PROVE  \E w \in Workers :
           /\ handler[w].task = t
           /\ \/ handler[w].op = "ack"
              \/ handler[w].op = "respond" /\ handler[w].status = "stored_by_remote_agent"
<1>1. ASSUME NEW u \in Sends, NEW s \in TaskStatus, UpdateTask(u, s)
      PROVE  u = t /\ s = "stored_by_remote_agent"
  BY <1>1 DEF UpdateTask, TypeOK
<1>2. ASSUME NEW w \in Workers, AckCommit(w)
      PROVE  handler[w].op = "ack" /\ handler[w].task = t
  <2> DEFINE u == handler[w].task
             next == StatusAfterAck(handler[w].status)
  <2>1. u \in Sends /\ next \in TaskStatus
    BY <1>2, RequestTyped, AckedStatus DEF AckCommit
  <2>2. UpdateTask(u, next) \/ status' = status
    BY <1>2 DEF AckCommit
  <2> HIDE DEF u, next
  <2>3. u = t
    BY <1>1, <2>1, <2>2
  <2> QED
    BY <1>2, <2>3 DEF AckCommit, u
<1>3. ASSUME NEW w \in Workers, RespondCommit(w)
      PROVE  /\ handler[w].op = "respond" /\ handler[w].task = t
             /\ handler[w].status = "stored_by_remote_agent"
  <2>1. handler[w].task \in Sends /\ handler[w].status \in TaskStatus
    BY <1>3, RequestTyped DEF RespondCommit
  <2> QED
    BY <1>1, <1>3, <2>1 DEF RespondCommit
<1>4. ASSUME NEW c \in Sends, SendInsert(c) PROVE FALSE
  BY <1>4 DEF SendInsert, TypeOK
<1>5. ASSUME NEW c \in Sends, SendEnqueue(c) PROVE FALSE
  BY <1>5 DEF SendEnqueue, TypeOK
<1>6. ASSUME NEW r \in Receivers, FetchInbox(r) PROVE FALSE
  BY <1>6 DEF FetchInbox
<1>7. ASSUME SweepTasks PROVE FALSE
  BY <1>7 DEF SweepTasks
<1> QED
  BY <1>2, <1>3, <1>4, <1>5, <1>6, <1>7
  DEF Next, Send, Ack, Respond, Sweep, Tick, SendLookup, AckRead, RespondRead,
      SweepMessages, TtlElapses, BackoffElapses, Crash, vars, taskVars

-----------------------------------------------------------------------------
(* What a step does to the agent's tables, its runs and their requests *)

\* Only three actions touch the agent's tables.
LEMMA TablesChange ==
  ASSUME [DeliveryNext]_deliveryVars
  PROVE  \/ UNCHANGED <<ledger, timeline>>
         \/ \E p \in Polls : Write(p) \/ Record(p) \/ GiveUp(p)
<1>1. ASSUME NEW p \in Polls, AgentStep(p)
      PROVE  UNCHANGED <<ledger, timeline>> \/ Write(p) \/ Record(p) \/ GiveUp(p)
  BY <1>1 DEF AgentStep, StartPoll, Take, WriteFails, Call, Answered, NoAnswer
<1> QED
  BY <1>1 DEF DeliveryNext, LateCommit, AgentCrash, ServerStep, agentVars, deliveryVars

\* An outcome on record stays, and so does a message in the timeline.
LEMMA TablesGrow ==
  ASSUME DeliveryTypeOK, [DeliveryNext]_deliveryVars, NEW t \in Sends
  PROVE  /\ ledger[t] # "none" => ledger'[t] = ledger[t]
         /\ timeline[t] > 0 => timeline'[t] > 0
<1>1. ASSUME NEW p \in Polls, Write(p)
      PROVE  ledger' = ledger /\ (timeline[t] > 0 => timeline'[t] > 0)
  <2>1. timeline' = [timeline EXCEPT ![poll[p].task] = @ + 1] /\ ledger' = ledger
    BY <1>1 DEF Write
  <2>2. timeline'[t] = timeline[t] \/ timeline'[t] = timeline[t] + 1
    BY <2>1 DEF DeliveryTypeOK
  <2> QED
    BY <2>1, <2>2 DEF DeliveryTypeOK
<1>2. ASSUME NEW p \in Polls, Record(p) \/ GiveUp(p)
      PROVE  timeline' = timeline /\ (ledger[t] # "none" => ledger'[t] = ledger[t])
  BY <1>2 DEF Record, GiveUp, Recordable, DeliveryTypeOK
<1> QED
  BY <1>1, <1>2, TablesChange

\* A well-formed run, and well-formed runs, spelled out field by field.
RunOK(run) ==
  /\ run.at \in Places
  /\ run.task \in Sends \cup {NoTask}
  /\ run.todo \in SUBSET Sends
  /\ run.call \in Workers \cup {NoWorker}
  /\ run = [at |-> run.at, task |-> run.task, todo |-> run.todo, call |-> run.call]
  /\ run.at = "ended" => run = Ended
  /\ run.call # NoWorker => run.at \in {"receipt", "report", "ack"}

RunsOK(runs) == runs = [p \in Polls |-> runs[p]] /\ \A p \in Polls : RunOK(runs[p])

\* The type invariant says just that of the runs.
LEMMA RunsOfType == DeliveryTypeOK => RunsOK(poll)
<1>1. ASSUME DeliveryTypeOK, NEW p \in Polls PROVE RunOK(poll[p])
  BY <1>1 DEF DeliveryTypeOK, RunOK
<1> QED
  BY <1>1 DEF DeliveryTypeOK, RunsOK

\* The converse: well-formed runs have the types the type invariant asks for.
LEMMA TypeOfRuns ==
  ASSUME NEW runs, RunsOK(runs)
  PROVE  /\ runs \in [Polls -> [at : Places, task : Sends \cup {NoTask},
                               todo : SUBSET Sends, call : Workers \cup {NoWorker}]]
         /\ \A p \in Polls :
              /\ runs[p].at = "ended" => runs[p] = Ended
              /\ runs[p].call # NoWorker => runs[p].at \in {"receipt", "report", "ack"}
<1>1. ASSUME NEW run, RunOK(run)
      PROVE  run \in [at : Places, task : Sends \cup {NoTask},
                      todo : SUBSET Sends, call : Workers \cup {NoWorker}]
  BY <1>1 DEF RunOK
<1>2. \A p \in Polls : RunOK(runs[p])
  BY DEF RunsOK
<1>3. runs \in [Polls -> [at : Places, task : Sends \cup {NoTask},
                          todo : SUBSET Sends, call : Workers \cup {NoWorker}]]
  BY <1>1, <1>2 DEF RunsOK
<1> QED
  BY <1>2, <1>3 DEF RunOK

\* A run is well formed if its fields are.
LEMMA Built ==
  ASSUME NEW a \in Places, NEW t \in Sends \cup {NoTask}, NEW d \in SUBSET Sends,
         NEW c \in Workers \cup {NoWorker},
         a = "ended" => t = NoTask /\ d = {} /\ c = NoWorker,
         c # NoWorker => a \in {"receipt", "report", "ack"}
  PROVE  RunOK([at |-> a, task |-> t, todo |-> d, call |-> c])
BY DEF RunOK, Ended

\* The runs stay well formed if one of them moves to a well-formed place.
LEMMA MovedRun ==
  ASSUME RunsOK(poll), NEW p \in Polls, NEW run, RunOK(run), poll'[p] = run,
         poll' = [q \in Polls |-> poll'[q]], \A q \in Polls \ {p} : poll'[q] = poll[q]
  PROVE  RunsOK(poll')
BY DEF RunsOK

\* A run that goes on to another place, with its call over.
LEMMA GoneOn ==
  ASSUME RunsOK(poll), NEW p \in Polls, NEW place \in Places \ {"ended"}, Goto(p, place)
  PROVE  RunsOK(poll')
<1> DEFINE run == [at |-> place, task |-> poll[p].task, todo |-> poll[p].todo,
                   call |-> NoWorker]
<1>1. /\ poll[p].task \in Sends \cup {NoTask}
      /\ poll[p].todo \in SUBSET Sends
      /\ poll[p] = [at |-> poll[p].at, task |-> poll[p].task, todo |-> poll[p].todo,
                    call |-> poll[p].call]
  BY DEF RunsOK, RunOK
<1>2. RunOK(run)
  BY <1>1, Built
<1>3. /\ poll' = [q \in Polls |-> poll'[q]]
      /\ \A q \in Polls \ {p} : poll'[q] = poll[q]
      /\ poll'[p] = [[poll[p] EXCEPT !.at = place] EXCEPT !.call = NoWorker]
  BY DEF Goto, RunsOK
<1>4. poll'[p] = run
  BY <1>1, <1>3
<1> QED
  BY <1>2, <1>3, <1>4, MovedRun

\* A run that ends.
LEMMA Aborted ==
  ASSUME RunsOK(poll), NEW p \in Polls, Abort(p)
  PROVE  RunsOK(poll')
<1>1. RunOK(Ended)
  BY Built DEF Ended, Places
<1> QED
  BY <1>1, MovedRun DEF Abort, RunsOK

\* The types of the agent's variables are kept by a step.
LEMMA DeliveryTypeStep ==
  DeliveryTypeOK /\ CallInv /\ [DeliveryNext]_deliveryVars => DeliveryTypeOK'
<1> SUFFICES ASSUME DeliveryTypeOK, CallInv, [DeliveryNext]_deliveryVars
             PROVE  DeliveryTypeOK'
  OBVIOUS
<1>0. RunsOK(poll)
  BY RunsOfType
<1> USE <1>0
<1>1. ASSUME NEW p \in Polls
      PROVE  /\ poll[p].task \in Sends \cup {NoTask}
             /\ poll[p].todo \in SUBSET Sends
             /\ poll[p].call \in Workers \cup {NoWorker}
             /\ poll[p] = [at |-> poll[p].at, task |-> poll[p].task,
                           todo |-> poll[p].todo, call |-> poll[p].call]
  BY DEF RunsOK, RunOK
<1>2. ASSUME NEW p \in Polls, StartPoll(p) PROVE RunsOK(poll')
  <2>1. PICK items \in SUBSET Sends, place \in {"ended", "next"} :
          /\ place = IF items = {} THEN "ended" ELSE "next"
          /\ poll' = [poll EXCEPT ![p].at = place, ![p].todo = items]
    BY <1>2 DEF StartPoll
  <2> DEFINE run == [at |-> place, task |-> NoTask, todo |-> items, call |-> NoWorker]
  <2>2. RunOK(run)
    BY <2>1, Built DEF Places
  <2>3. /\ poll' = [q \in Polls |-> poll'[q]]
        /\ \A q \in Polls \ {p} : poll'[q] = poll[q]
        /\ poll'[p] = [[poll[p] EXCEPT !.at = place] EXCEPT !.todo = items]
    BY <2>1 DEF RunsOK
  <2>4. poll[p] = Ended
    BY <1>2 DEF StartPoll
  <2>5. ASSUME NEW was, was = Ended, NEW is,
               is = [[was EXCEPT !.at = place] EXCEPT !.todo = items]
        PROVE  is = run
    BY <2>5 DEF Ended
  <2>6. poll'[p] = run
    BY <2>3, <2>4, <2>5, Zenon
  <2> QED
    BY <2>2, <2>3, <2>6, MovedRun
<1>3. ASSUME NEW p \in Polls, Take(p) PROVE RunsOK(poll')
  <2>1. CASE Abort(p)
    BY <2>1, Aborted
  <2>2. ASSUME NEW t \in poll[p].todo, NEW place, place = AfterLookup(t),
               poll' = [poll EXCEPT ![p].at = place, ![p].task = t, ![p].todo = @ \ {t}]
        PROVE  RunsOK(poll')
    <3> DEFINE left == poll[p].todo \ {t}
               run == [at |-> place, task |-> t, todo |-> left, call |-> NoWorker]
    <3>1. place \in {"write", "ack"} /\ poll[p].call = NoWorker
      BY <1>3, <2>2 DEF AfterLookup, Take, At
    <3>2. RunOK(run)
      BY <1>1, <2>2, <3>1, Built DEF Places
    <3>3. /\ poll' = [q \in Polls |-> poll'[q]]
          /\ \A q \in Polls \ {p} : poll'[q] = poll[q]
      BY <2>2 DEF RunsOK
    <3>4. poll'[p] = [[[poll[p] EXCEPT !.at = place] EXCEPT !.task = t] EXCEPT !.todo = left]
      BY <2>2 DEF RunsOK
    <3>5. poll[p] = [at |-> poll[p].at, task |-> poll[p].task, todo |-> poll[p].todo,
                     call |-> NoWorker]
      BY <1>1, <3>1
    <3>6. ASSUME NEW was, NEW is,
                 was = [at |-> poll[p].at, task |-> poll[p].task, todo |-> poll[p].todo,
                        call |-> NoWorker],
                 is = [[[was EXCEPT !.at = place] EXCEPT !.task = t] EXCEPT !.todo = left]
          PROVE  is = run
      BY <3>6
    <3>7. poll'[p] = run
      BY <3>4, <3>5, <3>6, Zenon
    <3> QED
      BY <3>2, <3>3, <3>7, MovedRun
  <2> QED
    BY <1>3, <2>1, <2>2 DEF Take
<1>4. ASSUME NEW p \in Polls, WriteFails(p) PROVE RunsOK(poll')
  BY <1>4, GoneOn DEF WriteFails, Places
<1>5. ASSUME NEW p \in Polls, Write(p) PROVE RunsOK(poll')
  BY <1>5, GoneOn DEF Write, Places
<1>6. ASSUME NEW p \in Polls, Record(p) PROVE RunsOK(poll')
  BY <1>6, GoneOn DEF Record, Places
<1>7. ASSUME NEW p \in Polls, GiveUp(p) PROVE RunsOK(poll')
  BY <1>7, GoneOn, Aborted DEF GiveUp, Places
<1>8. ASSUME NEW p \in Polls, Call(p) PROVE RunsOK(poll')
  <2>1. poll[p].at \in {"receipt", "report", "ack"}
    BY <1>8 DEF Call, SendReport, Report
  <2>2. PICK w \in Workers : poll' = [poll EXCEPT ![p].call = w]
    BY <1>8 DEF Call
  <2> DEFINE run == [at |-> poll[p].at, task |-> poll[p].task, todo |-> poll[p].todo,
                     call |-> w]
  <2>3. RunOK(run)
    BY <1>1, <2>1, Built DEF Places
  <2>4. /\ poll' = [q \in Polls |-> poll'[q]]
        /\ \A q \in Polls \ {p} : poll'[q] = poll[q]
        /\ poll'[p] = [poll[p] EXCEPT !.call = w]
    BY <2>2 DEF RunsOK
  <2>5. poll'[p] = run
    BY <1>1, <2>4
  <2> QED
    BY <2>3, <2>4, <2>5, MovedRun
<1>9. ASSUME NEW p \in Polls, Answered(p) PROVE RunsOK(poll')
  <2>1. handler[poll[p].call].op = "respond" => poll[p].at \in {"receipt", "report"}
    BY <1>9 DEF Answered, CallInv
  <2>2. ASSUME Goto(p, AfterReport[poll[p].at]), poll[p].at \in {"receipt", "report"}
        PROVE  RunsOK(poll')
    <3>1. AfterReport[poll[p].at] \in Places \ {"ended"}
      BY <2>2 DEF AfterReport, Places
    <3> QED
      BY <2>2, <3>1, GoneOn
  <2>3. ASSUME Goto(p, "next") PROVE RunsOK(poll')
    BY <2>3, GoneOn DEF Places
  <2> QED
    BY <1>9, <2>1, <2>2, <2>3 DEF Answered, RespondCommit
<1>10. ASSUME NEW p \in Polls, NoAnswer(p) PROVE RunsOK(poll')
  <2>1. ASSUME Goto(p, AfterReport[poll[p].at]), poll[p].at \in DOMAIN Report
        PROVE  RunsOK(poll')
    <3>1. AfterReport[poll[p].at] \in Places \ {"ended"}
      BY <2>1 DEF AfterReport, Report, Places
    <3> QED
      BY <2>1, <3>1, GoneOn
  <2> QED
    BY <1>10, <2>1, Aborted DEF NoAnswer
<1>11. ASSUME NEW r \in Receivers, AgentCrash(r) PROVE RunsOK(poll')
  <2>1. RunOK(Ended)
    BY Built DEF Ended, Places
  <2> QED
    BY <1>11, <2>1 DEF AgentCrash, RunsOK
<1>12. ASSUME UNCHANGED poll PROVE RunsOK(poll')
  BY <1>12
<1>13. RunsOK(poll')
  BY <1>2, <1>3, <1>4, <1>5, <1>6, <1>7, <1>8, <1>9, <1>10, <1>11, <1>12
  DEF DeliveryNext, AgentStep, LateCommit, ServerStep, agentVars, deliveryVars
<1>14. ASSUME NEW p \in Polls, Write(p) \/ Record(p) \/ GiveUp(p)
       PROVE  /\ ledger' \in [Sends -> {"none", "created", "failed"}]
              /\ timeline' \in [Sends -> Nat]
  BY <1>14 DEF Write, Record, GiveUp, DeliveryTypeOK
<1>15. /\ ledger' \in [Sends -> {"none", "created", "failed"}]
       /\ timeline' \in [Sends -> Nat]
  BY <1>14, TablesChange DEF DeliveryTypeOK
<1> QED
  BY <1>13, <1>15, TypeOfRuns DEF DeliveryTypeOK

\* A run knows its task wherever it is about to do something with it, and what
\* it has done by then has been done.
LEMMA PollStep ==
  ASSUME DeliveryTypeOK, PollInv, CallInv, [DeliveryNext]_deliveryVars
  PROVE  PollInv'
<1> DEFINE Good(p) ==
      /\ poll'[p].at \notin {"ended", "next"} => poll'[p].task \in Sends
      /\ poll'[p].at \in {"receipt", "record"} => timeline'[poll'[p].task] > 0
      /\ poll'[p].at = "ack" => ledger'[poll'[p].task] # "none"
<1>0. ASSUME NEW p \in Polls, poll'[p] = poll[p] PROVE Good(p)
  BY <1>0, TablesGrow DEF PollInv
<1>2. ASSUME NEW p \in Polls, AgentStep(p) PROVE Good(p)
  <2>1. ASSUME NEW place, Goto(p, place)
        PROVE  poll'[p].at = place /\ poll'[p].task = poll[p].task
    BY <2>1 DEF Goto, DeliveryTypeOK
  <2>2. ASSUME Abort(p) PROVE Good(p)
    BY <2>2 DEF Abort, Ended, DeliveryTypeOK
  <2>3. CASE StartPoll(p)
    BY <2>3 DEF StartPoll, DeliveryTypeOK
  <2>4. CASE Take(p)
    <3>1. ASSUME NEW t \in poll[p].todo,
                 poll' = [poll EXCEPT ![p].at = AfterLookup(t), ![p].task = t,
                                      ![p].todo = @ \ {t}]
          PROVE  Good(p)
      <4>1. t \in Sends
        BY <3>1 DEF DeliveryTypeOK
      <4>2. poll'[p].at = AfterLookup(t) /\ poll'[p].task = t
        BY <3>1 DEF DeliveryTypeOK
      <4>3. ledger' = ledger
        BY <2>4 DEF Take
      <4> QED
        BY <4>1, <4>2, <4>3 DEF AfterLookup
    <3> QED
      BY <2>2, <2>4, <3>1 DEF Take
  <2>5. CASE WriteFails(p)
    <3>1. poll[p].at = "write" /\ \E place \in {"report", "giveup"} : Goto(p, place)
      BY <2>5 DEF WriteFails, At
    <3> QED
      BY <2>1, <3>1 DEF PollInv
  <2>6. CASE Write(p)
    <3>1. /\ poll[p].at = "write"
          /\ \E place \in {"receipt", "record"} : Goto(p, place)
          /\ timeline' = [timeline EXCEPT ![poll[p].task] = @ + 1]
      BY <2>6 DEF Write, At
    <3>2. poll[p].task \in Sends
      BY <3>1 DEF PollInv
    <3>3. timeline'[poll[p].task] > 0
      BY <3>1, <3>2 DEF DeliveryTypeOK
    <3> QED
      BY <2>1, <3>1, <3>2, <3>3
  <2>7. CASE Record(p)
    <3>1. poll[p].at = "record" /\ poll[p].task \in Sends
      BY <2>7 DEF Record, At, PollInv
    <3>2. \/ ledger'[poll[p].task] = "created" /\ Goto(p, "ack")
          \/ \E place \in {"report", "giveup"} : Goto(p, place)
      BY <2>7, <3>1 DEF Record, DeliveryTypeOK
    <3> QED
      BY <2>1, <3>1, <3>2
  <2>8. CASE GiveUp(p)
    BY <2>1, <2>2, <2>8 DEF GiveUp
  <2>9. CASE Call(p)
    <3>1. /\ poll'[p].at = poll[p].at /\ poll'[p].task = poll[p].task
          /\ ledger' = ledger /\ timeline' = timeline
      BY <2>9 DEF Call, DeliveryTypeOK
    <3> QED
      BY <3>1 DEF PollInv
  <2>10. ASSUME Goto(p, AfterReport[poll[p].at]), poll[p].at \in {"receipt", "report"},
                timeline' = timeline
         PROVE  Good(p)
    <3>1. CASE poll[p].at = "receipt"
      <4>1. Goto(p, "record")
        BY <2>10, <3>1 DEF AfterReport
      <4> QED
        BY <2>1, <2>10, <3>1, <4>1 DEF PollInv
    <3>2. CASE poll[p].at = "report"
      <4>1. Goto(p, "giveup")
        BY <2>10, <3>2 DEF AfterReport
      <4> QED
        BY <2>1, <3>2, <4>1 DEF PollInv
    <3> QED
      BY <2>10, <3>1, <3>2
  <2>11. CASE Answered(p)
    <3>1. handler[poll[p].call].op = "respond" => poll[p].at \in {"receipt", "report"}
      BY <2>11 DEF Answered, CallInv
    <3> QED
      BY <2>1, <2>10, <2>11, <3>1 DEF Answered, RespondCommit
  <2>12. CASE NoAnswer(p)
    BY <2>2, <2>10, <2>12 DEF NoAnswer, Report
  <2> QED
    BY <1>2, <2>3, <2>4, <2>5, <2>6, <2>7, <2>8, <2>9, <2>11, <2>12 DEF AgentStep
<1>3. ASSUME NEW p \in Polls, NEW q \in Polls, AgentStep(p), q # p PROVE poll'[q] = poll[q]
  BY <1>3
  DEF AgentStep, StartPoll, Take, WriteFails, Write, Record, GiveUp, Call, Answered, NoAnswer,
      Goto, Abort, DeliveryTypeOK
<1>4. ASSUME NEW r \in Receivers, AgentCrash(r), NEW p \in Polls PROVE Good(p)
  <2>1. poll'[p] = Ended \/ poll'[p] = poll[p]
    BY <1>4 DEF AgentCrash
  <2> QED
    BY <1>0, <2>1 DEF Ended
<1> HIDE DEF Good
<1>5. ASSUME NEW p \in Polls PROVE Good(p)
  BY <1>0, <1>2, <1>3, <1>4
  DEF DeliveryNext, LateCommit, ServerStep, agentVars, deliveryVars
<1> QED
  BY <1>5 DEF Good, PollInv

\* What run p asks of worker w when it calls.
Asks(p, w) ==
  /\ poll[p].call = NoWorker /\ Free(w)
  /\ poll' = [poll EXCEPT ![p].call = w]
  /\ \/ poll[p].at = "ack" /\ AckRead(w, poll[p].task)
     \/ SendReport(p, w)

\* A worker goes on with its request, is done with it, or is asked by a run.
LEMMA WorkerSteps ==
  ASSUME TypeOK, [DeliveryNext]_deliveryVars, NEW w \in Workers
  PROVE  \/ handler'[w] = handler[w]
         \/ handler'[w] = Idle
         \/ \E p \in Polls : Asks(p, w)
<1>1. ASSUME NEW v \in Workers, AckCommit(v) \/ RespondCommit(v)
      PROVE  handler'[w] \in {handler[w], Idle}
  BY <1>1 DEF AckCommit, RespondCommit, TypeOK
<1>2. ASSUME NEW p \in Polls, Call(p)
      PROVE  handler'[w] = handler[w] \/ Asks(p, w)
  <2>1. PICK v \in Workers : Asks(p, v)
    BY <1>2 DEF Call, Asks
  <2>2. CASE v = w
    BY <2>1, <2>2
  <2>3. CASE v # w
    BY <2>1, <2>3 DEF Asks, AckRead, SendReport, RespondRead, TypeOK
  <2> QED
    BY <2>2, <2>3
<1>3. ASSUME NEW p \in Polls, AgentStep(p), ~Call(p)
      PROVE  handler'[w] \in {handler[w], Idle}
  <2>1. CASE Answered(p)
    BY <1>1, <2>1 DEF Answered
  <2>2. CASE StartPoll(p)
    BY <2>2 DEF StartPoll, FetchInbox
  <2> QED
    BY <1>3, <2>1, <2>2
    DEF AgentStep, Take, WriteFails, Write, Record, GiveUp, NoAnswer, vars
<1>4. ASSUME ServerStep PROVE handler'[w] \in {handler[w], Idle}
  BY <1>4
  DEF ServerStep, Send, SendLookup, SendInsert, SendEnqueue, Sweep, SweepTasks, SweepMessages,
      Tick, TtlElapses, BackoffElapses, Crash, taskVars
<1> QED
  BY <1>1, <1>2, <1>3, <1>4 DEF DeliveryNext, LateCommit, AgentCrash, deliveryVars, vars

\* A run has a call under way only where the call was made.
LEMMA CallStays ==
  ASSUME DeliveryTypeOK, [DeliveryNext]_deliveryVars, NEW p \in Polls, poll'[p].call # NoWorker
  PROVE  /\ poll'[p].at = poll[p].at
         /\ poll'[p].call = poll[p].call \/ \E w \in Workers : Asks(p, w) /\ poll'[p].call = w
<1>1. ASSUME NEW q \in Polls, NEW place, Goto(q, place) PROVE poll'[p] = poll[p]
  BY <1>1 DEF Goto, DeliveryTypeOK
<1>2. ASSUME NEW q \in Polls, Abort(q) PROVE poll'[p] = poll[p]
  BY <1>2 DEF Abort, Ended, DeliveryTypeOK
<1>3. ASSUME NEW q \in Polls, Call(q)
      PROVE  /\ poll'[p].at = poll[p].at
             /\ poll'[p].call = poll[p].call \/ \E w \in Workers : Asks(p, w) /\ poll'[p].call = w
  <2>1. PICK w \in Workers : Asks(q, w)
    BY <1>3 DEF Call, Asks
  <2>2. poll' = [poll EXCEPT ![q].call = w]
    BY <2>1 DEF Asks
  <2>3. CASE q = p
    BY <2>1, <2>2, <2>3 DEF DeliveryTypeOK
  <2>4. CASE q # p
    BY <2>2, <2>4 DEF DeliveryTypeOK
  <2> QED
    BY <2>3, <2>4
<1>4. ASSUME NEW q \in Polls, StartPoll(q) PROVE poll'[p] = poll[p]
  <2>1. CASE q = p
    BY <1>4, <2>1 DEF StartPoll, Ended, DeliveryTypeOK
  <2>2. CASE q # p
    BY <1>4, <2>2 DEF StartPoll, DeliveryTypeOK
  <2> QED
    BY <2>1, <2>2
<1>5. ASSUME NEW q \in Polls, Take(q) PROVE poll'[p] = poll[p]
  <2>1. poll[q].call = NoWorker
    BY <1>5 DEF Take, At
  <2>2. ASSUME q = p, NEW t \in poll[p].todo, NEW place,
               poll' = [poll EXCEPT ![p].at = place, ![p].task = t, ![p].todo = @ \ {t}]
        PROVE  FALSE
    <3>1. poll'[p].call = poll[p].call
      BY <2>2 DEF DeliveryTypeOK
    <3> QED
      BY <2>1, <2>2, <3>1
  <2>3. CASE q # p
    BY <1>2, <1>5, <2>3 DEF Take, DeliveryTypeOK
  <2> QED
    BY <1>2, <1>5, <2>2, <2>3 DEF Take
<1>6. ASSUME NEW q \in Polls, AgentStep(q), ~Call(q) PROVE poll'[p] = poll[p]
  BY <1>1, <1>2, <1>4, <1>5, <1>6
  DEF AgentStep, WriteFails, Write, Record, GiveUp, Answered, NoAnswer
<1>7. ASSUME NEW r \in Receivers, AgentCrash(r) PROVE poll'[p] = poll[p]
  BY <1>7 DEF AgentCrash, Ended
<1> QED
  BY <1>3, <1>6, <1>7 DEF DeliveryNext, LateCommit, ServerStep, agentVars, deliveryVars

\* Two runs never wait for one call, and each waits for a call of its own kind.
LEMMA CallStep ==
  ASSUME TypeOK, DeliveryTypeOK, CallInv, [DeliveryNext]_deliveryVars
  PROVE  CallInv'
<1> USE DeliveryConstants
<1>1. ASSUME NEW p \in Polls, NEW q \in Polls,
             poll'[p].call = poll'[q].call, poll'[p].call # NoWorker
      PROVE  p = q
  <2>1. ASSUME NEW w \in Workers, NEW x \in Polls, NEW y \in Polls, Asks(x, w), y # x
        PROVE  poll'[y].call = poll[y].call /\ poll[y].call # w
    BY <2>1 DEF Asks, Free, DeliveryTypeOK
  <2>2. \/ poll'[p].call = poll[p].call
        \/ \E w \in Workers : Asks(p, w) /\ poll'[p].call = w
    BY <1>1, CallStays
  <2>3. \/ poll'[q].call = poll[q].call
        \/ \E w \in Workers : Asks(q, w) /\ poll'[q].call = w
    BY <1>1, CallStays
  <2>4. CASE poll'[p].call = poll[p].call /\ poll'[q].call = poll[q].call
    BY <1>1, <2>4 DEF CallInv
  <2>5. ASSUME NEW w \in Workers, Asks(p, w), poll'[p].call = w PROVE p = q
    BY <1>1, <2>1, <2>5
  <2>6. ASSUME NEW w \in Workers, Asks(q, w), poll'[q].call = w PROVE p = q
    BY <1>1, <2>1, <2>6
  <2> QED
    BY <2>2, <2>3, <2>4, <2>5, <2>6
<1>2. ASSUME NEW p \in Polls, NEW w \in Workers, poll'[p].call = w
      PROVE  /\ handler'[w].op = "ack" => poll'[p].at = "ack"
             /\ handler'[w].op = "respond" => poll'[p].at \in {"receipt", "report"}
  <2>1. poll'[p].at = poll[p].at
    BY <1>2, CallStays
  <2>2. ASSUME NEW q \in Polls, Asks(q, w)
        PROVE  q = p
    BY <1>2, <2>2 DEF Asks, Free, DeliveryTypeOK
  <2>3. CASE Asks(p, w)
    <3>1. \/ poll[p].at = "ack" /\ handler'[w].op = "ack"
          \/ poll[p].at \in {"receipt", "report"} /\ handler'[w].op = "respond"
      BY <2>3 DEF Asks, AckRead, SendReport, RespondRead, Report, TypeOK
    <3> QED
      BY <2>1, <3>1
  <2>4. CASE ~Asks(p, w)
    <3>1. handler'[w] \in {handler[w], Idle}
      BY <2>2, <2>4, WorkerSteps
    <3>2. poll[p].call = w
      BY <1>2, <2>4, CallStays
    <3> QED
      BY <2>1, <3>1, <3>2 DEF CallInv, Idle
  <2> QED
    BY <2>3, <2>4
<1> QED
  BY <1>1, <1>2 DEF CallInv

\* A request the control plane is serving still says what was true of the
\* agent's tables when it was sent.
LEMMA HandledStep ==
  ASSUME TypeOK, DeliveryTypeOK, PollInv, HandledInv, [DeliveryNext]_deliveryVars
  PROVE  HandledInv'
<1> SUFFICES ASSUME NEW w \in Workers
             PROVE  /\ handler'[w].op = "ack" => ledger'[handler'[w].task] # "none"
                    /\ handler'[w].op = "respond" /\ handler'[w].status = "stored_by_remote_agent"
                         => timeline'[handler'[w].task] > 0
  BY DEF HandledInv
<1>1. CASE handler'[w] = handler[w]
  BY <1>1, RequestTyped, TablesGrow DEF HandledInv
<1>2. CASE handler'[w] = Idle
  BY <1>2 DEF Idle
<1>3. ASSUME NEW p \in Polls, poll[p].at = "ack", AckRead(w, poll[p].task)
      PROVE  handler'[w].op = "ack" /\ ledger'[handler'[w].task] # "none"
  <2>1. poll[p].task \in Sends /\ ledger[poll[p].task] # "none"
    BY <1>3 DEF PollInv
  <2>2. handler'[w].op = "ack" /\ handler'[w].task = poll[p].task
    BY <1>3 DEF AckRead, TypeOK
  <2> QED
    BY <2>1, <2>2, TablesGrow
<1>4. ASSUME NEW p \in Polls, SendReport(p, w)
      PROVE  /\ handler'[w].op = "respond"
             /\ handler'[w].status = "stored_by_remote_agent" => timeline'[handler'[w].task] > 0
  <2>1. /\ handler'[w].op = "respond" /\ handler'[w].task = poll[p].task
        /\ handler'[w].status = Report[poll[p].at]
    BY <1>4 DEF SendReport, RespondRead, TypeOK
  <2>2. poll[p].at \in {"receipt", "report"}
    BY <1>4 DEF SendReport, Report
  <2>3. CASE poll[p].at = "receipt"
    <3>1. poll[p].task \in Sends /\ timeline[poll[p].task] > 0
      BY <2>3 DEF PollInv
    <3> QED
      BY <2>1, <3>1, TablesGrow
  <2>4. CASE poll[p].at = "report"
    BY <2>1, <2>4 DEF Report
  <2> QED
    BY <2>2, <2>3, <2>4
<1> QED
  BY <1>1, <1>2, <1>3, <1>4, WorkerSteps DEF Asks

\* Only what has been written is recorded as created.
LEMMA LedgerStep ==
  ASSUME DeliveryTypeOK, PollInv, LedgerInv, [DeliveryNext]_deliveryVars
  PROVE  LedgerInv'
<1> SUFFICES ASSUME NEW t \in Sends, ledger'[t] = "created" PROVE timeline'[t] > 0
  BY DEF LedgerInv
<1>1. CASE ledger[t] = "created"
  BY <1>1, TablesGrow DEF LedgerInv
<1>2. CASE ledger[t] # "created"
  <2>1. ASSUME NEW p \in Polls, Record(p) PROVE poll[p].at = "record" /\ poll[p].task = t
    BY <1>2, <2>1 DEF Record, At, DeliveryTypeOK
  <2>2. ASSUME NEW p \in Polls, Write(p) \/ GiveUp(p) PROVE FALSE
    BY <1>2, <2>2 DEF Write, GiveUp, DeliveryTypeOK
  <2>3. PICK p \in Polls : Record(p)
    BY <1>2, <2>2, TablesChange
  <2>4. timeline[t] > 0
    BY <2>1, <2>3 DEF PollInv
  <2> QED
    BY <2>4, TablesGrow
<1> QED
  BY <1>1, <1>2

\* The invariant of the agent is kept by every step.
LEMMA AgentStepKeeps ==
  TypeOK /\ AgentInv /\ [DeliveryNext]_deliveryVars => AgentInv'
<1> SUFFICES ASSUME TypeOK, AgentInv, [DeliveryNext]_deliveryVars PROVE AgentInv'
  OBVIOUS
<1> USE DEF AgentInv
<1>1. [Next]_vars
  BY QueueStep
<1>2. AckedIsRecorded'
  <2>1. ASSUME NEW t \in Sends, message'[t] = "acked" PROVE ledger'[t] # "none"
    <3>1. ledger[t] # "none"
      BY <1>1, <2>1, AckedByAck DEF HandledInv, AckedIsRecorded
    <3> QED
      BY <3>1, TablesGrow
  <2> QED
    BY <2>1 DEF AckedIsRecorded
<1>3. StoredIsAccountedFor'
  <2>1. ASSUME NEW t \in Sends, status'[t] = "stored_by_remote_agent"
        PROVE  timeline'[t] > 0 \/ ledger'[t] = "failed"
    <3>1. CASE status[t] = "stored_by_remote_agent"
      BY <3>1, TablesGrow DEF StoredIsAccountedFor
    <3>2. CASE status[t] # "stored_by_remote_agent"
      <4>1. ledger[t] # "none" \/ timeline[t] > 0
        BY <1>1, <2>1, <3>2, StoredByHandler DEF HandledInv
      <4>2. ledger[t] \in {"none", "created", "failed"}
        BY DEF DeliveryTypeOK
      <4> QED
        BY <4>1, <4>2, TablesGrow DEF LedgerInv
    <3> QED
      BY <3>1, <3>2
  <2> QED
    BY <2>1 DEF StoredIsAccountedFor
<1> QED
  BY <1>2, <1>3, DeliveryTypeStep, PollStep, CallStep, HandledStep, LedgerStep

-----------------------------------------------------------------------------
(* Every showing has a hand-out of its own *)

\* A run may still show a task that is in its batch, or that it is about to write.
Carries(run, t) == t \in run.todo \/ (run.at = "write" /\ run.task = t)
Carriers(t) == {p \in Polls : Carries(poll[p], t)}

\* A task handed out and not yet shown is with at most as many runs as the relay
\* has handed it out to in excess of its showings; no run has it twice.
ShowingsInv ==
  /\ \A t \in Sends : timeline[t] + Cardinality(Carriers(t)) <= attempts[t]
  /\ \A p \in Polls : poll[p].at = "write" => poll[p].task \notin poll[p].todo

\* Only a fetch counts a hand-out, and it never takes one back.
LEMMA AttemptsGrow ==
  ASSUME TypeOK, [Next]_vars, NEW t \in Sends
  PROVE  attempts'[t] >= attempts[t]
<1>1. ASSUME NEW r \in Receivers, FetchInbox(r) PROVE attempts'[t] >= attempts[t]
  <2>1. PICK batch : attempts' = [u \in Sends |->
                       IF u \in batch THEN attempts[u] + 1 ELSE attempts[u]]
    BY <1>1 DEF FetchInbox
  <2> QED
    BY <2>1 DEF TypeOK
<1>2. CASE UNCHANGED attempts
  BY <1>2 DEF TypeOK
<1> QED
  BY <1>1, <1>2
  DEF Next, Send, Ack, Respond, Sweep, Tick, SendLookup, SendInsert, SendEnqueue, AckRead,
      AckCommit, RespondRead, RespondCommit, SweepTasks, SweepMessages, TtlElapses,
      BackoffElapses, Crash, vars, taskVars

\* Where a run may go next: it starts, takes a task, has its call made, ends, or
\* goes on to a place that is not the writing of a task.
LEMMA RunSteps ==
  ASSUME DeliveryTypeOK, CallInv, [DeliveryNext]_deliveryVars, NEW p \in Polls
  PROVE  \/ poll'[p] = poll[p]
         \/ StartPoll(p)
         \/ Take(p)
         \/ Call(p)
         \/ poll'[p] = Ended
         \/ \E place \in Places \ {"write"} : Goto(p, place)
<1>1. ASSUME NEW q \in Polls, AgentStep(q), q # p PROVE poll'[p] = poll[p]
  BY <1>1
  DEF AgentStep, StartPoll, Take, WriteFails, Write, Record, GiveUp, Call, Answered, NoAnswer,
      Goto, Abort, DeliveryTypeOK
<1>2. ASSUME Abort(p) PROVE poll'[p] = Ended
  BY <1>2 DEF Abort, DeliveryTypeOK
<1>3. ASSUME poll[p].at \in {"receipt", "report"}
      PROVE  AfterReport[poll[p].at] \in Places \ {"write"}
  BY <1>3 DEF AfterReport, Places
<1>4. CASE Answered(p)
  <2>1. handler[poll[p].call].op = "respond" => poll[p].at \in {"receipt", "report"}
    BY <1>4 DEF Answered, CallInv
  <2>2. Goto(p, "next") \/ (poll[p].at \in {"receipt", "report"} /\ Goto(p, AfterReport[poll[p].at]))
    BY <1>4, <2>1 DEF Answered, RespondCommit
  <2> QED
    BY <1>3, <2>2 DEF Places
<1>5. CASE NoAnswer(p)
  <2>1. Abort(p) \/ (poll[p].at \in {"receipt", "report"} /\ Goto(p, AfterReport[poll[p].at]))
    BY <1>5 DEF NoAnswer, Report
  <2> QED
    BY <1>2, <1>3, <2>1
<1>6. CASE WriteFails(p) \/ Write(p) \/ Record(p) \/ GiveUp(p)
  BY <1>2, <1>6 DEF WriteFails, Write, Record, GiveUp, Places
<1>7. ASSUME NEW r \in Receivers, AgentCrash(r) PROVE poll'[p] \in {poll[p], Ended}
  BY <1>7 DEF AgentCrash
<1> QED
  BY <1>1, <1>4, <1>5, <1>6, <1>7
  DEF DeliveryNext, AgentStep, LateCommit, ServerStep, agentVars, deliveryVars

\* Apart from a fetch, no step gives a run a task to show, and none makes it
\* carry one twice.
LEMMA CarriersShrink ==
  ASSUME DeliveryTypeOK, CallInv, ShowingsInv, [DeliveryNext]_deliveryVars, NEW p \in Polls
  PROVE  /\ ~StartPoll(p) => \A t \in Sends : Carries(poll'[p], t) => Carries(poll[p], t)
         /\ poll'[p].at = "write" => poll'[p].task \notin poll'[p].todo
<1>1. CASE poll'[p] = poll[p]
  BY <1>1 DEF ShowingsInv
<1>2. CASE StartPoll(p)
  <2>1. PICK place \in {"ended", "next"}, items \in SUBSET Sends :
          poll' = [poll EXCEPT ![p].at = place, ![p].todo = items]
    BY <1>2 DEF StartPoll
  <2>2. poll'[p].at = place
    BY <2>1 DEF DeliveryTypeOK
  <2> QED
    BY <1>2, <2>2
<1>3. ASSUME NEW t \in poll[p].todo, NEW place,
             poll' = [poll EXCEPT ![p].at = place, ![p].task = t, ![p].todo = @ \ {t}]
      PROVE  /\ \A u \in Sends : Carries(poll'[p], u) => Carries(poll[p], u)
             /\ poll'[p].task \notin poll'[p].todo
  <2>1. poll'[p].task = t /\ poll'[p].todo = poll[p].todo \ {t}
    BY <1>3 DEF DeliveryTypeOK
  <2> QED
    BY <1>3, <2>1 DEF Carries
<1>4. CASE Call(p)
  <2>1. poll'[p].at = poll[p].at /\ poll'[p].task = poll[p].task /\ poll'[p].todo = poll[p].todo
    BY <1>4 DEF Call, DeliveryTypeOK
  <2> QED
    BY <2>1 DEF Carries, ShowingsInv
<1>5. CASE poll'[p] = Ended
  BY <1>5 DEF Ended, Carries
<1>6. ASSUME NEW place \in Places \ {"write"}, Goto(p, place)
      PROVE  /\ poll'[p].at # "write"
             /\ \A u \in Sends : Carries(poll'[p], u) => Carries(poll[p], u)
  <2>1. poll'[p].at = place /\ poll'[p].todo = poll[p].todo
    BY <1>6 DEF Goto, DeliveryTypeOK
  <2> QED
    BY <1>6, <2>1 DEF Carries
<1>7. CASE Take(p)
  <2>1. Abort(p) => poll'[p] = Ended
    BY DEF Abort, DeliveryTypeOK
  <2> QED
    BY <1>3, <1>5, <1>7, <2>1 DEF Take
<1> QED
  BY <1>1, <1>2, <1>4, <1>5, <1>6, <1>7, RunSteps

\* A showing is paid for by a hand-out: the run that writes carries the task no more.
LEMMA ShowingsStep ==
  ASSUME IsFiniteSet(Polls), TypeOK, AgentInv, ShowingsInv, [DeliveryNext]_deliveryVars
  PROVE  ShowingsInv'
<1> USE DEF AgentInv
<1>1. [Next]_vars
  BY QueueStep
<1>2. ASSUME NEW t \in Sends
      PROVE  (timeline[t] + Cardinality(Carriers(t)) <= attempts[t])'
  <2> DEFINE now == Carriers(t)
             next == {p \in Polls : Carries(poll'[p], t)}
  <2>1. /\ now \subseteq Polls /\ IsFiniteSet(now) /\ Cardinality(now) \in Nat
        /\ next \subseteq Polls /\ IsFiniteSet(next) /\ Cardinality(next) \in Nat
    BY FS_Subset, FS_CardinalityType DEF Carriers
  <2>2. timeline[t] + Cardinality(now) <= attempts[t]
    BY DEF ShowingsInv
  <2>3. /\ timeline[t] \in Nat /\ attempts[t] \in Nat /\ attempts'[t] \in Nat
        /\ attempts'[t] >= attempts[t]
    BY <1>1, AttemptsGrow, TypeStep DEF TypeOK, DeliveryTypeOK
  <2>4. \A p \in Polls : ~StartPoll(p) => (p \in next => p \in now)
    BY CarriersShrink DEF Carriers
  <2>5. ASSUME NEW p \in Polls, Write(p), poll[p].task = t
        PROVE  timeline'[t] + Cardinality(next) <= attempts'[t]
    <3>1. timeline'[t] = timeline[t] + 1
      BY <2>5 DEF Write, DeliveryTypeOK
    <3>2. poll[p].at = "write" /\ poll[p].task \notin poll[p].todo
      BY <2>5 DEF Write, At, ShowingsInv
    <3>3. PICK place \in {"receipt", "record"} : Goto(p, place)
      BY <2>5 DEF Write
    <3>4. poll'[p].at = place /\ poll'[p].todo = poll[p].todo
      BY <3>3 DEF Goto, DeliveryTypeOK
    <3>5. p \in now /\ p \notin next
      BY <2>5, <3>2, <3>4 DEF Carries, Carriers
    <3>6. \A q \in Polls : ~StartPoll(q)
      BY <3>1, <2>3 DEF StartPoll
    <3>7. next \subseteq now \ {p}
      BY <2>1, <2>4, <3>5, <3>6
    <3>8. IsFiniteSet(now \ {p}) /\ Cardinality(now \ {p}) = Cardinality(now) - 1
      BY <2>1, <3>5, FS_RemoveElement
    <3>9. Cardinality(next) <= Cardinality(now) - 1
      BY <3>7, <3>8, FS_Subset
    <3> HIDE DEF now, next
    <3> QED
      BY <2>1, <2>2, <2>3, <3>1, <3>9
  <2>6. ASSUME NEW p \in Polls, StartPoll(p)
        PROVE  timeline'[t] + Cardinality(next) <= attempts'[t]
    <3>1. timeline' = timeline
      BY <2>6 DEF StartPoll
    <3>2. PICK place \in {"ended", "next"}, items \in {{}, {u \in Sends : attempts'[u] > attempts[u]}} :
            poll' = [poll EXCEPT ![p].at = place, ![p].todo = items]
      BY <2>6 DEF StartPoll
    <3>3. \A q \in Polls \ {p} : poll'[q] = poll[q]
      BY <3>2 DEF DeliveryTypeOK
    <3>4. next \subseteq now \cup {p}
      <4>1. \A q \in Polls \ {p} : Carries(poll'[q], t) => Carries(poll[q], t)
        BY <3>3
      <4> QED
        BY <4>1 DEF Carriers
    <3>5. CASE p \in next
      <4>1. poll'[p].todo = items /\ poll'[p].at = place
        BY <3>2 DEF DeliveryTypeOK
      <4>2. attempts'[t] > attempts[t]
        BY <3>2, <3>5, <4>1 DEF Carries
      <4> HIDE DEF now, next
      <4>3. /\ IsFiniteSet(now \cup {p})
            /\ Cardinality(now \cup {p}) = IF p \in now THEN Cardinality(now)
                                                        ELSE Cardinality(now) + 1
        BY <2>1, FS_AddElement
      <4>4. IsFiniteSet(now \cup {p}) /\ Cardinality(now \cup {p}) <= Cardinality(now) + 1
        BY <2>1, <4>3
      <4>5. Cardinality(next) <= Cardinality(now \cup {p}) /\ Cardinality(now \cup {p}) \in Nat
        BY <3>4, <4>4, FS_Subset, FS_CardinalityType
      <4> QED
        BY <2>1, <2>2, <2>3, <3>1, <4>2, <4>4, <4>5
    <3>6. CASE p \notin next
      <4>1. Cardinality(next) <= Cardinality(now)
        BY <2>1, <3>4, <3>6, FS_Subset
      <4> HIDE DEF now, next
      <4> QED
        BY <2>1, <2>2, <2>3, <3>1, <4>1
    <3> QED
      BY <3>5, <3>6
  <2>7. ASSUME \A p \in Polls : ~StartPoll(p) /\ ~(Write(p) /\ poll[p].task = t)
        PROVE  timeline'[t] + Cardinality(next) <= attempts'[t]
    <3>1. timeline'[t] = timeline[t]
      BY <2>7, TablesChange DEF Write, Record, GiveUp, DeliveryTypeOK, PollInv, At
    <3>2. Cardinality(next) <= Cardinality(now)
      BY <2>1, <2>4, <2>7, FS_Subset
    <3> HIDE DEF now, next
    <3> QED
      BY <2>1, <2>2, <2>3, <3>1, <3>2
  <2>8. timeline'[t] + Cardinality(next) <= attempts'[t]
    BY <2>5, <2>6, <2>7
  <2> QED
    BY <2>8 DEF Carriers
<1>3. ASSUME NEW p \in Polls
      PROVE  (poll[p].at = "write" => poll[p].task \notin poll[p].todo)'
  BY CarriersShrink
<1> QED
  BY <1>2, <1>3 DEF ShowingsInv

-----------------------------------------------------------------------------
(* Theorems *)

\* The agent's invariant, with the queue's type invariant it rests on.
THEOREM AgentInvariance == DeliverySpec => [](TypeOK /\ AgentInv)
<1>1. DeliveryInit => TypeOK /\ AgentInv
  <2> SUFFICES ASSUME DeliveryInit PROVE TypeOK /\ AgentInv
    OBVIOUS
  <2>1. TypeOK
    BY QueueConstants DEF DeliveryInit, Init, TypeOK
  <2>2. DeliveryTypeOK
    BY DEF DeliveryInit, DeliveryTypeOK, Ended, Places
  <2>3. PollInv /\ LedgerInv /\ AckedIsRecorded /\ StoredIsAccountedFor
    BY DEF DeliveryInit, Init, PollInv, LedgerInv, AckedIsRecorded, StoredIsAccountedFor, Ended
  <2>4. CallInv /\ HandledInv
    BY DeliveryConstants DEF DeliveryInit, Init, CallInv, HandledInv, Ended, Idle
  <2> QED
    BY <2>1, <2>2, <2>3, <2>4 DEF AgentInv
<1>2. TypeOK /\ AgentInv /\ [DeliveryNext]_deliveryVars => (TypeOK /\ AgentInv)'
  BY AgentStepKeeps, QueueStep, TypeStep DEF AgentInv
<1> QED
  BY <1>1, <1>2, PTL DEF DeliverySpec

\* The agent and the control plane together behave as the queue does: whatever
\* RelayQueueProofs proves of Spec holds with the agent on top.
THEOREM UsesQueue == DeliverySpec => Spec
<1>1. DeliveryInit => Init
  BY DEF DeliveryInit
<1>2. TypeOK /\ AgentInv /\ [DeliveryNext]_deliveryVars => [Next]_vars
  BY QueueStep DEF AgentInv
<1> QED
  BY <1>1, <1>2, AgentInvariance, PTL DEF DeliverySpec, Spec

\* The agent's variables keep their types.
THEOREM DeliveryTypeCorrect == DeliverySpec => []DeliveryTypeOK
BY AgentInvariance, PTL DEF AgentInv

\* An acked message is on the receiver's ledger, whatever polls overlap, calls
\* time out or either side crashes.
THEOREM AckedRecorded == DeliverySpec => []AckedIsRecorded
BY AgentInvariance, PTL DEF AgentInv

\* 'stored' is never shown for a message that was neither written nor recorded
\* as failed.
THEOREM StoredAccounted == DeliverySpec => []StoredIsAccountedFor
BY AgentInvariance, PTL DEF AgentInv

\* An acked message was written or is on record as failed.
AckedIsAccountedFor ==
  \A t \in Sends : message[t] = "acked" => timeline[t] > 0 \/ ledger[t] = "failed"

\* What RelayDeliveryUnwritten finds is the one exception to "written before ack": a
\* dispatch that is recorded as failed; no crash, overlap or lost call makes another.
THEOREM AckedAccounted == DeliverySpec => []AckedIsAccountedFor
<1>1. AgentInv => AckedIsAccountedFor
  BY DEF AgentInv, DeliveryTypeOK, AckedIsRecorded, LedgerInv, AckedIsAccountedFor
<1> QED
  BY <1>1, AgentInvariance, PTL

\* No run turns over an outcome another one has recorded.
THEOREM OutcomeFinal == DeliverySpec => LedgerIsFinal
<1>1. TypeOK /\ AgentInv /\ [DeliveryNext]_deliveryVars =>
        [\A t \in Sends : ledger[t] # "none" => ledger'[t] = ledger[t]]_ledger
  BY TablesGrow DEF AgentInv
<1> QED
  BY <1>1, AgentInvariance, PTL DEF DeliverySpec, LedgerIsFinal

\* A message is shown at most once for every time the relay handed it out.
THEOREM ShownOncePerDelivery ==
  ASSUME IsFiniteSet(Polls)
  PROVE  DeliverySpec => []AtMostOncePerDelivery
<1>1. DeliveryInit => ShowingsInv
  <2> SUFFICES ASSUME DeliveryInit PROVE ShowingsInv
    OBVIOUS
  <2>1. \A t \in Sends : Carriers(t) = {}
    BY DEF DeliveryInit, Carriers, Carries, Ended
  <2>2. \A t \in Sends : timeline[t] = 0 /\ attempts[t] = 0
    BY DEF DeliveryInit, Init
  <2>3. \A p \in Polls : poll[p].at = "ended"
    BY DEF DeliveryInit, Ended
  <2>4. \A t \in Sends : timeline[t] + Cardinality(Carriers(t)) <= attempts[t]
    BY <2>1, <2>2, FS_EmptySet
  <2> QED
    BY <2>3, <2>4 DEF ShowingsInv
<1>2. TypeOK /\ AgentInv /\ ShowingsInv /\ [DeliveryNext]_deliveryVars => ShowingsInv'
  BY ShowingsStep
<1>3. TypeOK /\ AgentInv /\ ShowingsInv => AtMostOncePerDelivery
  <2> SUFFICES ASSUME TypeOK, AgentInv, ShowingsInv, NEW t \in Sends
               PROVE  timeline[t] <= attempts[t]
    BY DEF AtMostOncePerDelivery
  <2>1. Cardinality(Carriers(t)) \in Nat
    BY FS_Subset, FS_CardinalityType DEF Carriers
  <2>2. timeline[t] \in Nat /\ attempts[t] \in Nat
    BY DEF TypeOK, AgentInv, DeliveryTypeOK
  <2> QED
    BY <2>1, <2>2 DEF ShowingsInv
<1> QED
  BY <1>1, <1>2, <1>3, AgentInvariance, PTL DEF DeliverySpec
=============================================================================
