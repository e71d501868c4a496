------------------------- MODULE VoiceCommandProofs --------------------------
(***************************************************************************)
(* Theorems about VoiceCommand, for any number of commands and executions: *)
(* the types, that a command asks the owner once and only when confirmed,  *)
(* and that the task a command names is its own.                           *)
(***************************************************************************)
EXTENDS VoiceCommand, TLAPS

\* The steps of the commands, whose restart is the requester's.
CommandStep == (\E c \in Commands : VoiceStep(c)) \/ (\E t \in stray : ServeLate(t))

CommandInv == VoiceTypeOK /\ OneTaskPerCommand

CommandRow == [status : CommandStatus, remote : BOOLEAN, mission : Missions \cup {NoMission},
               task : Task \cup {NoTask}]

LEMMA SendingType ==
  ASSUME VoiceTypeOK, NEW c \in Commands, call[c].at \in {"sending", "served"}
  PROVE  Sending(c) \in Task
BY DEF VoiceTypeOK, Sending, Task

LEMMA ReturnsTypes ==
  ASSUME VoiceTypeOK, NEW c \in Commands, NEW s \in CommandStatus,
         NEW m \in Missions \cup {NoMission}, NEW t \in Task \cup {NoTask},
         Returns(c, s, m, t), stray' \subseteq Task, tasks' \subseteq Task
  PROVE  VoiceTypeOK'
<1>1. call' = [call EXCEPT ![c] = NoCall]
  BY DEF Returns
<1>2. NoCall \in [at : {"idle", "resolving", "sending", "served"},
                 mission : Missions \cup {NoMission}] /\ NoCall.at = "idle"
  BY DEF NoCall
<1>3. call' \in [Commands -> [at : {"idle", "resolving", "sending", "served"},
                             mission : Missions \cup {NoMission}]]
  BY <1>1, <1>2 DEF VoiceTypeOK
<1>4. \A d \in Commands :
        call'[d].at \in {"sending", "served"} => call'[d].mission \in Missions
  BY <1>1, <1>2 DEF VoiceTypeOK
<1>5. command' \in [Commands -> CommandRow]
  <2>1. command \in [Commands -> CommandRow]
    BY DEF VoiceTypeOK, CommandRow
  <2>2. [command[c] EXCEPT !.status = s, !.mission = m, !.task = t] \in CommandRow
    BY <2>1 DEF CommandRow
  <2>3. command' = [command EXCEPT ![c] = [command[c] EXCEPT !.status = s, !.mission = m,
                                                             !.task = t]]
    BY <2>1 DEF Returns
  <2> QED
    BY <2>1, <2>2, <2>3
<1> QED
  BY <1>3, <1>4, <1>5 DEF VoiceTypeOK, CommandRow

LEMMA VoiceStepTypes ==
  ASSUME VoiceTypeOK, NEW c \in Commands, VoiceStep(c)
  PROVE  VoiceTypeOK'
<1>0. stray \subseteq Task /\ tasks \subseteq Task
  BY DEF VoiceTypeOK
<1>s. call[c].at \in {"sending", "served"} => Sending(c) \in Task
  BY SendingType
<1>r. command \in [Commands -> CommandRow]
  BY DEF VoiceTypeOK, CommandRow
<1>m. ASSUME command' \in [Commands -> CommandRow], UNCHANGED <<call, stray, tasks>>
      PROVE  VoiceTypeOK'
  BY <1>m DEF VoiceTypeOK, CommandRow
<1>1. CASE Create(c)
  <2>1. ASSUME NEW s \in CommandStatus, command' = [command EXCEPT ![c].status = s]
        PROVE  command' \in [Commands -> CommandRow]
    BY <1>r, <2>1 DEF CommandRow
  <2>2. ASSUME NEW s \in CommandStatus, NEW r \in BOOLEAN,
               command' = [command EXCEPT ![c].status = s, ![c].remote = r]
        PROVE  command' \in [Commands -> CommandRow]
    BY <1>r, <2>2 DEF CommandRow
  <2>3. "refused" \in CommandStatus /\ "preview_required" \in CommandStatus
    BY DEF CommandStatus
  <2> QED
    BY <1>1, <1>m, <2>1, <2>2, <2>3 DEF Create
<1>2. CASE Confirm(c)
  <2>1. command' \in [Commands -> CommandRow]
    BY <1>r, <1>2 DEF Confirm, CommandRow, CommandStatus
  <2>2. CASE call' = [call EXCEPT ![c] = [NoCall EXCEPT !.at = "resolving"]]
    <3>1. [NoCall EXCEPT !.at = "resolving"] = [at |-> "resolving", mission |-> NoMission]
      BY DEF NoCall
    <3> QED
      BY <1>2, <2>1, <2>2, <3>1 DEF Confirm, VoiceTypeOK, CommandRow
  <2>3. CASE UNCHANGED call
    BY <1>2, <1>m, <2>1, <2>3 DEF Confirm
  <2> QED
    BY <1>2, <2>2, <2>3 DEF Confirm
<1>3. CASE Cancel(c)
  BY <1>3 DEF VoiceTypeOK, Cancel, CommandStatus
<1>4. CASE Unresolved(c)
  BY <1>0, <1>4, ReturnsTypes DEF Unresolved, CommandStatus
<1>5. CASE Resolved(c)
  BY <1>5 DEF VoiceTypeOK, Resolved
<1>6. CASE Serve(c)
  <2>1. tasks' \subseteq Task
    BY <1>0, <1>s, <1>6 DEF Serve, Insert
  <2> QED
    BY <1>6, <2>1 DEF VoiceTypeOK, Serve
<1>7. CASE Answered(c)
  <2>1. PICK t \in tasks : Returns(c, "submitted", call[c].mission, t)
    BY <1>7 DEF Answered
  <2>2. call[c].mission \in Missions \cup {NoMission} /\ t \in Task
    BY <1>0 DEF VoiceTypeOK
  <2> QED
    BY <1>0, <1>7, <2>1, <2>2, ReturnsTypes DEF Answered, CommandStatus
<1>8. CASE Unanswered(c)
  <2>1. stray' \subseteq Task
    BY <1>0, <1>s, <1>8 DEF Unanswered
  <2> QED
    BY <1>0, <1>8, <2>1, ReturnsTypes DEF Unanswered, CommandStatus
<1> QED
  BY <1>1, <1>2, <1>3, <1>4, <1>5, <1>6, <1>7, <1>8 DEF VoiceStep

\* A task that is inserted keeps every task there is, and the keys distinct.
LEMMA InsertKeeps ==
  ASSUME OneTaskPerCommand, NEW t, Insert(t)
  PROVE  /\ OneTaskPerCommand'
         /\ tasks \subseteq tasks'
         /\ \A u \in tasks' : u \in tasks \/ u = t
BY DEF OneTaskPerCommand, Insert, KeyOf

\* Every step of the commands, in terms of the tasks.
TasksMove == UNCHANGED tasks \/ \E t \in Task : Insert(t)

LEMMA CommandStepInvariance ==
  ASSUME CommandInv, CommandStep
  PROVE  CommandInv' /\ TasksMove
<1>1. ASSUME NEW c \in Commands, VoiceStep(c) PROVE VoiceTypeOK' /\ TasksMove
  <2>1. VoiceTypeOK'
    BY <1>1, VoiceStepTypes DEF CommandInv
  <2>2. CASE Serve(c)
    <3>1. call[c].at = "sending" /\ Insert(Sending(c))
      BY <2>2 DEF Serve
    <3>2. Sending(c) \in Task
      BY <3>1, SendingType DEF CommandInv
    <3> QED
      BY <2>1, <3>1, <3>2 DEF TasksMove
  <2>3. CASE ~Serve(c)
    <3>1. UNCHANGED tasks
      BY <1>1, <2>3 DEF VoiceStep, Create, Confirm, Cancel, Unresolved, Resolved, Answered,
                        Unanswered
    <3> QED
      BY <2>1, <3>1 DEF TasksMove
  <2> QED
    BY <2>1, <2>2, <2>3
<1>2. ASSUME NEW t \in stray, ServeLate(t) PROVE VoiceTypeOK' /\ TasksMove
  <2>1. t \in Task /\ stray \subseteq Task /\ tasks \subseteq Task
    BY DEF CommandInv, VoiceTypeOK
  <2>2. tasks' \subseteq Task /\ stray' \subseteq Task
    BY <1>2, <2>1 DEF ServeLate, Insert
  <2> QED
    BY <1>2, <2>1, <2>2 DEF CommandInv, VoiceTypeOK, ServeLate, TasksMove
<1>3. VoiceTypeOK' /\ TasksMove
  BY <1>1, <1>2 DEF CommandStep
<1>4. OneTaskPerCommand'
  BY <1>3, InsertKeeps DEF TasksMove, CommandInv, OneTaskPerCommand
<1> QED
  BY <1>3, <1>4 DEF CommandInv

LEMMA VoiceCrashInvariance ==
  ASSUME CommandInv, VoiceCrash PROVE CommandInv'
<1> DEFINE sent == {Sending(c) : c \in {d \in Commands : call[d].at = "sending"}}
<1>1. sent \subseteq Task
  BY SendingType DEF CommandInv
<1>2. stray' \subseteq Task
  BY <1>1 DEF VoiceCrash, CommandInv, VoiceTypeOK
<1> QED
  BY <1>2 DEF VoiceCrash, CommandInv, VoiceTypeOK, OneTaskPerCommand, NoCall

LEMMA CommandInitInv == VoiceInit => CommandInv
BY DEF VoiceInit, CommandInv, VoiceTypeOK, NoCommand, NoCall, CommandStatus, OneTaskPerCommand

-----------------------------------------------------------------------------
(* Commands by themselves *)

\* Statuses from which nothing has been executed.
Unconfirmed == {"none", "preview_required", "refused"}

\* Nobody is asked for a command still in its preview, or refused: an execution, a
\* send still on its way and a task at the relay all belong to a remote one past it.
AskedOnlyPastPreview ==
  /\ \A t \in tasks \cup stray :
       command[t.command].remote /\ command[t.command].status \notin Unconfirmed
  /\ \A c \in Commands : call[c].at # "idle" =>
       command[c].remote /\ command[c].status \notin Unconfirmed

\* The relay task a command names is at the relay, and the command's own.
NamesOwnTask ==
  \A c \in Commands : command[c].task # NoTask =>
    command[c].task \in tasks /\ command[c].task.command = c

VoiceInv == CommandInv /\ AskedOnlyPastPreview /\ NamesOwnTask

PastPreview(c) == command[c].remote /\ command[c].status \notin Unconfirmed

\* What an execution returns is in the row of its command, and in no other.
LEMMA ReturnsRow ==
  ASSUME VoiceTypeOK, NEW c \in Commands, NEW s, NEW m, NEW t, Returns(c, s, m, t)
  PROVE  /\ command'[c].status = s /\ command'[c].task = t
         /\ command'[c].remote = command[c].remote
         /\ \A d \in Commands : d # c => command'[d] = command[d]
<1>1. command \in [Commands -> CommandRow]
  BY DEF VoiceTypeOK, CommandRow
<1>2. command' = [command EXCEPT ![c] = [command[c] EXCEPT !.status = s, !.mission = m,
                                                           !.task = t]]
  BY <1>1 DEF Returns
<1>3. command'[c] = [command[c] EXCEPT !.status = s, !.mission = m, !.task = t]
  BY <1>1, <1>2
<1>4. command[c] \in CommandRow
  BY <1>1
<1> QED
  BY <1>1, <1>2, <1>3, <1>4 DEF CommandRow

\* No step takes a confirmation back: a cancel, a failure and a second confirm
\* all leave a status only a confirmed command has.
LEMMA StaysConfirmed ==
  ASSUME VoiceTypeOK, VoiceNext, NEW c \in Commands, PastPreview(c)
  PROVE  PastPreview(c)'
<1> USE DEF VoiceTypeOK, PastPreview, Unconfirmed, CommandStatus
<1>1. ASSUME NEW d \in Commands, Create(d) PROVE PastPreview(c)'
  BY <1>1 DEF Create
<1>2. ASSUME NEW d \in Commands, Confirm(d) PROVE PastPreview(c)'
  BY <1>2 DEF Confirm
<1>3. ASSUME NEW d \in Commands, Cancel(d) PROVE PastPreview(c)'
  BY <1>3 DEF Cancel
<1>4. ASSUME NEW d \in Commands, Unresolved(d) \/ Answered(d) \/ Unanswered(d)
      PROVE  PastPreview(c)'
  <2>1. PICK s, m, t : s \in {"failed", "submitted"} /\ Returns(d, s, m, t)
    BY <1>4 DEF Unresolved, Answered, Unanswered
  <2>2. \A e \in Commands : command'[e].remote = command[e].remote
                            /\ command'[e].status \in {command[e].status, s}
    BY <2>1, ReturnsRow
  <2> QED
    BY <2>1, <2>2
<1> QED
  BY <1>1, <1>2, <1>3, <1>4
  DEF VoiceNext, VoiceStep, Resolved, Serve, ServeLate, VoiceCrash

\* What is at the relay, or on its way there, was so before or is being sent.
LEMMA SendsOnly ==
  ASSUME VoiceTypeOK, VoiceNext, NEW t \in tasks' \cup stray'
  PROVE  \/ t \in tasks \cup stray
         \/ \E c \in Commands : call[c].at = "sending" /\ t = Sending(c)
<1>1. ASSUME NEW c \in Commands, VoiceStep(c)
      PROVE  \/ t \in tasks \cup stray
             \/ call[c].at = "sending" /\ t = Sending(c)
  BY <1>1 DEF VoiceStep, Create, Confirm, Cancel, Unresolved, Resolved, Serve, Answered,
              Unanswered, Insert
<1>2. ASSUME NEW u \in stray, ServeLate(u) PROVE t \in tasks \cup stray
  BY <1>2 DEF ServeLate, Insert
<1>3. ASSUME VoiceCrash
      PROVE  \/ t \in tasks \cup stray
             \/ \E c \in Commands : call[c].at = "sending" /\ t = Sending(c)
  BY <1>3 DEF VoiceCrash
<1> QED
  BY <1>1, <1>2, <1>3 DEF VoiceNext

\* An execution under way was so before, or is what a confirm has just begun.
LEMMA RunsOnly ==
  ASSUME VoiceTypeOK, VoiceNext, NEW c \in Commands, call'[c].at # "idle"
  PROVE  call[c].at # "idle" \/ Confirm(c)
<1> USE DEF VoiceTypeOK, NoCall
<1>1. ASSUME NEW d \in Commands, Confirm(d) PROVE call[c].at # "idle" \/ Confirm(c)
  BY <1>1 DEF Confirm
<1>2. ASSUME NEW d \in Commands, Unresolved(d) \/ Answered(d) \/ Unanswered(d)
      PROVE  call[c].at # "idle"
  BY <1>2 DEF Unresolved, Answered, Unanswered, Returns
<1>3. ASSUME NEW d \in Commands, Resolved(d) \/ Serve(d) PROVE call[c].at # "idle"
  BY <1>3 DEF Resolved, Serve
<1>4. ASSUME VoiceCrash PROVE call[c].at # "idle"
  BY <1>4 DEF VoiceCrash
<1>5. ASSUME UNCHANGED call PROVE call[c].at # "idle"
  BY <1>5
<1>6. ASSUME NEW d \in Commands, VoiceStep(d) PROVE call[c].at # "idle" \/ Confirm(c)
  BY <1>1, <1>2, <1>3, <1>5, <1>6 DEF VoiceStep, Create, Cancel
<1> QED
  BY <1>4, <1>5, <1>6 DEF VoiceNext, ServeLate

LEMMA AskedStep ==
  ASSUME VoiceTypeOK, AskedOnlyPastPreview, VoiceNext
  PROVE  AskedOnlyPastPreview'
<1>1. ASSUME NEW c \in Commands, call[c].at # "idle" PROVE PastPreview(c)'
  BY <1>1, StaysConfirmed DEF AskedOnlyPastPreview, PastPreview
<1>2. ASSUME NEW t \in tasks' \cup stray' PROVE PastPreview(t.command)'
  <2>1. CASE t \in tasks \cup stray
    <3>1. t.command \in Commands /\ PastPreview(t.command)
      BY <2>1 DEF VoiceTypeOK, Task, AskedOnlyPastPreview, PastPreview
    <3>2. PICK c \in Commands : c = t.command
      BY <3>1
    <3>3. PastPreview(c)'
      BY <3>1, <3>2, StaysConfirmed
    <3> QED
      BY <3>2, <3>3
  <2>2. ASSUME NEW c \in Commands, call[c].at = "sending", t = Sending(c)
        PROVE  PastPreview(t.command)'
    <3>1. t.command = c
      BY <2>2 DEF Sending
    <3> QED
      BY <1>1, <2>2, <3>1
  <2> QED
    BY <2>1, <2>2, SendsOnly
<1>3. ASSUME NEW c \in Commands, call'[c].at # "idle" PROVE PastPreview(c)'
  <2>1. ASSUME Confirm(c), call[c].at = "idle" PROVE PastPreview(c)'
    <3>1. command[c].remote /\ command' = [command EXCEPT ![c].status = "submitted"]
      BY <1>3, <2>1 DEF Confirm
    <3> QED
      BY <3>1 DEF PastPreview, Unconfirmed, VoiceTypeOK
  <2> QED
    BY <1>1, <1>3, <2>1, RunsOnly
<1> QED
  BY <1>2, <1>3 DEF AskedOnlyPastPreview, PastPreview

\* The task a command names came with the answer to its own key.
LEMMA NamesStep ==
  ASSUME VoiceTypeOK, NamesOwnTask, VoiceNext, tasks \subseteq tasks'
  PROVE  NamesOwnTask'
<1>0. ASSUME \A d \in Commands : command'[d].task = command[d].task PROVE NamesOwnTask'
  BY <1>0 DEF NamesOwnTask
<1>1. ASSUME NEW c \in Commands, Create(c) PROVE NamesOwnTask'
  BY <1>0, <1>1 DEF Create, VoiceTypeOK
<1>2. ASSUME NEW c \in Commands, Confirm(c) PROVE NamesOwnTask'
  BY <1>0, <1>2 DEF Confirm, VoiceTypeOK
<1>3. ASSUME NEW c \in Commands, Cancel(c) PROVE NamesOwnTask'
  BY <1>0, <1>3 DEF Cancel, VoiceTypeOK
<1>4. ASSUME NEW c \in Commands, Unresolved(c) \/ Unanswered(c) PROVE NamesOwnTask'
  <2>1. Returns(c, "failed", NoMission, NoTask)
    BY <1>4 DEF Unresolved, Unanswered
  <2>2. command'[c].task = NoTask /\ \A d \in Commands : d # c => command'[d] = command[d]
    BY <2>1, ReturnsRow
  <2> QED
    BY <2>2 DEF NamesOwnTask
<1>5. ASSUME NEW c \in Commands, Answered(c) PROVE NamesOwnTask'
  <2>1. PICK t \in tasks : t.command = c /\ Returns(c, "submitted", call[c].mission, t)
    BY <1>5 DEF Answered, KeyOf, Sending
  <2>2. command'[c].task = t /\ \A d \in Commands : d # c => command'[d] = command[d]
    BY <2>1, ReturnsRow
  <2> QED
    BY <2>1, <2>2 DEF NamesOwnTask
<1> QED
  BY <1>0, <1>1, <1>2, <1>3, <1>4, <1>5
  DEF VoiceNext, VoiceStep, Resolved, Serve, ServeLate, VoiceCrash

\* The inductive invariant of the commands holds in every reachable state.
THEOREM VoiceInvariance == VoiceSpec => []VoiceInv
<1>1. VoiceInit => VoiceInv
  BY CommandInitInv DEF VoiceInv, VoiceInit, AskedOnlyPastPreview, NamesOwnTask, NoCommand, NoCall
<1>2. ASSUME VoiceInv, VoiceNext PROVE VoiceInv'
  <2>1. CommandInv' /\ tasks \subseteq tasks'
    <3>1. CASE CommandStep
      BY <1>2, <3>1, CommandStepInvariance, InsertKeeps DEF VoiceInv, CommandInv, TasksMove
    <3>2. CASE VoiceCrash
      BY <1>2, <3>2, VoiceCrashInvariance DEF VoiceInv, VoiceCrash
    <3> QED
      BY <1>2, <3>1, <3>2 DEF VoiceNext, CommandStep
  <2> QED
    BY <1>2, <2>1, AskedStep, NamesStep DEF VoiceInv, CommandInv
<1>3. VoiceInv /\ UNCHANGED voiceVars => VoiceInv'
  BY DEF VoiceInv, CommandInv, VoiceTypeOK, OneTaskPerCommand, AskedOnlyPastPreview,
         NamesOwnTask, voiceVars
<1> QED
  BY <1>1, <1>2, <1>3, PTL DEF VoiceSpec

\* Rows, executions, sends and tasks keep their types.
THEOREM VoiceTypeCorrect == VoiceSpec => []VoiceTypeOK
BY VoiceInvariance, PTL DEF VoiceInv, CommandInv

\* A command asks its owner at most once, whatever is repeated, lost, late or cut
\* off by a restart: the idempotency key names the command and no execution of it.
THEOREM VoiceAsksOnce == VoiceSpec => []OneTaskPerCommand
BY VoiceInvariance, PTL DEF VoiceInv, CommandInv

\* A file request enters the relay only for a command past its preview
\* (docs/voice-command-api.md:28), even as a stray that is served when the
\* command has long failed, been cancelled or been confirmed again.
THEOREM OnlyConfirmedAsk == VoiceSpec => []AskedOnlyPastPreview
BY VoiceInvariance, PTL DEF VoiceInv

\* The relay_task_id a row carries is a task at the relay that bears this command's
\* key, although the answer may be to an execution an earlier confirm began.
THEOREM TasksNamedAreOwn == VoiceSpec => []NamesOwnTask
BY VoiceInvariance, PTL DEF VoiceInv

\* A command that has no execution and never had one that sent.
Silent(c) == call[c].at = "idle" /\ \A t \in tasks \cup stray : t.command # c

\* A cancel before anything was sent is the end of it.
CancelledInPreview ==
  [][\A c \in Commands : Silent(c) /\ command[c].status = "cancelled" =>
       Silent(c)' /\ command'[c].status = "cancelled"]_voiceVars

\* There are two ways out of a preview.  Past a confirm a cancel may come too late
\* (VoiceCommandService.ts:209); a command cancelled before its owner was asked is never
\* asked for, nor confirmed, afterwards.
THEOREM CancelEnds == VoiceSpec => CancelledInPreview
<1>1. ASSUME VoiceTypeOK, VoiceNext, NEW c \in Commands, Silent(c),
             command[c].status = "cancelled"
      PROVE  Silent(c)' /\ command'[c].status = "cancelled"
  <2> USE <1>1
  <2>1. ~Confirmable(c)
    BY DEF Confirmable
  <2>2. call'[c].at = "idle"
    BY <2>1, RunsOnly DEF Silent, Confirm
  <2>3. Silent(c)'
    BY <2>2, SendsOnly DEF Silent, Sending
  <2>4. command'[c].status = "cancelled"
    <3>1. ASSUME NEW d \in Commands, Unresolved(d) \/ Answered(d) \/ Unanswered(d)
          PROVE  command'[c] = command[c]
      <4>1. d # c
        BY <3>1 DEF Silent, Unresolved, Answered, Unanswered
      <4>2. PICK s, m, t : Returns(d, s, m, t)
        BY <3>1 DEF Unresolved, Answered, Unanswered
      <4> QED
        BY <4>1, <4>2, ReturnsRow
    <3>2. ASSUME NEW d \in Commands, Create(d) \/ Confirm(d) \/ Cancel(d)
          PROVE  command'[c].status = "cancelled"
      BY <2>1, <3>2 DEF Create, Confirm, Cancel, VoiceTypeOK
    <3> QED
      BY <3>1, <3>2 DEF VoiceNext, VoiceStep, Resolved, Serve, ServeLate, VoiceCrash
  <2> QED
    BY <2>3, <2>4
<1>2. VoiceTypeOK /\ [VoiceNext]_voiceVars =>
        [\A c \in Commands : Silent(c) /\ command[c].status = "cancelled" =>
           Silent(c)' /\ command'[c].status = "cancelled"]_voiceVars
  BY <1>1
<1> QED
  BY <1>2, VoiceTypeCorrect, PTL DEF VoiceSpec, CancelledInPreview
=============================================================================
