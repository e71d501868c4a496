---------------------------- MODULE VoiceCommand ----------------------------
(***************************************************************************)
(* Quick Voice on the requester's machine: the table voice_commands        *)
(* (src/voice/VoiceCommandService.ts), the executor of remote file         *)
(* requests (executeRemoteFileRequest in src/server.ts), and the relay     *)
(* tasks its requests leave at the control plane.                          *)
(*                                                                         *)
(* A confirm is synchronous up to the executor's first await.  A cancel is *)
(* one statement that looks at nothing, and what the executor returns is   *)
(* written whatever has become of the command meanwhile.                   *)
(***************************************************************************)
EXTENDS Naturals, FiniteSets

CONSTANTS
  Commands,    \* voice commands that may be created
  Missions,    \* a2a task ids, drawn anew by every execution
  NoMission,
  NoTask       \* relay_task_id is NULL

ASSUME VoiceConstants == NoMission \notin Missions

VARIABLES
  command,   \* the row of each command
  call,      \* its execution in flight
  stray,     \* sends nobody waits for that the control plane may still serve
  tasks      \* the relay tasks of type file.request

voiceVars == <<command, call, stray, tasks>>

\* 'confirmed' is only seen inside a confirm; 'refused' is 'failed' with an
\* error in the preview.
CommandStatus ==
  {"none", "preview_required", "refused", "submitted", "completed", "failed", "cancelled"}

NoCommand == [status |-> "none", remote |-> FALSE, mission |-> NoMission, task |-> NoTask]
NoCall == [at |-> "idle", mission |-> NoMission]

\* A task is known by the command and the execution its payload names.
Task == [command : Commands, mission : Missions]

\* idempotencyKey = `voice-${id}`: none of the repository's clients names another.
KeyOf_per_execution(t) == t.mission
KeyOf(t) == t.command

VoiceTypeOK ==
  /\ command \in [Commands -> [status : CommandStatus, remote : BOOLEAN,
                               mission : Missions \cup {NoMission},
                               task : Task \cup {NoTask}]]
  /\ call \in [Commands -> [at : {"idle", "resolving", "sending", "served"},
                            mission : Missions \cup {NoMission}]]
  /\ stray \subseteq Task
  /\ tasks \subseteq Task
  /\ \A c \in Commands :
       call[c].at \in {"sending", "served"} => call[c].mission \in Missions

VoiceInit ==
  /\ command = [c \in Commands |-> NoCommand]
  /\ call = [c \in Commands |-> NoCall]
  /\ stray = {}
  /\ tasks = {}

-----------------------------------------------------------------------------

\* The row is inserted after the parse and the directory lookup.
Create(c) ==
  /\ command[c].status = "none"
  /\ \/ command' = [command EXCEPT ![c].status = "refused"]
     \/ \E r \in BOOLEAN :
          command' = [command EXCEPT ![c].status = "preview_required", ![c].remote = r]
  /\ UNCHANGED <<call, stray, tasks>>

\* Any other status is answered with the record, or refused.
Confirmable(c) == command[c].status \in {"preview_required", "failed"}

Confirm(c) ==
  /\ Confirmable(c)
  /\ \/ /\ command[c].remote
        /\ command' = [command EXCEPT ![c].status = "submitted"]
        /\ call' = [call EXCEPT ![c] = [NoCall EXCEPT !.at = "resolving"]]
     \/ /\ ~command[c].remote
        /\ command' = [command EXCEPT ![c].status = "completed"]
        /\ UNCHANGED call
  /\ UNCHANGED <<stray, tasks>>

\* Whatever its status is.
Cancel(c) ==
  /\ command[c].status # "none"
  /\ command' = [command EXCEPT ![c].status = "cancelled"]
  /\ UNCHANGED <<call, stray, tasks>>

-----------------------------------------------------------------------------
(* executeRemoteFileRequest *)

\* What the executor returns, or throws, is written over the row.
Returns_going_on(c, s, m, t) ==
  /\ command' = [command EXCEPT ![c].status = s, ![c].mission = m, ![c].task = t]
  /\ call' = [call EXCEPT ![c].mission = NoMission]
Returns(c, s, m, t) ==
  /\ command' = [command EXCEPT ![c].status = s, ![c].mission = m, ![c].task = t]
  /\ call' = [call EXCEPT ![c] = NoCall]

\* Not enrolled, or the directory names no active agent.
Unresolved(c) ==
  /\ call[c].at = "resolving"
  /\ Returns(c, "failed", NoMission, NoTask)
  /\ UNCHANGED <<stray, tasks>>

\* The target is known: a new a2a task id, and the send.
Resolved(c) ==
  /\ call[c].at = "resolving"
  /\ \E m \in Missions :
       /\ \A t \in tasks \cup stray : t.mission # m
       /\ \A d \in Commands : call[d].mission # m /\ command[d].mission # m
       /\ call' = [call EXCEPT ![c] = [at |-> "sending", mission |-> m]]
  /\ UNCHANGED <<command, stray, tasks>>

Sending(c) == [command |-> c, mission |-> call[c].mission]

\* The relay knows the key, or inserts the task.
Insert(t) ==
  tasks' = IF \E u \in tasks : KeyOf(u) = KeyOf(t) THEN tasks ELSE tasks \cup {t}

Serve(c) ==
  /\ call[c].at = "sending"
  /\ Insert(Sending(c))
  /\ call' = [call EXCEPT ![c].at = "served"]
  /\ UNCHANGED <<command, stray>>

\* The relay answers with the task that has the key, which may be an earlier one.
Answered(c) ==
  /\ call[c].at = "served"
  /\ \E t \in tasks :
       /\ KeyOf(t) = KeyOf(Sending(c))
       /\ Returns(c, "submitted", call[c].mission, t)
  /\ UNCHANGED <<stray, tasks>>

\* Refused, lost, timed out, or the append after it throws.
Unanswered(c) ==
  /\ call[c].at \in {"sending", "served"}
  /\ Returns(c, "failed", NoMission, NoTask)
  /\ stray' \in IF call[c].at = "sending" THEN {stray, stray \cup {Sending(c)}} ELSE {stray}
  /\ UNCHANGED tasks

ServeLate(t) ==
  /\ t \in stray
  /\ Insert(t)
  /\ stray' = stray \ {t}
  /\ UNCHANGED <<command, call>>

\* The local agent stops: its executions are lost, its rows are not.
VoiceCrash ==
  LET sent == {Sending(c) : c \in {d \in Commands : call[d].at = "sending"}}
  IN /\ call' = [c \in Commands |-> NoCall]
     /\ \E lost \in SUBSET sent : stray' = stray \cup lost
     /\ UNCHANGED <<command, tasks>>

VoiceStep(c) ==
  \/ Create(c) \/ Confirm(c) \/ Cancel(c)
  \/ Unresolved(c) \/ Resolved(c) \/ Serve(c) \/ Answered(c) \/ Unanswered(c)

VoiceNext ==
  \/ \E c \in Commands : VoiceStep(c)
  \/ \E t \in stray : ServeLate(t)
  \/ VoiceCrash

VoiceSpec == VoiceInit /\ [][VoiceNext]_voiceVars

-----------------------------------------------------------------------------

\* However often a command is confirmed, and whatever answers are lost, served
\* late or cut off by a restart, the owner is asked once.
OneTaskPerCommand ==
  \A t, u \in tasks : t.command = u.command => t = u
=============================================================================
