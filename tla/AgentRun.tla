------------------------------ MODULE AgentRun -------------------------------
(***************************************************************************)
(* The agent's reasoning runs (src/agent-runs/AgentRunService.ts) over the *)
(* sandbox sessions they create and run commands in (SandboxSession).      *)
(*                                                                         *)
(* A run may probe a new session before its loop; only the loop races the  *)
(* timeout.  A loop that lost the race is not stopped: it goes on through  *)
(* its awaits and writes its answer over the failure.                      *)
(***************************************************************************)
EXTENDS SandboxSession, Naturals

CONSTANTS
  Runs,            \* runs that may be created
  CallOf,          \* the runCommand each run has under way
  ProbeCommands,   \* commands of createSandboxProbe (3: pwd, whoami, hostname)
  MaxIterations    \* AGENT_RUN_MAX_ITERATIONS

ASSUME RunConstants ==
  /\ CallOf \in [Runs -> Ops \ Timers]
  /\ ProbeCommands \in Nat \ {0} /\ MaxIterations \in Nat \ {0}

VARIABLES
  run,      \* the AgentRunResult: its status, sandboxSession.sessionId, iterations
  loop,     \* where its execution is, and the probe commands it has had answered
  runTimer  \* of withRunTimeout: "off" before the loop and after it won

runVars == <<run, loop, runTimer>>
agentVars == <<sandboxVars, runVars>>

NoRun == [status |-> "none", session |-> NoSession, iterations |-> 0]
NotRunning == [at |-> "idle", probed |-> 0]

AgentTypeOK ==
  /\ SandboxTypeOK
  /\ run \in [Runs -> [status : {"none", "running", "completed", "partial", "failed", "lost"},
                       session : Sessions \cup {NoSession}, iterations : 0 .. MaxIterations]]
  /\ loop \in [Runs -> [at : {"idle", "creating", "probing", "reasoning", "searching",
                              "commanding"},
                        probed : 0 .. ProbeCommands]]
  /\ runTimer \in [Runs -> {"off", "armed", "elapsed"}]

AgentInit ==
  /\ SandboxInit
  /\ run = [r \in Runs |-> NoRun]
  /\ loop = [r \in Runs |-> NotRunning]
  /\ runTimer = [r \in Runs |-> "off"]

-----------------------------------------------------------------------------

Goes(r, place) == loop' = [loop EXCEPT ![r] = [at |-> place, probed |-> 0]]

\* createSandboxProbe is awaited first, outside the timeout, if a session is asked for.
CreateRun(r) ==
  /\ run[r].status = "none"
  /\ run' = [run EXCEPT ![r].status = "running"]
  /\ \/ Goes(r, "creating") /\ UNCHANGED runTimer
     \/ Goes(r, "reasoning") /\ runTimer' = [runTimer EXCEPT ![r] = "armed"]
  /\ UNCHANGED sandboxVars

InLoop(r) == runTimer[r] # "off"

\* The loop has ended: its answer is written, also over a timeout's failure.
Answers_leaving_the_timer(r, status) ==
  /\ run' = [run EXCEPT ![r].status = status]
  /\ loop' = [loop EXCEPT ![r] = NotRunning]
  /\ UNCHANGED runTimer
Answers(r, status) ==
  /\ run' = [run EXCEPT ![r].status = status]
  /\ loop' = [loop EXCEPT ![r] = NotRunning]
  /\ runTimer' = [runTimer EXCEPT ![r] = "off"]

\* The loop throws, into executeRun's catch if the race is still open.
Throws(r) ==
  Answers(r, IF runTimer[r] = "armed" THEN "failed" ELSE run[r].status)

\* appendObservation, with the session the run has from now on; the for ends
\* after MaxIterations.
Observes(r, session) ==
  LET k == run[r].iterations + 1
      more == k < MaxIterations
  IN /\ run' = [run EXCEPT ![r] =
                  [status |-> IF more THEN @.status ELSE "partial",
                   session |-> session, iterations |-> k]]
     /\ Goes(r, IF more THEN "reasoning" ELSE "idle")
     /\ runTimer' = [runTimer EXCEPT ![r] = IF more THEN @ ELSE "off"]

\* The model answers; it may never do.
Decides(r) ==
  /\ loop[r].at = "reasoning"
  /\ \/ /\ \E s \in {"completed", "partial", "failed"} : Answers(r, s)
        /\ UNCHANGED sandboxVars
     \/ Throws(r) /\ UNCHANGED sandboxVars
     \/ /\ Goes(r, "searching")
        /\ UNCHANGED <<run, runTimer, sandboxVars>>
     \/ /\ run[r].session = NoSession
        /\ Goes(r, "creating")
        /\ UNCHANGED <<run, runTimer, sandboxVars>>
     \/ /\ run[r].session # NoSession
        /\ Queue(CallOf[r], run[r].session, "run")
        /\ Goes(r, "commanding")
        /\ UNCHANGED <<sandbox, cleanup, run, runTimer>>

\* A search or a host command is answered, blocked, or throws.
Searched(r) ==
  /\ loop[r].at = "searching"
  /\ Observes(r, run[r].session) \/ Throws(r)
  /\ UNCHANGED sandboxVars

\* runShellCommand throws when the session is gone, and then so does the loop.
Commanded(r) ==
  /\ loop[r].at = "commanding"
  /\ \/ op[CallOf[r]].at = "returned" /\ Observes(r, run[r].session)
     \/ op[CallOf[r]].at = "threw" /\ Throws(r)
  /\ UNCHANGED sandboxVars

-----------------------------------------------------------------------------
(* createSandboxProbe *)

\* The session is created and the first probe command queued.
Created(r) ==
  /\ loop[r].at = "creating"
  /\ \E s \in Sessions :
       /\ CreateSession(s)
       /\ run' = [run EXCEPT ![r].session = s]
  /\ Goes(r, "probing")
  /\ UNCHANGED runTimer

\* What follows the probe: the loop begins, or goes on with its command.
AfterProbe(r) ==
  \/ /\ ~InLoop(r)
     /\ runTimer' = [runTimer EXCEPT ![r] = "armed"]
     /\ Goes(r, "reasoning")
     /\ UNCHANGED <<op, lock>>
  \/ /\ InLoop(r)
     /\ Queue(CallOf[r], run[r].session, "run")
     /\ Goes(r, "commanding")
     /\ UNCHANGED runTimer

ProbeCommand(r) ==
  /\ loop[r].at = "probing"
  /\ loop[r].probed = 0 \/ op[CallOf[r]].at = "returned"
  /\ IF loop[r].probed < ProbeCommands
     THEN /\ Queue(CallOf[r], run[r].session, "run")
          /\ loop' = [loop EXCEPT ![r].probed = @ + 1]
          /\ UNCHANGED runTimer
     ELSE AfterProbe(r)
  /\ UNCHANGED <<sandbox, cleanup, run>>

\* No machine, or its session is gone before the last command: the run forgets the
\* session, which is left to its timer.
ProbeFails_at_creation(r) ==
  /\ loop[r].at = "creating"
  /\ \/ InLoop(r) /\ Observes(r, NoSession)
     \/ /\ ~InLoop(r)
        /\ run' = [run EXCEPT ![r].session = NoSession]
        /\ Goes(r, "reasoning")
        /\ runTimer' = [runTimer EXCEPT ![r] = "armed"]
  /\ UNCHANGED sandboxVars
ProbeFails(r) ==
  /\ \/ loop[r].at = "creating"
     \/ loop[r].at = "probing" /\ loop[r].probed > 0 /\ op[CallOf[r]].at = "threw"
  /\ \/ InLoop(r) /\ Observes(r, NoSession)
     \/ /\ ~InLoop(r)
        /\ run' = [run EXCEPT ![r].session = NoSession]
        /\ Goes(r, "reasoning")
        /\ runTimer' = [runTimer EXCEPT ![r] = "armed"]
  /\ UNCHANGED sandboxVars

-----------------------------------------------------------------------------

\* withRunTimeout rejects; the loop is not told.
TimesOut(r) ==
  /\ runTimer[r] = "armed"
  /\ runTimer' = [runTimer EXCEPT ![r] = "elapsed"]
  /\ run' = [run EXCEPT ![r].status = "failed"]
  /\ UNCHANGED <<loop, sandboxVars>>

\* Runs are in memory, as sessions are.
AgentStopsWithRuns ==
  /\ AgentStops
  /\ run' = [r \in Runs |->
              IF run[r].status = "none" THEN NoRun ELSE [NoRun EXCEPT !.status = "lost"]]
  /\ loop' = [r \in Runs |-> NotRunning]
  /\ runTimer' = [r \in Runs |-> "off"]

Probing(r) == Created(r) \/ ProbeCommand(r) \/ ProbeFails(r)

RunStep(r) ==
  CreateRun(r) \/ Decides(r) \/ Searched(r) \/ Commanded(r) \/ Probing(r) \/ TimesOut(r)

\* What users and timers do to sessions, and what becomes of any operation.
UsersOps == Ops \ (Timers \cup {CallOf[r] : r \in Runs})
Fires(s) == TtlFires(s) /\ UNCHANGED runVars
OpRuns(o) == OpStep(o) /\ UNCHANGED runVars

SandboxStep ==
  \/ \E s \in Sessions :
       \/ CreateSession(s) /\ UNCHANGED runVars
       \/ Fires(s)
       \/ \E o \in UsersOps, kind \in {"run", "close"} :
            Call(o, s, kind) /\ UNCHANGED runVars
  \/ \E o \in Ops : OpRuns(o)

AgentNext ==
  \/ SandboxStep
  \/ \E r \in Runs : RunStep(r)
  \/ AgentStopsWithRuns

AgentSpec == AgentInit /\ [][AgentNext]_agentVars

\* Timers fire, resolved promises are continued, a command is cut off by its
\* timeout, and starting or closing a machine succeeds or throws.  The model
\* need not answer, nor a search.
AgentFairness ==
  /\ \A o \in Ops : WF_agentVars(OpRuns(o))
  /\ \A s \in Sessions : WF_agentVars(Fires(s))
  /\ \A r \in Runs : WF_agentVars(Probing(r)) /\ WF_agentVars(TimesOut(r))
  /\ WF_agentVars(AgentStopsWithRuns)

-----------------------------------------------------------------------------

\* A run is settled by its loop or its timeout, although the probe before the loop
\* races no timeout: whatever else is queued for its session, it gets its turn.
EveryRunSettles ==
  \A r \in Runs : run[r].status = "running" ~> run[r].status # "running"

\* An answer stands; a failure is only overwritten by a loop that lost the race
\* against its timeout and is still going.
AnswerIsFinal ==
  [][\A r \in Runs :
       \/ run[r].status \in {"none", "running"}
       \/ run'[r].status \in {run[r].status, "lost"}
       \/ run[r].status = "failed" /\ loop[r].at # "idle"]_run
=============================================================================
