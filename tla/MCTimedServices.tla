--------------------------- MODULE MCTimedServices ---------------------------
(***************************************************************************)
(* The services a timer drives, which do not meet, in one run: transfers   *)
(* and their sweep, sandbox sessions and the runs that use them, presence  *)
(* and its sweep.  Every behaviour is one of a single service, chosen at   *)
(* the start; the others do not begin.                                     *)
(***************************************************************************)
EXTENDS FileTransfer, AgentRun, Presence, TLC

CONSTANTS t1, t2, e1, e2, s1, s2, r1, o1, o2, o3, o4, h1, h2

\* The cleanup timers close with o1 and o2; o3 is the run's command, o4 a user's call.
TimersOps == s1 :> o1 @@ s2 :> o2
RunsCall == r1 :> o3

VARIABLE service

timedVars == <<service, vars, agentVars, presenceVars>>

TimedInit ==
  /\ service \in {"transfers", "runs", "presence"}
  /\ Init /\ AgentInit /\ PresenceInit

TimedNext ==
  /\ UNCHANGED service
  /\ \/ service = "transfers" /\ Next /\ UNCHANGED <<agentVars, presenceVars>>
     \/ service = "runs" /\ AgentNext /\ UNCHANGED <<vars, presenceVars>>
     \/ service = "presence" /\ PresenceNext /\ UNCHANGED <<vars, agentVars>>

\* Nothing that must happen is enabled in a service that has not begun.
TimedSpec ==
  /\ TimedInit /\ [][TimedNext]_timedVars
  /\ SweepFairness /\ AgentFairness /\ PresenceFairness

TimedTypeOK == TypeOK /\ AgentTypeOK /\ PresenceTypeOK
=============================================================================
