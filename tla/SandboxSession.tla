--------------------------- MODULE SandboxSession ----------------------------
(***************************************************************************)
(* The local agent's virtual machines: the map of sessions, their cleanup  *)
(* timers, and the chain of promises that lets one operation at a time     *)
(* reach a machine (src/sandbox/SandboxSessionManager.ts).                 *)
(*                                                                         *)
(* sessionLocks holds the last promise of a session's chain.  An operation *)
(* awaits the promise it found there, and whoever ends takes the entry     *)
(* away if nobody has queued behind it.  Everything is in memory.          *)
(***************************************************************************)

CONSTANTS
  Sessions,   \* sessions that may be created
  Ops,        \* calls of runCommand and closeSession under way at a time
  TtlOf,      \* the closeSession each cleanup timer calls
  NoOp,
  NoSession

ASSUME SandboxConstants ==
  /\ NoOp \notin Ops
  /\ NoSession \notin Sessions
  /\ TtlOf \in [Sessions -> Ops]
  /\ \A s, t \in Sessions : TtlOf[s] = TtlOf[t] => s = t

VARIABLES
  sandbox,   \* each session: in the map or not, "broken" when closing it threw
  cleanup,   \* its cleanupTimer
  lock,      \* sessionLocks, by the operation the promise belongs to
  op         \* each call: its session, the promise it awaits, and where it is

sandboxVars == <<sandbox, cleanup, lock, op>>

InMap == {"open", "broken"}
Idle == [kind |-> "none", on |-> NoSession, after |-> NoOp, at |-> "idle"]

SandboxTypeOK ==
  /\ sandbox \in [Sessions -> {"none", "closed"} \cup InMap]
  /\ cleanup \in [Sessions -> {"off", "armed"}]
  /\ lock \in [Sessions -> Ops \cup {NoOp}]
  /\ op \in [Ops -> [kind : {"none", "run", "close"}, on : Sessions \cup {NoSession},
                     after : Ops \cup {NoOp},
                     at : {"idle", "waiting", "running", "returned", "threw"}]]

SandboxInit ==
  /\ sandbox = [s \in Sessions |-> "none"]
  /\ cleanup = [s \in Sessions |-> "off"]
  /\ lock = [s \in Sessions |-> NoOp]
  /\ op = [o \in Ops |-> Idle]

Active(o) == op[o].at \in {"waiting", "running"}
Timers == {TtlOf[s] : s \in Sessions}

-----------------------------------------------------------------------------

\* The machine has started: the session is entered and its timer set.
CreateSession(s) ==
  /\ sandbox[s] = "none"
  /\ sandbox' = [sandbox EXCEPT ![s] = "open"]
  /\ cleanup' = [cleanup EXCEPT ![s] = "armed"]
  /\ UNCHANGED <<lock, op>>

\* withSessionLock, up to its await.
Queue(o, s, kind) ==
  /\ ~Active(o)
  /\ op' = [op EXCEPT ![o] = [kind |-> kind, on |-> s, after |-> lock[s], at |-> "waiting"]]
  /\ lock' = [lock EXCEPT ![s] = o]

\* Of a session that was created, whatever has become of it.
Call(o, s, kind) ==
  /\ sandbox[s] # "none"
  /\ Queue(o, s, kind)
  /\ UNCHANGED <<sandbox, cleanup>>

TtlFires_unless_busy(s) ==
  /\ cleanup[s] = "armed"
  /\ cleanup' = [cleanup EXCEPT ![s] = "off"]
  /\ IF lock[s] = NoOp THEN Queue(TtlOf[s], s, "close") ELSE UNCHANGED <<op, lock>>
  /\ UNCHANGED sandbox
TtlFires(s) ==
  /\ cleanup[s] = "armed"
  /\ cleanup' = [cleanup EXCEPT ![s] = "off"]
  /\ Queue(TtlOf[s], s, "close")
  /\ UNCHANGED sandbox

AtItsTurn(o) == op[o].at = "waiting" /\ op[o].after = NoOp

\* The operation begins: a close stops the timer before it awaits the machine.
Enter(o) ==
  LET s == op[o].on
  IN /\ AtItsTurn(o)
     /\ sandbox[s] \in InMap
     /\ op' = [op EXCEPT ![o].at = "running"]
     /\ cleanup' = IF op[o].kind = "close" THEN [cleanup EXCEPT ![s] = "off"] ELSE cleanup
     /\ UNCHANGED <<sandbox, lock>>

\* Who the lock entry of o's session belongs to after o.
LockAfter_unconditionally(o) == [lock EXCEPT ![op[o].on] = NoOp]
LockAfter(o) == [lock EXCEPT ![op[o].on] = IF @ = o THEN NoOp ELSE @]

\* The finally: o's promise resolves, for whoever awaits it.
Released(o, result) ==
  [p \in Ops |->
     IF p = o THEN [Idle EXCEPT !.at = result]
     ELSE IF op[p].after = o THEN [op[p] EXCEPT !.after = NoOp]
     ELSE op[p]]

Ends(o, result) ==
  /\ op' = Released(o, result)
  /\ lock' = LockAfter(o)

\* getRecord throws: the session is not, or no longer, in the map.
Unknown(o) ==
  /\ AtItsTurn(o)
  /\ sandbox[op[o].on] \notin InMap
  /\ o \notin Timers
  /\ Ends(o, "threw")
  /\ UNCHANGED <<sandbox, cleanup>>

\* Blocked by the policy, or run by the machine; every run ends by its timeout.
CommandEnds(o) ==
  /\ op[o].at = "running" /\ op[o].kind = "run"
  /\ Ends(o, "returned")
  /\ UNCHANGED <<sandbox, cleanup>>

CloseEnds(o) ==
  /\ op[o].at = "running" /\ op[o].kind = "close"
  /\ sandbox' = [sandbox EXCEPT ![op[o].on] = "closed"]
  /\ Ends(o, "returned")
  /\ UNCHANGED cleanup

\* The machine cannot be closed: its session stays in the map, without a timer.
CloseThrows(o) ==
  /\ op[o].at = "running" /\ op[o].kind = "close"
  /\ o \notin Timers
  /\ sandbox' = [sandbox EXCEPT ![op[o].on] = "broken"]
  /\ Ends(o, "threw")
  /\ UNCHANGED cleanup

\* Nobody catches what a timer's closeSession throws, and the agent stops.
TimerThrows(s) ==
  LET o == TtlOf[s]
  IN \/ op[o].at = "running"
     \/ AtItsTurn(o) /\ sandbox[s] \notin InMap

AgentStops ==
  /\ \E s \in Sessions : TimerThrows(s)
  /\ sandbox' = [s \in Sessions |-> IF sandbox[s] \in InMap THEN "closed" ELSE sandbox[s]]
  /\ cleanup' = [s \in Sessions |-> "off"]
  /\ lock' = [s \in Sessions |-> NoOp]
  /\ op' = [o \in Ops |-> Idle]

OpStep(o) == Enter(o) \/ Unknown(o) \/ CommandEnds(o) \/ CloseEnds(o) \/ CloseThrows(o)

SandboxNext ==
  \/ \E s \in Sessions :
       \/ CreateSession(s) \/ TtlFires(s)
       \/ \E o \in Ops \ Timers, kind \in {"run", "close"} : Call(o, s, kind)
  \/ \E o \in Ops : OpStep(o)
  \/ AgentStops

SandboxSpec == SandboxInit /\ [][SandboxNext]_sandboxVars

-----------------------------------------------------------------------------

\* One operation at a time reaches a machine, however many are queued and however
\* they end; none reaches it once it is closed.
OneOperationAtATime ==
  \A o \in Ops :
    op[o].at = "running" =>
      /\ sandbox[op[o].on] \in InMap
      /\ \A p \in Ops : op[p].at = "running" /\ op[p].on = op[o].on => p = o

\* No session outlives its timer for ever, whatever is queued before the close;
\* it is closed, or the machine refused to.
EverySessionCloses ==
  \A s \in Sessions : sandbox[s] = "open" ~> sandbox[s] \in {"closed", "broken"}
=============================================================================
