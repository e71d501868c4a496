--------------------------- MODULE RelayLifecycle ---------------------------
(***************************************************************************)
(* What the control plane promises a sender about a relay task, without    *)
(* the queue, the retries, the clock or the request handlers: a task is    *)
(* submitted at most once per idempotency key, is pending until the        *)
(* receiver holds it, may be held for as long as the owner takes, and once *)
(* it is done it stays done.                                               *)
(***************************************************************************)

CONSTANTS
  Tasks,   \* the relay tasks that may be submitted
  Keys,    \* idempotency keys
  KeyOf    \* the key of each task; a value outside Keys means "no key"

VARIABLE phase

\* The phases a task may be in after one step from phase p.
After(p) ==
  CASE p = "absent"  -> {"absent", "pending"}
    [] p = "pending" -> {"pending", "held", "done"}
    [] p = "held"    -> {"held", "done"}
    [] OTHER         -> {"done"}

Phases == {"absent", "pending", "held", "done"}

Unique(ph) ==
  \A s, t \in Tasks :
    /\ KeyOf[s] = KeyOf[t] /\ KeyOf[s] \in Keys
    /\ ph[s] # "absent" /\ ph[t] # "absent"
    => s = t

Init == phase = [t \in Tasks |-> "absent"]

\* One sweep of the queue may move several tasks in one step.
Next ==
  /\ phase' \in [Tasks -> Phases]
  /\ \A t \in Tasks : phase'[t] \in After(phase[t])
  /\ Unique(phase')

Spec == Init /\ [][Next]_phase
=============================================================================
