--------------------------- MODULE AgentRunProofs ----------------------------
(***************************************************************************)
(* Theorems about SandboxSession and AgentRun, for any number of sessions, *)
(* operations and runs: that the chain of promises lets one operation at a *)
(* time reach a machine and leaves nobody waiting for nothing, that a run  *)
(* uses the sessions as their other users do, that it is watched for as    *)
(* long as it runs, and that its answer is final.                          *)
(***************************************************************************)
EXTENDS AgentRun, WellFoundedInduction, TLAPS

(* The chain.  Every operation under way has the number it was queued with; *)
(* nothing in the code holds the numbers, they only exist.                  *)

Numbering == [Ops -> Nat]

\* A call that has been queued and has not ended.
Live(c) == c.at \in {"waiting", "running"}

\* The numbers of the operations under way are distinct and below the next one.
NumberedInv(rank, next) ==
  \A p \in Ops : Live(op[p]) =>
    /\ op[p].on \in Sessions
    /\ rank[p] < next
    /\ \A q \in Ops : Live(op[q]) /\ rank[p] = rank[q] => p = q

\* The lock entry of a session is of its latest operation.
LatestInv(rank) ==
  /\ \A s \in Sessions : lock[s] # NoOp => Live(op[lock[s]]) /\ op[lock[s]].on = s
  /\ \A p \in Ops : Live(op[p]) =>
       lock[op[p].on] \in Ops /\ rank[p] <= rank[lock[op[p].on]]

\* Whoever awaits a promise awaits its predecessor in its session.
AwaitsInv(rank) ==
  \A q \in Ops : Live(op[q]) =>
    /\ op[q].after \in Ops =>
         /\ Live(op[op[q].after]) /\ op[op[q].after].on = op[q].on
         /\ rank[op[q].after] < rank[q]
    /\ \A p \in Ops :
         Live(op[p]) /\ op[p].on = op[q].on /\ rank[p] < rank[q] =>
           op[q].after \in Ops /\ rank[p] <= rank[op[q].after]

\* Whoever runs awaits nobody, and its session is in the map.
RunningInv ==
  \A o \in Ops : op[o].at = "running" => op[o].after = NoOp /\ sandbox[op[o].on] \in InMap

Chained(rank, next) ==
  NumberedInv(rank, next) /\ LatestInv(rank) /\ AwaitsInv(rank) /\ RunningInv

ChainInv == \E rank \in Numbering, next \in Nat : Chained(rank, next)

SandboxInv == SandboxTypeOK /\ ChainInv

-----------------------------------------------------------------------------

LEMMA TimersAreOps == Timers \subseteq Ops
BY SandboxConstants DEF Timers

\* With such numbers, an operation that awaits nobody is the only one to do so.
LEMMA NobodyBefore ==
  ASSUME NEW rank \in Numbering, NEW next \in Nat, Chained(rank, next),
         NEW o \in Ops, Live(op[o]), op[o].after = NoOp,
         NEW p \in Ops \ {o}, Live(op[p]), op[p].on = op[o].on
  PROVE  rank[o] < rank[p]
<1>1. ~(rank[p] < rank[o])
  BY SandboxConstants DEF Chained, AwaitsInv
<1>2. rank[p] # rank[o]
  BY DEF Chained, NumberedInv
<1>3. rank[p] \in Nat /\ rank[o] \in Nat
  BY DEF Numbering
<1> QED
  BY <1>1, <1>2, <1>3

\* Steps in which no operation begins, ends or is queued.
LEMMA SameQueue ==
  ASSUME SandboxTypeOK, NEW rank \in Numbering, NEW next \in Nat, Chained(rank, next),
         UNCHANGED lock,
         \A p \in Ops : /\ op'[p].on = op[p].on /\ op'[p].after = op[p].after
                        /\ Live(op'[p]) <=> Live(op[p]),
         RunningInv'
  PROVE  Chained(rank, next)'
<1>1. NumberedInv(rank, next)'
  BY DEF Chained, NumberedInv
<1>2. LatestInv(rank)'
  <2>1. ASSUME NEW s \in Sessions, lock'[s] # NoOp
        PROVE  Live(op'[lock'[s]]) /\ op'[lock'[s]].on = s
    <3>1. lock[s] \in Ops /\ Live(op[lock[s]]) /\ op[lock[s]].on = s
      BY <2>1 DEF SandboxTypeOK, Chained, LatestInv
    <3> QED
      BY <3>1
  <2>2. ASSUME NEW p \in Ops, Live(op'[p])
        PROVE  lock'[op'[p].on] \in Ops /\ rank[p] <= rank[lock'[op'[p].on]]
    BY <2>2 DEF Chained, LatestInv
  <2> QED
    BY <2>1, <2>2 DEF LatestInv
<1>3. AwaitsInv(rank)'
  BY DEF Chained, AwaitsInv
<1> QED
  BY <1>1, <1>2, <1>3 DEF Chained

-----------------------------------------------------------------------------
(* An operation is queued *)

LEMMA QueueTypes ==
  ASSUME SandboxTypeOK, NEW o \in Ops, NEW s \in Sessions, NEW kind \in {"run", "close"},
         Queue(o, s, kind)
  PROVE  /\ lock' \in [Sessions -> Ops \cup {NoOp}]
         /\ op' \in [Ops -> [kind : {"none", "run", "close"}, on : Sessions \cup {NoSession},
                             after : Ops \cup {NoOp},
                             at : {"idle", "waiting", "running", "returned", "threw"}]]
<1>1. lock[s] \in Ops \cup {NoOp}
  BY DEF SandboxTypeOK
<1>2. op' = [op EXCEPT ![o] = [kind |-> kind, on |-> s, after |-> lock[s], at |-> "waiting"]]
  BY DEF Queue
<1>3. lock' = [lock EXCEPT ![s] = o]
  BY DEF Queue
<1> QED
  BY <1>1, <1>2, <1>3 DEF SandboxTypeOK

LEMMA QueueElements ==
  ASSUME SandboxTypeOK, NEW o \in Ops, NEW s \in Sessions, NEW kind \in {"run", "close"},
         Queue(o, s, kind)
  PROVE  /\ ~Live(op[o]) /\ Live(op'[o])
         /\ op'[o].on = s /\ op'[o].after = lock[s] /\ op'[o].at = "waiting"
         /\ \A p \in Ops \ {o} : op'[p] = op[p] /\ (Live(op'[p]) <=> Live(op[p]))
         /\ lock'[s] = o /\ \A t \in Sessions \ {s} : lock'[t] = lock[t]
BY DEF SandboxTypeOK, Queue, Active, Live

LEMMA QueueChained ==
  ASSUME SandboxTypeOK, NEW o \in Ops, NEW s \in Sessions, NEW kind \in {"run", "close"},
         Queue(o, s, kind),
         NEW rank \in Numbering, NEW next \in Nat, Chained(rank, next),
         NEW new \in Numbering, new = [rank EXCEPT ![o] = next],
         UNCHANGED sandbox
  PROVE  Chained(new, next + 1)'
<1>0. /\ ~Live(op[o]) /\ Live(op'[o])
      /\ op'[o].on = s /\ op'[o].after = lock[s] /\ op'[o].at = "waiting"
      /\ \A p \in Ops \ {o} : op'[p] = op[p] /\ (Live(op'[p]) <=> Live(op[p]))
      /\ lock'[s] = o /\ \A t \in Sessions \ {s} : lock'[t] = lock[t]
  BY QueueElements
<1>1. /\ new[o] = next
      /\ \A p \in Ops \ {o} : new[p] = rank[p]
      /\ \A p \in Ops : rank[p] \in Nat /\ new[p] \in Nat
  BY DEF Numbering
<1>2. \A p \in Ops : Live(op[p]) => op[p].on \in Sessions /\ rank[p] < next
  BY DEF Chained, NumberedInv
<1>3. NumberedInv(new, next + 1)'
  BY <1>0, <1>1, <1>2 DEF Chained, NumberedInv
<1>4. \A t \in Sessions : lock[t] # o
  BY <1>0, SandboxConstants DEF Chained, LatestInv
<1>5. LatestInv(new)'
  <2>1. ASSUME NEW t \in Sessions, lock'[t] # NoOp
        PROVE  Live(op'[lock'[t]]) /\ op'[lock'[t]].on = t
    <3>1. CASE t = s
      BY <1>0, <3>1
    <3>2. CASE t # s
      <4>1. lock'[t] = lock[t] /\ lock[t] \in Ops \ {o}
        BY <1>0, <1>4, <2>1, <3>2 DEF SandboxTypeOK
      <4> QED
        BY <1>0, <2>1, <4>1 DEF Chained, LatestInv
    <3> QED
      BY <3>1, <3>2
  <2>2. ASSUME NEW p \in Ops, Live(op'[p])
        PROVE  lock'[op'[p].on] \in Ops /\ new[p] <= new[lock'[op'[p].on]]
    <3>1. CASE p = o
      BY <1>0, <1>1, <3>1
    <3>2. CASE p # o /\ op[p].on = s
      BY <1>0, <1>1, <1>2, <2>2, <3>2
    <3>3. CASE p # o /\ op[p].on # s
      <4>1. Live(op[p]) /\ op[p].on \in Sessions \ {s} /\ op'[p] = op[p]
        BY <1>0, <1>2, <2>2, <3>3
      <4>2. lock[op[p].on] \in Ops \ {o} /\ rank[p] <= rank[lock[op[p].on]]
        BY <1>4, <4>1 DEF Chained, LatestInv
      <4> QED
        BY <1>0, <1>1, <3>3, <4>1, <4>2
    <3> QED
      BY <3>1, <3>2, <3>3
  <2> QED
    BY <2>1, <2>2 DEF LatestInv
<1>6. AwaitsInv(new)'
  <2> SUFFICES ASSUME NEW q \in Ops, Live(op'[q])
      PROVE  /\ op'[q].after \in Ops =>
                  /\ Live(op'[op'[q].after]) /\ op'[op'[q].after].on = op'[q].on
                  /\ new[op'[q].after] < new[q]
             /\ \A p \in Ops :
                  Live(op'[p]) /\ op'[p].on = op'[q].on /\ new[p] < new[q] =>
                    op'[q].after \in Ops /\ new[p] <= new[op'[q].after]
    BY DEF AwaitsInv
  <2>1. CASE q = o
    <3>1. ASSUME lock[s] \in Ops
          PROVE  /\ lock[s] \in Ops \ {o}
                 /\ Live(op[lock[s]]) /\ op[lock[s]].on = s /\ rank[lock[s]] < next
      BY <1>2, <1>4, <3>1, SandboxConstants DEF Chained, LatestInv
    <3>2. ASSUME NEW p \in Ops, Live(op'[p]), op'[p].on = s, new[p] < next
          PROVE  lock[s] \in Ops /\ rank[p] <= rank[lock[s]] /\ p # o
      BY <1>0, <1>1, <3>2 DEF Chained, LatestInv
    <3>3. op'[q].after = lock[s] /\ op'[q].on = s /\ new[q] = next
      BY <1>0, <1>1, <2>1
    <3>4. lock[s] \in Ops => /\ Live(op'[lock[s]]) /\ op'[lock[s]].on = s
                             /\ new[lock[s]] < next
      BY <1>0, <1>1, <3>1
    <3>5. \A p \in Ops : Live(op'[p]) /\ op'[p].on = s /\ new[p] < next =>
                           lock[s] \in Ops /\ new[p] <= new[lock[s]]
      BY <1>1, <3>1, <3>2
    <3> QED
      BY <3>3, <3>4, <3>5
  <2>2. CASE q # o
    <3>1. op'[q] = op[q] /\ Live(op[q]) /\ new[q] = rank[q] /\ rank[q] < next
      BY <1>0, <1>1, <1>2, <2>2
    <3>2. op[q].after \in Ops =>
            /\ op[q].after # o /\ Live(op[op[q].after]) /\ op[op[q].after].on = op[q].on
            /\ rank[op[q].after] < rank[q]
      BY <1>0, <3>1 DEF Chained, AwaitsInv
    <3>3. ASSUME NEW p \in Ops, Live(op'[p]), op'[p].on = op'[q].on, new[p] < new[q]
          PROVE  op[q].after \in Ops /\ rank[p] <= rank[op[q].after] /\ p # o
      <4>1. p # o
        BY <1>1, <3>1, <3>3
      <4> QED
        BY <1>0, <1>1, <3>1, <3>3, <4>1 DEF Chained, AwaitsInv
    <3> QED
      BY <1>0, <1>1, <3>1, <3>2, <3>3
  <2> QED
    BY <2>1, <2>2
<1>7. RunningInv'
  BY <1>0 DEF Chained, RunningInv
<1> QED
  BY <1>3, <1>5, <1>6, <1>7 DEF Chained

-----------------------------------------------------------------------------
(* An operation ends *)

LEMMA EndTypes ==
  ASSUME SandboxTypeOK, NEW o \in Ops, NEW result \in {"returned", "threw"}, Ends(o, result),
         op[o].on \in Sessions
  PROVE  /\ lock' \in [Sessions -> Ops \cup {NoOp}]
         /\ op' \in [Ops -> [kind : {"none", "run", "close"}, on : Sessions \cup {NoSession},
                             after : Ops \cup {NoOp},
                             at : {"idle", "waiting", "running", "returned", "threw"}]]
<1>1. lock' \in [Sessions -> Ops \cup {NoOp}]
  BY DEF SandboxTypeOK, Ends, LockAfter
<1>2. ASSUME NEW p \in Ops
      PROVE  Released(o, result)[p] \in
               [kind : {"none", "run", "close"}, on : Sessions \cup {NoSession},
                after : Ops \cup {NoOp},
                at : {"idle", "waiting", "running", "returned", "threw"}]
  BY DEF SandboxTypeOK, Released, Idle
<1>3. op' = [p \in Ops |-> Released(o, result)[p]]
  BY DEF Ends, Released
<1> QED
  BY <1>1, <1>2, <1>3

LEMMA EndElements ==
  ASSUME SandboxTypeOK, NEW o \in Ops, NEW result \in {"returned", "threw"}, Ends(o, result),
         op[o].on \in Sessions
  PROVE  /\ ~Live(op'[o]) /\ op'[o].at = result
         /\ \A p \in Ops \ {o} :
              /\ op'[p].at = op[p].at /\ op'[p].on = op[p].on /\ op'[p].kind = op[p].kind
              /\ op'[p].after = IF op[p].after = o THEN NoOp ELSE op[p].after
         /\ \A s \in Sessions : lock'[s] = IF lock[s] = o /\ s = op[o].on THEN NoOp ELSE lock[s]
<1>1. /\ op'[o] = [Idle EXCEPT !.at = result]
      /\ \A p \in Ops \ {o} :
           op'[p] = IF op[p].after = o THEN [op[p] EXCEPT !.after = NoOp] ELSE op[p]
  BY DEF Ends, Released
<1>2. lock' = [lock EXCEPT ![op[o].on] = IF lock[op[o].on] = o THEN NoOp ELSE lock[op[o].on]]
  BY DEF Ends, LockAfter
<1>3. \A s \in Sessions : lock'[s] = IF lock[s] = o /\ s = op[o].on THEN NoOp ELSE lock[s]
  BY <1>2 DEF SandboxTypeOK
<1>4. ~Live(op'[o]) /\ op'[o].at = result
  BY <1>1 DEF Idle, Live
<1>5. ASSUME NEW p \in Ops \ {o}
      PROVE  /\ op'[p].at = op[p].at /\ op'[p].on = op[p].on /\ op'[p].kind = op[p].kind
             /\ op'[p].after = IF op[p].after = o THEN NoOp ELSE op[p].after
  <2>1. PICK k, s, a, t : op[p] = [kind |-> k, on |-> s, after |-> a, at |-> t]
    BY DEF SandboxTypeOK
  <2>2. CASE op[p].after = o
    <3>1. op'[p] = [kind |-> k, on |-> s, after |-> NoOp, at |-> t]
      BY <1>1, <2>1, <2>2
    <3> QED
      BY <2>1, <2>2, <3>1
  <2>3. CASE op[p].after # o
    <3>1. op'[p] = op[p]
      BY <1>1, <2>3
    <3> QED
      BY <2>3, <3>1
  <2> QED
    BY <2>2, <2>3
<1> QED
  BY <1>3, <1>4, <1>5

LEMMA EndChained ==
  ASSUME SandboxTypeOK, NEW o \in Ops, NEW result \in {"returned", "threw"}, Ends(o, result),
         Live(op[o]), op[o].after = NoOp,
         NEW rank \in Numbering, NEW next \in Nat, Chained(rank, next),
         \A p \in Ops \ {o} : op[p].at = "running" => sandbox'[op[p].on] \in InMap
  PROVE  Chained(rank, next)'
<1>0. /\ ~Live(op'[o])
      /\ \A p \in Ops \ {o} :
           /\ op'[p].at = op[p].at /\ op'[p].on = op[p].on
           /\ op'[p].after = IF op[p].after = o THEN NoOp ELSE op[p].after
      /\ \A s \in Sessions : lock'[s] = IF lock[s] = o /\ s = op[o].on THEN NoOp ELSE lock[s]
  BY EndElements DEF Chained, NumberedInv
<1>1. \A p \in Ops : Live(op'[p]) => p # o /\ Live(op[p])
  BY <1>0 DEF Live
<1>2. \A p \in Ops \ {o} : Live(op[p]) => Live(op'[p])
  BY <1>0 DEF Live
<1>3. \A p \in Ops \ {o} : Live(op[p]) /\ op[p].on = op[o].on => rank[o] < rank[p]
  BY NobodyBefore
<1>r. \A p \in Ops : rank[p] \in Nat
  BY DEF Numbering
<1>4. NumberedInv(rank, next)'
  BY <1>0, <1>1 DEF Chained, NumberedInv
<1>5. LatestInv(rank)'
  <2>1. ASSUME NEW s \in Sessions, lock'[s] # NoOp
        PROVE  Live(op'[lock'[s]]) /\ op'[lock'[s]].on = s
    <3>1. /\ lock'[s] = lock[s] /\ lock[s] \in Ops
          /\ Live(op[lock[s]]) /\ op[lock[s]].on = s
      BY <1>0, <2>1 DEF SandboxTypeOK, Chained, LatestInv
    <3>2. lock[s] # o
      BY <1>0, <2>1, <3>1
    <3> QED
      BY <1>0, <1>2, <3>1, <3>2
  <2>2. ASSUME NEW p \in Ops, Live(op'[p])
        PROVE  lock'[op'[p].on] \in Ops /\ rank[p] <= rank[lock'[op'[p].on]]
    <3>1. /\ p # o /\ Live(op[p]) /\ op'[p].on = op[p].on /\ op[p].on \in Sessions
          /\ lock[op[p].on] \in Ops /\ rank[p] <= rank[lock[op[p].on]]
      BY <1>0, <1>1, <2>2 DEF Chained, LatestInv, NumberedInv
    <3>2. ~(lock[op[p].on] = o /\ op[p].on = op[o].on)
      BY <1>3, <1>r, <3>1
    <3> QED
      BY <1>0, <3>1, <3>2
  <2> QED
    BY <2>1, <2>2 DEF LatestInv
<1>6. AwaitsInv(rank)'
  <2> SUFFICES ASSUME NEW q \in Ops, Live(op'[q])
      PROVE  /\ op'[q].after \in Ops =>
                  /\ Live(op'[op'[q].after]) /\ op'[op'[q].after].on = op'[q].on
                  /\ rank[op'[q].after] < rank[q]
             /\ \A p \in Ops :
                  Live(op'[p]) /\ op'[p].on = op'[q].on /\ rank[p] < rank[q] =>
                    op'[q].after \in Ops /\ rank[p] <= rank[op'[q].after]
    BY DEF AwaitsInv
  <2>1. q # o /\ Live(op[q]) /\ op'[q].on = op[q].on
    BY <1>0, <1>1
  <2>2. ASSUME op'[q].after \in Ops
        PROVE  /\ Live(op'[op'[q].after]) /\ op'[op'[q].after].on = op'[q].on
               /\ rank[op'[q].after] < rank[q]
    <3>1. op'[q].after = op[q].after /\ op[q].after \in Ops \ {o}
      BY <1>0, <2>1, <2>2, SandboxConstants
    <3>2. /\ Live(op[op[q].after]) /\ op[op[q].after].on = op[q].on
          /\ rank[op[q].after] < rank[q]
      BY <2>1, <3>1 DEF Chained, AwaitsInv
    <3> QED
      BY <1>0, <1>2, <2>1, <3>1, <3>2
  <2>3. ASSUME NEW p \in Ops, Live(op'[p]), op'[p].on = op'[q].on, rank[p] < rank[q]
        PROVE  op'[q].after \in Ops /\ rank[p] <= rank[op'[q].after]
    <3>1. p # o /\ Live(op[p]) /\ op[p].on = op[q].on
      BY <1>0, <1>1, <2>1, <2>3
    <3>2. op[q].after \in Ops /\ rank[p] <= rank[op[q].after]
      BY <2>1, <2>3, <3>1 DEF Chained, AwaitsInv
    <3>3. op[q].after # o
      <4>1. SUFFICES ASSUME op[q].after = o PROVE FALSE
        OBVIOUS
      <4>2. op[o].on = op[q].on
        BY <2>1, <4>1 DEF Chained, AwaitsInv
      <4>3. rank[o] < rank[p] /\ rank[p] <= rank[o]
        BY <1>3, <3>1, <3>2, <4>1, <4>2
      <4> QED
        BY <1>r, <4>3
    <3> QED
      BY <1>0, <2>1, <3>2, <3>3
  <2> QED
    BY <2>2, <2>3
<1>7. RunningInv'
  BY <1>0, <1>1 DEF Chained, RunningInv, Live
<1> QED
  BY <1>4, <1>5, <1>6, <1>7 DEF Chained

-----------------------------------------------------------------------------
(* Every step keeps the chain *)

LEMMA QueueKeeps ==
  ASSUME SandboxInv, NEW o \in Ops, NEW s \in Sessions, NEW kind \in {"run", "close"},
         Queue(o, s, kind), UNCHANGED sandbox, cleanup' \in [Sessions -> {"off", "armed"}]
  PROVE  SandboxInv'
<1>1. SandboxTypeOK'
  BY QueueTypes DEF SandboxInv, SandboxTypeOK
<1>2. PICK rank \in Numbering, next \in Nat : Chained(rank, next)
  BY DEF SandboxInv, ChainInv
<1>3. PICK new \in Numbering : new = [rank EXCEPT ![o] = next]
  BY DEF Numbering
<1>4. Chained(new, next + 1)'
  BY <1>2, <1>3, QueueChained DEF SandboxInv
<1> QED
  BY <1>1, <1>4 DEF SandboxInv, ChainInv

LEMMA EndKeeps ==
  ASSUME SandboxInv, NEW o \in Ops, NEW result \in {"returned", "threw"}, Ends(o, result),
         Live(op[o]), op[o].after = NoOp, UNCHANGED cleanup,
         sandbox' \in [Sessions -> {"none", "closed"} \cup InMap],
         \A s \in Sessions \ {op[o].on} : sandbox'[s] = sandbox[s],
         \/ UNCHANGED sandbox
         \/ op[o].at = "running"
  PROVE  SandboxInv'
<1>1. PICK rank \in Numbering, next \in Nat : Chained(rank, next)
  BY DEF SandboxInv, ChainInv
<1>2. op[o].on \in Sessions
  BY <1>1 DEF Chained, NumberedInv
<1>3. SandboxTypeOK'
  BY <1>2, EndTypes DEF SandboxInv, SandboxTypeOK
<1>4. ASSUME NEW p \in Ops \ {o}, op[p].at = "running" PROVE sandbox'[op[p].on] \in InMap
  <2>1. /\ op[p].after = NoOp /\ sandbox[op[p].on] \in InMap /\ Live(op[p])
        /\ op[p].on \in Sessions
    BY <1>1, <1>4 DEF Chained, RunningInv, NumberedInv, Live
  <2>2. CASE op[p].on = op[o].on
    <3>1. rank[o] < rank[p] /\ rank[p] < rank[o]
      BY <1>1, <2>1, <2>2, NobodyBefore
    <3>2. rank[o] \in Nat /\ rank[p] \in Nat
      BY DEF Numbering
    <3> QED
      BY <3>1, <3>2
  <2>3. CASE op[p].on # op[o].on
    BY <2>1, <2>3
  <2> QED
    BY <2>2, <2>3
<1>5. Chained(rank, next)'
  BY <1>1, <1>4, EndChained DEF SandboxInv
<1> QED
  BY <1>3, <1>5 DEF SandboxInv, ChainInv

LEMMA CreateKeeps ==
  ASSUME SandboxInv, NEW s \in Sessions, CreateSession(s)
  PROVE  SandboxInv'
<1>1. SandboxTypeOK'
  BY DEF SandboxInv, SandboxTypeOK, CreateSession, InMap
<1>2. PICK rank \in Numbering, next \in Nat : Chained(rank, next)
  BY DEF SandboxInv, ChainInv
<1>3. UNCHANGED <<lock, op>>
  BY DEF CreateSession
<1>4. \A t \in Sessions : sandbox[t] \in InMap => sandbox'[t] \in InMap
  BY DEF CreateSession, SandboxInv, SandboxTypeOK, InMap
<1>5. RunningInv'
  BY <1>2, <1>3, <1>4 DEF Chained, RunningInv, NumberedInv, Live
<1>6. Chained(rank, next)'
  BY <1>2, <1>3, <1>5, SameQueue DEF SandboxInv
<1> QED
  BY <1>1, <1>6 DEF SandboxInv, ChainInv

LEMMA EnterKeeps ==
  ASSUME SandboxInv, NEW o \in Ops, Enter(o)
  PROVE  SandboxInv'
<1>1. PICK rank \in Numbering, next \in Nat : Chained(rank, next)
  BY DEF SandboxInv, ChainInv
<1>2. /\ op[o].at = "waiting" /\ op[o].after = NoOp /\ sandbox[op[o].on] \in InMap
      /\ op' = [op EXCEPT ![o].at = "running"]
      /\ UNCHANGED <<sandbox, lock>>
  BY DEF Enter, AtItsTurn
<1>3. op[o].on \in Sessions
  BY <1>1, <1>2 DEF Chained, NumberedInv, Live
<1>4. cleanup' \in [Sessions -> {"off", "armed"}]
  BY <1>3 DEF Enter, SandboxInv, SandboxTypeOK
<1>5. op' \in [Ops -> [kind : {"none", "run", "close"}, on : Sessions \cup {NoSession},
                      after : Ops \cup {NoOp},
                      at : {"idle", "waiting", "running", "returned", "threw"}]]
  BY <1>2 DEF SandboxInv, SandboxTypeOK
<1>6. SandboxTypeOK'
  BY <1>2, <1>4, <1>5 DEF SandboxInv, SandboxTypeOK
<1>7. /\ op'[o].at = "running" /\ op'[o].on = op[o].on /\ op'[o].after = op[o].after
      /\ \A p \in Ops \ {o} : op'[p] = op[p]
  BY <1>2 DEF SandboxInv, SandboxTypeOK
<1>8. \A p \in Ops : /\ op'[p].on = op[p].on /\ op'[p].after = op[p].after
                     /\ Live(op'[p]) <=> Live(op[p])
  BY <1>2, <1>7 DEF Live
<1>9. RunningInv'
  BY <1>1, <1>2, <1>7 DEF Chained, RunningInv
<1>10. Chained(rank, next)'
  BY <1>1, <1>2, <1>8, <1>9, SameQueue DEF SandboxInv
<1> QED
  BY <1>6, <1>10 DEF SandboxInv, ChainInv

\* Nothing is under way, in a world where no operation is queued.
LEMMA NothingUnderWay ==
  ASSUME op = [o \in Ops |-> Idle], lock = [s \in Sessions |-> NoOp]
  PROVE  ChainInv
<1>1. [o \in Ops |-> 0] \in Numbering
  BY DEF Numbering
<1>2. Chained([o \in Ops |-> 0], 0)
  BY DEF Chained, NumberedInv, LatestInv, AwaitsInv, RunningInv, Idle, Live
<1> QED
  BY <1>1, <1>2 DEF ChainInv

LEMMA StopKeeps ==
  ASSUME SandboxInv, AgentStops
  PROVE  SandboxInv'
<1>1. SandboxTypeOK'
  BY DEF SandboxInv, SandboxTypeOK, AgentStops, Idle, InMap
<1>2. op' = [o \in Ops |-> Idle] /\ lock' = [s \in Sessions |-> NoOp]
  BY DEF AgentStops
<1>3. [o \in Ops |-> 0] \in Numbering
  BY DEF Numbering
<1>4. Chained([o \in Ops |-> 0], 0)'
  BY <1>2 DEF Chained, NumberedInv, LatestInv, AwaitsInv, RunningInv, Idle, Live
<1> QED
  BY <1>1, <1>3, <1>4 DEF SandboxInv, ChainInv

LEMMA SandboxInitInv == SandboxInit => SandboxInv
<1> SUFFICES ASSUME SandboxInit PROVE SandboxInv
  OBVIOUS
<1>1. SandboxTypeOK
  BY DEF SandboxInit, SandboxTypeOK, Idle, InMap
<1>2. ChainInv
  BY NothingUnderWay DEF SandboxInit
<1> QED
  BY <1>1, <1>2 DEF SandboxInv

LEMMA SandboxStepInv == SandboxInv /\ [SandboxNext]_sandboxVars => SandboxInv'
<1> SUFFICES ASSUME SandboxInv, [SandboxNext]_sandboxVars PROVE SandboxInv'
  OBVIOUS
<1>c. UNCHANGED cleanup => cleanup' \in [Sessions -> {"off", "armed"}]
  BY DEF SandboxInv, SandboxTypeOK
<1>1. ASSUME NEW s \in Sessions, CreateSession(s) PROVE SandboxInv'
  BY <1>1, CreateKeeps
<1>2. ASSUME NEW s \in Sessions, TtlFires(s) PROVE SandboxInv'
  <2>1. TtlOf[s] \in Ops /\ Queue(TtlOf[s], s, "close") /\ UNCHANGED sandbox
    BY <1>2, SandboxConstants DEF TtlFires
  <2>2. cleanup' \in [Sessions -> {"off", "armed"}]
    BY <1>2 DEF TtlFires, SandboxInv, SandboxTypeOK
  <2> QED
    BY <2>1, <2>2, QueueKeeps
<1>3. ASSUME NEW s \in Sessions, NEW o \in Ops, NEW kind \in {"run", "close"}, Call(o, s, kind)
      PROVE  SandboxInv'
  BY <1>3, <1>c, QueueKeeps DEF Call
<1>4. ASSUME NEW o \in Ops, Enter(o) PROVE SandboxInv'
  BY <1>4, EnterKeeps
<1>5. ASSUME NEW o \in Ops, Unknown(o) PROVE SandboxInv'
  <2>1. /\ Live(op[o]) /\ op[o].after = NoOp /\ Ends(o, "threw")
        /\ UNCHANGED <<sandbox, cleanup>>
    BY <1>5 DEF Unknown, AtItsTurn, Live
  <2>2. sandbox' \in [Sessions -> {"none", "closed"} \cup InMap]
    BY <2>1 DEF SandboxInv, SandboxTypeOK
  <2> QED
    BY <2>1, <2>2, EndKeeps
<1>6. ASSUME NEW o \in Ops, op[o].at = "running"
      PROVE  Live(op[o]) /\ op[o].after = NoOp /\ op[o].on \in Sessions
  BY <1>6 DEF SandboxInv, ChainInv, Chained, RunningInv, NumberedInv, Live
<1>7. ASSUME NEW o \in Ops, CommandEnds(o) PROVE SandboxInv'
  <2>1. /\ op[o].at = "running" /\ Ends(o, "returned") /\ UNCHANGED <<sandbox, cleanup>>
    BY <1>7 DEF CommandEnds
  <2>2. sandbox' \in [Sessions -> {"none", "closed"} \cup InMap]
    BY <2>1 DEF SandboxInv, SandboxTypeOK
  <2> QED
    BY <1>6, <2>1, <2>2, EndKeeps
<1>8. ASSUME NEW o \in Ops, NEW result \in {"returned", "threw"}, NEW v \in {"closed", "broken"},
             op[o].at = "running", Ends(o, result), UNCHANGED cleanup,
             sandbox' = [sandbox EXCEPT ![op[o].on] = v]
      PROVE  SandboxInv'
  <2>1. sandbox' \in [Sessions -> {"none", "closed"} \cup InMap]
    BY <1>8 DEF SandboxInv, SandboxTypeOK, InMap
  <2>2. \A s \in Sessions \ {op[o].on} : sandbox'[s] = sandbox[s]
    BY <1>8 DEF SandboxInv, SandboxTypeOK
  <2> QED
    BY <1>6, <1>8, <2>1, <2>2, EndKeeps
<1>9. ASSUME NEW o \in Ops, CloseEnds(o) PROVE SandboxInv'
  BY <1>8, <1>9 DEF CloseEnds
<1>10. ASSUME NEW o \in Ops, CloseThrows(o) PROVE SandboxInv'
  BY <1>8, <1>10 DEF CloseThrows
<1>11. CASE AgentStops
  BY <1>11, StopKeeps
<1>12. CASE UNCHANGED sandboxVars
  <2>1. UNCHANGED <<sandbox, cleanup, lock, op>>
    BY <1>12 DEF sandboxVars
  <2>2. SandboxTypeOK'
    BY <2>1 DEF SandboxInv, SandboxTypeOK
  <2>3. PICK rank \in Numbering, next \in Nat : Chained(rank, next)
    BY DEF SandboxInv, ChainInv
  <2>4. RunningInv'
    BY <2>1, <2>3 DEF Chained, RunningInv
  <2>5. Chained(rank, next)'
    BY <2>1, <2>3, <2>4, SameQueue DEF SandboxInv
  <2> QED
    BY <2>2, <2>5 DEF SandboxInv, ChainInv
<1> QED
  BY <1>1, <1>2, <1>3, <1>4, <1>5, <1>7, <1>9, <1>10, <1>11, <1>12 DEF SandboxNext, OpStep

\* The inductive invariant of the sessions: there is a numbering of the operations
\* under way that every await and every lock entry agrees with.
THEOREM SandboxInvariance == SandboxSpec => []SandboxInv
BY SandboxInitInv, SandboxStepInv, PTL DEF SandboxSpec

LEMMA ChainExcludes == SandboxInv => OneOperationAtATime
<1> SUFFICES ASSUME SandboxInv PROVE OneOperationAtATime
  OBVIOUS
<1>1. PICK rank \in Numbering, next \in Nat : Chained(rank, next)
  BY DEF SandboxInv, ChainInv
<1>2. ASSUME NEW o \in Ops, op[o].at = "running"
      PROVE  sandbox[op[o].on] \in InMap /\ op[o].after = NoOp /\ Live(op[o])
  BY <1>1, <1>2 DEF Chained, RunningInv, Live
<1>3. ASSUME NEW o \in Ops, op[o].at = "running",
             NEW p \in Ops, op[p].at = "running", op[p].on = op[o].on, p # o
      PROVE  FALSE
  <2>1. rank[o] < rank[p] /\ rank[p] < rank[o]
    BY <1>1, <1>2, <1>3, NobodyBefore
  <2>2. rank[o] \in Nat /\ rank[p] \in Nat
    BY DEF Numbering
  <2> QED
    BY <2>1, <2>2
<1> QED
  BY <1>2, <1>3 DEF OneOperationAtATime

\* One operation at a time reaches a machine, for any number of queued operations,
\* timers and failures.
THEOREM SandboxExclusion == SandboxSpec => []OneOperationAtATime
BY ChainExcludes, SandboxInvariance, PTL

-----------------------------------------------------------------------------
(* The chain moves on *)

\* A set of numbers that is not empty has a least one.
LEMMA LeastNumber ==
  ASSUME NEW T, T \subseteq Nat, T # {}
  PROVE  \E m \in T : \A n \in T : m <= n
<1> DEFINE R == {p \in Nat \X Nat : p[1] < p[2]}
<1>1. R = OpToRel(<, Nat)
  BY DEF OpToRel
<1>2. IsWellFoundedOn(R, Nat)
  BY <1>1, NatLessThanWellFounded
<1>3. PICK m \in T : \A n \in T : ~(<<n, m>> \in R)
  <2> HIDE DEF R
  <2> QED
    BY <1>2, WFMin
<1>4. ASSUME NEW n \in T PROVE m <= n
  <2>1. m \in Nat /\ n \in Nat /\ <<n, m>> \in Nat \X Nat
    OBVIOUS
  <2>2. ~(n < m)
    BY <1>3, <2>1
  <2> QED
    BY <2>1, <2>2
<1> QED
  BY <1>4

\* The operations queued for a session, and those that await nobody.
InLine(s) == {o \in Ops : Live(op[o]) /\ op[o].on = s}
AtTurn(s) == {o \in InLine(s) : op[o].after = NoOp}

\* No wake-up is lost: where operations are queued, one of them awaits nobody, and
\* only one.
LineMovesOn ==
  \A s \in Sessions :
    /\ InLine(s) # {} => AtTurn(s) # {}
    /\ \A o, p \in AtTurn(s) : o = p

LEMMA ChainMovesOn == SandboxInv => LineMovesOn
<1> SUFFICES ASSUME SandboxInv, NEW s \in Sessions
             PROVE  /\ InLine(s) # {} => AtTurn(s) # {}
                    /\ \A o, p \in AtTurn(s) : o = p
  BY DEF LineMovesOn
<1>1. PICK rank \in Numbering, next \in Nat : Chained(rank, next)
  BY DEF SandboxInv, ChainInv
<1>2. \A o \in Ops : rank[o] \in Nat
  BY DEF Numbering
<1>3. ASSUME InLine(s) # {} PROVE AtTurn(s) # {}
  <2> DEFINE T == {rank[o] : o \in InLine(s)}
  <2>1. T \subseteq Nat /\ T # {}
    BY <1>2, <1>3 DEF InLine
  <2>2. PICK m \in T : \A n \in T : m <= n
    <3> HIDE DEF T
    <3> QED
      BY <2>1, LeastNumber
  <2>3. PICK o \in InLine(s) : rank[o] = m
    OBVIOUS
  <2>4. \A p \in InLine(s) : rank[o] <= rank[p]
    BY <2>2, <2>3
  <2>5. o \in Ops /\ Live(op[o]) /\ op[o].on = s
    BY DEF InLine
  <2>6. op[o].after \notin Ops
    <3> SUFFICES ASSUME op[o].after \in Ops PROVE FALSE
      OBVIOUS
    <3>1. /\ op[o].after \in InLine(s)
          /\ rank[op[o].after] < rank[o]
      BY <1>1, <2>5 DEF Chained, AwaitsInv, InLine
    <3>2. rank[o] <= rank[op[o].after]
      BY <2>4, <3>1
    <3> QED
      BY <1>2, <2>5, <3>1, <3>2
  <2>7. op[o].after = NoOp
    BY <2>5, <2>6 DEF SandboxInv, SandboxTypeOK
  <2> QED
    BY <2>7 DEF AtTurn
<1>4. ASSUME NEW o \in AtTurn(s), NEW p \in AtTurn(s), o # p PROVE FALSE
  <2>1. /\ o \in Ops /\ Live(op[o]) /\ op[o].on = s /\ op[o].after = NoOp
        /\ p \in Ops /\ Live(op[p]) /\ op[p].on = s /\ op[p].after = NoOp
    BY DEF AtTurn, InLine
  <2>2. rank[o] < rank[p] /\ rank[p] < rank[o]
    BY <1>1, <1>4, <2>1, NobodyBefore
  <2> QED
    BY <1>2, <2>1, <2>2
<1> QED
  BY <1>3, <1>4

\* Whatever order operations are queued in and however each of them ends, a session
\* with operations in line always has exactly one that awaits nobody: the promise in
\* sessionLocks is never one that will not resolve.
THEOREM NobodyIsStranded == SandboxSpec => []LineMovesOn
BY ChainMovesOn, SandboxInvariance, PTL

-----------------------------------------------------------------------------
(* Runs *)

RunRow ==
  [status : {"none", "running", "completed", "partial", "failed", "lost"},
   session : Sessions \cup {NoSession}, iterations : 0 .. MaxIterations]
LoopRow ==
  [at : {"idle", "creating", "probing", "reasoning", "searching", "commanding"},
   probed : 0 .. ProbeCommands]

RunsTypeOK ==
  /\ run \in [Runs -> RunRow]
  /\ loop \in [Runs -> LoopRow]
  /\ runTimer \in [Runs -> {"off", "armed", "elapsed"}]

\* Only a loop that lost the race goes on with a run that is no longer running.
RaceInv(r) ==
  /\ loop[r].at # "idle" => run[r].status \in {"running", "failed"}
  /\ loop[r].at # "idle" /\ runTimer[r] # "elapsed" => run[r].status = "running"
  /\ runTimer[r] # "off" => loop[r].at # "idle"

\* A loop has an iteration left, and a new run has all of them.
IterationInv(r) ==
  /\ loop[r].at # "idle" => run[r].iterations < MaxIterations
  /\ run[r].status = "none" => run[r].iterations = 0

\* The session of a run was created, and a probe has one.
OwnSessionInv(r) ==
  /\ run[r].session # NoSession => sandbox[run[r].session] # "none"
  /\ loop[r].at = "probing" => run[r].session # NoSession

RunInv(r) == RaceInv(r) /\ IterationInv(r) /\ OwnSessionInv(r)

AgentInv == SandboxInv /\ RunsTypeOK /\ \A r \in Runs : RunInv(r)

LEMMA CallIsNoTimers ==
  ASSUME NEW r \in Runs PROVE CallOf[r] \in Ops \ Timers
BY RunConstants

LEMMA Limits == MaxIterations \in Nat \ {0} /\ ProbeCommands \in Nat \ {0}
BY RunConstants

\* A run queues its commands as any caller does.
LEMMA RunQueues ==
  ASSUME NEW r \in Runs, RunsTypeOK, OwnSessionInv(r), run[r].session # NoSession,
         Queue(CallOf[r], run[r].session, "run"), UNCHANGED <<sandbox, cleanup>>
  PROVE  SandboxNext
<1>1. run[r].session \in Sessions /\ sandbox[run[r].session] # "none"
  BY DEF RunsTypeOK, RunRow, OwnSessionInv
<1>2. CallOf[r] \in Ops \ Timers
  BY CallIsNoTimers
<1> QED
  BY <1>1, <1>2 DEF SandboxNext, Call

\* Every step of runs and sessions is a step of the sessions, or none.
LEMMA StepUsesSandbox ==
  ASSUME RunsTypeOK, \A r \in Runs : RunInv(r), [AgentNext]_agentVars
  PROVE  [SandboxNext]_sandboxVars
<1> USE DEF sandboxVars
<1>1. ASSUME NEW r \in Runs, RunStep(r) PROVE [SandboxNext]_sandboxVars
  <2>1. CASE CreateRun(r) \/ Searched(r) \/ Commanded(r) \/ TimesOut(r) \/ ProbeFails(r)
    BY <2>1 DEF CreateRun, Searched, Commanded, TimesOut, ProbeFails
  <2>2. CASE Decides(r)
    <3>1. \/ UNCHANGED sandboxVars
          \/ /\ run[r].session # NoSession
             /\ Queue(CallOf[r], run[r].session, "run") /\ UNCHANGED <<sandbox, cleanup>>
      BY <2>2 DEF Decides
    <3> QED
      BY <3>1, RunQueues DEF RunInv
  <2>3. CASE Created(r)
    BY <2>3 DEF Created, SandboxNext
  <2>4. CASE ProbeCommand(r)
    <3>1. \/ UNCHANGED sandboxVars
          \/ Queue(CallOf[r], run[r].session, "run") /\ UNCHANGED <<sandbox, cleanup>>
      BY <2>4 DEF ProbeCommand, AfterProbe
    <3>2. run[r].session # NoSession
      BY <2>4 DEF ProbeCommand, RunInv, OwnSessionInv
    <3> QED
      BY <3>1, <3>2, RunQueues DEF RunInv
  <2> QED
    BY <1>1, <2>1, <2>2, <2>3, <2>4 DEF RunStep, Probing
<1>2. CASE SandboxStep
  <2>1. UsersOps \subseteq Ops \ Timers
    BY DEF UsersOps
  <2> QED
    BY <1>2, <2>1 DEF SandboxStep, SandboxNext, Fires, OpRuns
<1>3. CASE AgentStopsWithRuns
  BY <1>3 DEF AgentStopsWithRuns, SandboxNext
<1>4. CASE UNCHANGED agentVars
  BY <1>4 DEF agentVars
<1> QED
  BY <1>1, <1>2, <1>3, <1>4 DEF AgentNext

\* A session that was created is never forgotten.
LEMMA CreatedStays ==
  ASSUME SandboxTypeOK, [SandboxNext]_sandboxVars, NEW s \in Sessions, sandbox[s] # "none"
  PROVE  sandbox'[s] # "none"
<1> USE DEF SandboxTypeOK
<1>1. ASSUME NEW t \in Sessions, CreateSession(t) \/ TtlFires(t) PROVE sandbox'[s] # "none"
  BY <1>1 DEF CreateSession, TtlFires
<1>2. ASSUME NEW t \in Sessions, NEW o \in Ops, NEW kind \in {"run", "close"}, Call(o, t, kind)
      PROVE  sandbox'[s] # "none"
  BY <1>2 DEF Call
<1>3. ASSUME NEW o \in Ops, OpStep(o) PROVE sandbox'[s] # "none"
  BY <1>3 DEF OpStep, Enter, Unknown, CommandEnds, CloseEnds, CloseThrows
<1>4. CASE AgentStops
  BY <1>4 DEF AgentStops
<1>5. CASE UNCHANGED sandboxVars
  BY <1>5 DEF sandboxVars
<1> QED
  BY <1>1, <1>2, <1>3, <1>4, <1>5 DEF SandboxNext

\* What the run's three variables hold after a step of it: the elements of r in their
\* types, and those of the other runs as they were.
MovesTo(r, result, place, timer) ==
  /\ result \in RunRow /\ place \in LoopRow /\ timer \in {"off", "armed", "elapsed"}
  /\ run' = [run EXCEPT ![r] = result]
  /\ loop' = [loop EXCEPT ![r] = place]
  /\ runTimer' = [runTimer EXCEPT ![r] = timer]

LEMMA Moved ==
  ASSUME RunsTypeOK, NEW r \in Runs, NEW result, NEW place, NEW timer,
         MovesTo(r, result, place, timer)
  PROVE  /\ RunsTypeOK'
         /\ run'[r] = result /\ loop'[r] = place /\ runTimer'[r] = timer
         /\ \A q \in Runs \ {r} :
              run'[q] = run[q] /\ loop'[q] = loop[q] /\ runTimer'[q] = runTimer[q]
BY DEF RunsTypeOK, MovesTo

\* The states a run can be in, which sandboxes are created being given.
Fits(result, place, timer, created) ==
  /\ place.at # "idle" => /\ result.status \in {"running", "failed"}
                          /\ result.iterations < MaxIterations
  /\ place.at # "idle" /\ timer # "elapsed" => result.status = "running"
  /\ timer # "off" => place.at # "idle"
  /\ result.status = "none" => result.iterations = 0
  /\ result.session # NoSession => result.session \in created
  /\ place.at = "probing" => result.session # NoSession

AllCreated == {s \in Sessions : sandbox[s] # "none"}

LEMMA FitsIsRunInv ==
  ASSUME RunsTypeOK, NEW r \in Runs
  PROVE  RunInv(r) <=> Fits(run[r], loop[r], runTimer[r], AllCreated)
BY DEF RunInv, RaceInv, IterationInv, OwnSessionInv, Fits, AllCreated, RunsTypeOK, RunRow

LEMMA FitsIsRunInvNext ==
  ASSUME RunsTypeOK', NEW r \in Runs
  PROVE  RunInv(r)' <=> Fits(run'[r], loop'[r], runTimer'[r], AllCreated')
BY DEF RunInv, RaceInv, IterationInv, OwnSessionInv, Fits, AllCreated, RunsTypeOK, RunRow

\* A run moves somewhere it fits.
MovesWell(r) ==
  \E result \in RunRow, place \in LoopRow, timer \in {"off", "armed", "elapsed"} :
    /\ MovesTo(r, result, place, timer)
    /\ Fits(result, place, timer, AllCreated')

LEMMA AnswersMoves ==
  ASSUME RunsTypeOK, NEW r \in Runs, RunInv(r), AllCreated \subseteq AllCreated',
         NEW status \in {"running", "completed", "partial", "failed"}, Answers(r, status)
  PROVE  MovesWell(r)
<1> DEFINE result == [run[r] EXCEPT !.status = status]
<1>1. Fits(run[r], loop[r], runTimer[r], AllCreated)
  BY FitsIsRunInv
<1>2. run[r] \in RunRow
  BY DEF RunsTypeOK
<1>3. /\ result \in RunRow
      /\ result.status = status /\ result.session = run[r].session
  BY <1>2 DEF RunRow
<1>4. NotRunning \in LoopRow /\ NotRunning.at = "idle"
  BY Limits DEF NotRunning, LoopRow
<1>5. run' = [run EXCEPT ![r] = result] /\ loop' = [loop EXCEPT ![r] = NotRunning]
      /\ runTimer' = [runTimer EXCEPT ![r] = "off"]
  BY DEF Answers, RunsTypeOK
<1> HIDE DEF result
<1>6. MovesTo(r, result, NotRunning, "off")
  BY <1>3, <1>4, <1>5 DEF MovesTo
<1>7. Fits(result, NotRunning, "off", AllCreated')
  BY <1>1, <1>3, <1>4 DEF Fits
<1> QED
  BY <1>3, <1>4, <1>6, <1>7 DEF MovesWell

LEMMA ThrowsMoves ==
  ASSUME RunsTypeOK, NEW r \in Runs, RunInv(r), AllCreated \subseteq AllCreated',
         loop[r].at # "idle", Throws(r)
  PROVE  MovesWell(r)
<1>1. run[r].status \in {"running", "failed"}
  BY DEF RunInv, RaceInv
<1> QED
  BY <1>1, AnswersMoves DEF Throws

LEMMA ObservesMoves ==
  ASSUME RunsTypeOK, NEW r \in Runs, RunInv(r), loop[r].at # "idle",
         NEW session \in Sessions \cup {NoSession},
         session # NoSession => session \in AllCreated',
         Observes(r, session)
  PROVE  MovesWell(r)
<1> DEFINE k == run[r].iterations + 1
           more == k < MaxIterations
           result == [status |-> IF more THEN run[r].status ELSE "partial",
                      session |-> session, iterations |-> k]
           place == [at |-> IF more THEN "reasoning" ELSE "idle", probed |-> 0]
           timer == IF more THEN runTimer[r] ELSE "off"
<1>1. Fits(run[r], loop[r], runTimer[r], AllCreated)
  BY FitsIsRunInv
<1>2. /\ run[r] \in RunRow /\ loop[r] \in LoopRow
      /\ runTimer[r] \in {"off", "armed", "elapsed"}
  BY DEF RunsTypeOK
<1>3. run[r].iterations \in Nat /\ run[r].iterations < MaxIterations
  BY <1>1, <1>2, Limits DEF Fits, RunRow
<1>4. k \in 0 .. MaxIterations /\ k # 0
  BY <1>3, Limits
<1>5. result \in RunRow
  BY <1>2, <1>4 DEF RunRow
<1>6. place \in LoopRow
  BY Limits DEF LoopRow
<1>7. timer \in {"off", "armed", "elapsed"}
  BY <1>2
<1>8. run' = [run EXCEPT ![r] = result]
  BY DEF Observes
<1>10. loop' = [loop EXCEPT ![r] = place]
  BY DEF Observes, Goes
<1>11. runTimer' = [runTimer EXCEPT ![r] = timer]
  BY DEF Observes
<1>12. MovesTo(r, result, place, timer)
  BY <1>5, <1>6, <1>7, <1>8, <1>10, <1>11 DEF MovesTo
<1>13. Fits(result, place, timer, AllCreated')
  <2>1. CASE more
    BY <1>1, <1>2, <1>4, <2>1 DEF Fits
  <2>2. CASE ~more
    BY <2>2 DEF Fits
  <2> QED
    BY <2>1, <2>2
<1> QED
  BY <1>5, <1>6, <1>7, <1>12, <1>13 DEF MovesWell

\* A step that leaves the row of the run, or no more than its session, to it.
LEMMA GoesMoves ==
  ASSUME RunsTypeOK, NEW r \in Runs, NEW result \in RunRow, run' = [run EXCEPT ![r] = result],
         NEW at \in {"creating", "probing", "reasoning", "searching", "commanding"},
         Goes(r, at),
         NEW timer \in {"off", "armed", "elapsed"},
         runTimer' = [runTimer EXCEPT ![r] = timer],
         result.status \in {"running", "failed"}, result.iterations < MaxIterations,
         timer # "elapsed" => result.status = "running",
         result.session # NoSession => result.session \in AllCreated',
         at = "probing" => result.session # NoSession
  PROVE  MovesWell(r)
<1>1. [at |-> at, probed |-> 0] \in LoopRow
  BY Limits DEF LoopRow
<1>2. MovesTo(r, result, [at |-> at, probed |-> 0], timer)
  BY <1>1 DEF MovesTo, Goes
<1>3. Fits(result, [at |-> at, probed |-> 0], timer, AllCreated')
  BY DEF Fits
<1> QED
  BY <1>1, <1>2, <1>3 DEF MovesWell

LEMMA RowsUnchanged ==
  ASSUME RunsTypeOK, NEW r \in Runs
  PROVE  /\ run[r] \in RunRow /\ runTimer[r] \in {"off", "armed", "elapsed"}
         /\ loop[r] \in LoopRow
         /\ UNCHANGED run => run' = [run EXCEPT ![r] = run[r]]
         /\ UNCHANGED loop => loop' = [loop EXCEPT ![r] = loop[r]]
         /\ UNCHANGED runTimer => runTimer' = [runTimer EXCEPT ![r] = runTimer[r]]
BY DEF RunsTypeOK

\* The row of a run with another status, or another session.
LEMMA RowWithStatus ==
  ASSUME NEW row \in RunRow, NEW s \in {"running", "failed"}
  PROVE  /\ [row EXCEPT !.status = s] \in RunRow
         /\ [row EXCEPT !.status = s].status = s
         /\ [row EXCEPT !.status = s].session = row.session
         /\ [row EXCEPT !.status = s].iterations = row.iterations
BY DEF RunRow

LEMMA RowWithSession ==
  ASSUME NEW row \in RunRow, NEW session \in Sessions \cup {NoSession}
  PROVE  /\ [row EXCEPT !.session = session] \in RunRow
         /\ [row EXCEPT !.session = session].status = row.status
         /\ [row EXCEPT !.session = session].session = session
         /\ [row EXCEPT !.session = session].iterations = row.iterations
BY DEF RunRow

LEMMA CreateRunMoves ==
  ASSUME RunsTypeOK, NEW r \in Runs, RunInv(r), AllCreated \subseteq AllCreated', CreateRun(r)
  PROVE  MovesWell(r)
<1> DEFINE result == [run[r] EXCEPT !.status = "running"]
<1>0. Fits(run[r], loop[r], runTimer[r], AllCreated)
  BY FitsIsRunInv
<1>1. /\ run[r] \in RunRow /\ runTimer[r] \in {"off", "armed", "elapsed"}
  BY RowsUnchanged
<1>2. /\ result \in RunRow /\ result.status = "running" /\ result.session = run[r].session
      /\ result.iterations = run[r].iterations
  BY <1>1, RowWithStatus
<1>3. run' = [run EXCEPT ![r] = result]
  BY DEF CreateRun
<1> HIDE DEF result
<1>4. result.iterations < MaxIterations
  BY <1>0, <1>2, Limits DEF CreateRun, Fits
<1>5. result.session # NoSession => result.session \in AllCreated'
  BY <1>0, <1>2 DEF Fits
<1>6. CASE Goes(r, "creating") /\ UNCHANGED runTimer
  BY <1>1, <1>2, <1>3, <1>4, <1>5, <1>6, RowsUnchanged, GoesMoves
<1>7. CASE Goes(r, "reasoning") /\ runTimer' = [runTimer EXCEPT ![r] = "armed"]
  BY <1>2, <1>3, <1>4, <1>5, <1>7, GoesMoves
<1> QED
  BY <1>6, <1>7 DEF CreateRun

\* A loop that goes on to another place, with the row it has.
LEMMA GoesOnMoves ==
  ASSUME RunsTypeOK, NEW r \in Runs, RunInv(r), AllCreated \subseteq AllCreated',
         loop[r].at # "idle", UNCHANGED run,
         NEW at \in {"creating", "reasoning", "searching", "commanding"}, Goes(r, at),
         \/ UNCHANGED runTimer
         \/ runTimer[r] = "off" /\ runTimer' = [runTimer EXCEPT ![r] = "armed"]
  PROVE  MovesWell(r)
<1>0. Fits(run[r], loop[r], runTimer[r], AllCreated)
  BY FitsIsRunInv
<1>1. /\ run[r] \in RunRow /\ runTimer[r] \in {"off", "armed", "elapsed"}
      /\ run' = [run EXCEPT ![r] = run[r]]
      /\ UNCHANGED runTimer => runTimer' = [runTimer EXCEPT ![r] = runTimer[r]]
  BY RowsUnchanged
<1>2. /\ run[r].status \in {"running", "failed"} /\ run[r].iterations < MaxIterations
      /\ runTimer[r] # "elapsed" => run[r].status = "running"
      /\ run[r].session # NoSession => run[r].session \in AllCreated'
  BY <1>0 DEF Fits
<1>3. CASE UNCHANGED runTimer
  BY <1>1, <1>2, <1>3, GoesMoves
<1>4. CASE runTimer[r] = "off" /\ runTimer' = [runTimer EXCEPT ![r] = "armed"]
  BY <1>1, <1>2, <1>4, GoesMoves
<1> QED
  BY <1>3, <1>4

LEMMA DecidesMoves ==
  ASSUME RunsTypeOK, NEW r \in Runs, RunInv(r), AllCreated \subseteq AllCreated', Decides(r)
  PROVE  MovesWell(r)
<1>0. loop[r].at # "idle"
  BY DEF Decides
<1>1. ASSUME NEW s \in {"completed", "partial", "failed"}, Answers(r, s) PROVE MovesWell(r)
  BY <1>1, AnswersMoves
<1>2. CASE Throws(r)
  BY <1>0, <1>2, ThrowsMoves
<1>3. ASSUME NEW at \in {"creating", "searching", "commanding"}, Goes(r, at),
             UNCHANGED <<run, runTimer>>
      PROVE  MovesWell(r)
  BY <1>0, <1>3, GoesOnMoves
<1> QED
  BY <1>1, <1>2, <1>3 DEF Decides

LEMMA ReturnsMoves ==
  ASSUME RunsTypeOK, NEW r \in Runs, RunInv(r), AllCreated \subseteq AllCreated',
         Searched(r) \/ Commanded(r)
  PROVE  MovesWell(r)
<1>1. loop[r].at # "idle"
  BY DEF Searched, Commanded
<1>2. run[r].session \in Sessions \cup {NoSession}
  BY DEF RunsTypeOK, RunRow
<1>3. run[r].session # NoSession => run[r].session \in AllCreated'
  BY FitsIsRunInv DEF Fits
<1>4. Observes(r, run[r].session) \/ Throws(r)
  BY DEF Searched, Commanded
<1> QED
  BY <1>1, <1>2, <1>3, <1>4, ObservesMoves, ThrowsMoves

LEMMA CreatedMoves ==
  ASSUME SandboxTypeOK, RunsTypeOK, NEW r \in Runs, RunInv(r), Created(r)
  PROVE  MovesWell(r)
<1>0. Fits(run[r], loop[r], runTimer[r], AllCreated)
  BY FitsIsRunInv
<1>1. /\ run[r] \in RunRow /\ runTimer[r] \in {"off", "armed", "elapsed"}
      /\ runTimer' = [runTimer EXCEPT ![r] = runTimer[r]]
  BY RowsUnchanged DEF Created
<1>2. PICK s \in Sessions : CreateSession(s) /\ run' = [run EXCEPT ![r].session = s]
  BY DEF Created
<1> DEFINE result == [run[r] EXCEPT !.session = s]
<1>3. run' = [run EXCEPT ![r] = result]
  BY <1>2
<1>4. /\ result \in RunRow /\ result.status = run[r].status /\ result.session = s
      /\ result.iterations = run[r].iterations
  BY <1>1, RowWithSession
<1> HIDE DEF result
<1>5. s \in AllCreated' /\ s # NoSession
  BY <1>2, SandboxConstants DEF CreateSession, SandboxTypeOK, AllCreated
<1>6. /\ loop[r].at = "creating" /\ Goes(r, "probing")
  BY DEF Created
<1>7. /\ result.status \in {"running", "failed"} /\ result.iterations < MaxIterations
      /\ runTimer[r] # "elapsed" => result.status = "running"
  BY <1>0, <1>4, <1>6 DEF Fits
<1> QED
  BY <1>1, <1>3, <1>4, <1>5, <1>6, <1>7, GoesMoves

LEMMA ProbeCommandMoves ==
  ASSUME RunsTypeOK, NEW r \in Runs, RunInv(r), AllCreated \subseteq AllCreated',
         ProbeCommand(r)
  PROVE  MovesWell(r)
<1>0. Fits(run[r], loop[r], runTimer[r], AllCreated)
  BY FitsIsRunInv
<1>1. /\ run[r] \in RunRow /\ runTimer[r] \in {"off", "armed", "elapsed"}
      /\ loop[r] \in LoopRow
  BY RowsUnchanged
<1>2. loop[r].at = "probing" /\ UNCHANGED run /\ run' = [run EXCEPT ![r] = run[r]]
  BY RowsUnchanged DEF ProbeCommand
<1>3. CASE loop[r].probed < ProbeCommands
  <2> DEFINE place == [loop[r] EXCEPT !.probed = loop[r].probed + 1]
  <2>1. loop' = [loop EXCEPT ![r] = place] /\ UNCHANGED runTimer
    BY <1>3 DEF ProbeCommand
  <2>2. loop[r].probed \in Nat
    BY <1>1, Limits DEF LoopRow
  <2>3. loop[r].probed + 1 \in 0 .. ProbeCommands
    BY <1>3, <2>2, Limits
  <2>4. place \in LoopRow /\ place.at = "probing"
    BY <1>1, <1>2, <2>3 DEF LoopRow
  <2> HIDE DEF place
  <2>5. MovesTo(r, run[r], place, runTimer[r])
    BY <1>1, <1>2, <2>1, <2>4, RowsUnchanged DEF MovesTo
  <2>6. Fits(run[r], place, runTimer[r], AllCreated')
    BY <1>0, <1>2, <2>4 DEF Fits
  <2> QED
    BY <1>1, <2>4, <2>5, <2>6 DEF MovesWell
<1>4. CASE ~(loop[r].probed < ProbeCommands)
  <2>1. \/ /\ runTimer[r] = "off" /\ runTimer' = [runTimer EXCEPT ![r] = "armed"]
           /\ Goes(r, "reasoning")
        \/ Goes(r, "commanding") /\ UNCHANGED runTimer
    BY <1>4 DEF ProbeCommand, AfterProbe, InLoop
  <2> QED
    BY <1>2, <2>1, GoesOnMoves
<1> QED
  BY <1>3, <1>4

LEMMA ProbeFailsMoves ==
  ASSUME RunsTypeOK, NEW r \in Runs, RunInv(r), AllCreated \subseteq AllCreated',
         ProbeFails(r)
  PROVE  MovesWell(r)
<1>0. Fits(run[r], loop[r], runTimer[r], AllCreated)
  BY FitsIsRunInv
<1>1. loop[r].at # "idle"
  BY DEF ProbeFails
<1>2. CASE InLoop(r) /\ Observes(r, NoSession)
  BY <1>1, <1>2, ObservesMoves
<1>3. CASE ~InLoop(r) /\ run' = [run EXCEPT ![r].session = NoSession] /\ Goes(r, "reasoning")
           /\ runTimer' = [runTimer EXCEPT ![r] = "armed"]
  <2> DEFINE result == [run[r] EXCEPT !.session = NoSession]
  <2>1. run' = [run EXCEPT ![r] = result]
    BY <1>3
  <2>2. /\ result \in RunRow /\ result.status = run[r].status /\ result.session = NoSession
        /\ result.iterations = run[r].iterations
    BY RowsUnchanged, RowWithSession
  <2> HIDE DEF result
  <2>3. result.status = "running" /\ result.iterations < MaxIterations
    BY <1>0, <1>1, <1>3, <2>2 DEF InLoop, Fits
  <2> QED
    BY <1>3, <2>1, <2>2, <2>3, GoesMoves
<1> QED
  BY <1>2, <1>3 DEF ProbeFails

LEMMA TimesOutMoves ==
  ASSUME RunsTypeOK, NEW r \in Runs, RunInv(r), AllCreated \subseteq AllCreated', TimesOut(r)
  PROVE  MovesWell(r)
<1> DEFINE result == [run[r] EXCEPT !.status = "failed"]
<1>0. Fits(run[r], loop[r], runTimer[r], AllCreated)
  BY FitsIsRunInv
<1>1. run' = [run EXCEPT ![r] = result] /\ loop' = [loop EXCEPT ![r] = loop[r]]
      /\ runTimer' = [runTimer EXCEPT ![r] = "elapsed"] /\ runTimer[r] = "armed"
  BY RowsUnchanged DEF TimesOut
<1>2. /\ result \in RunRow /\ result.status = "failed" /\ result.session = run[r].session
      /\ result.iterations = run[r].iterations /\ loop[r] \in LoopRow
  BY RowsUnchanged, RowWithStatus
<1> HIDE DEF result
<1>3. MovesTo(r, result, loop[r], "elapsed")
  BY <1>1, <1>2 DEF MovesTo
<1>4. Fits(result, loop[r], "elapsed", AllCreated')
  BY <1>0, <1>1, <1>2 DEF Fits
<1> QED
  BY <1>2, <1>3, <1>4 DEF MovesWell

LEMMA RunStepMoves ==
  ASSUME SandboxTypeOK, RunsTypeOK, NEW r \in Runs, RunInv(r),
         AllCreated \subseteq AllCreated', RunStep(r)
  PROVE  MovesWell(r)
BY CreateRunMoves, DecidesMoves, ReturnsMoves, CreatedMoves, ProbeCommandMoves, ProbeFailsMoves,
   TimesOutMoves
DEF RunStep, Probing

-----------------------------------------------------------------------------

LEMMA AgentInitInv == AgentInit => AgentInv
<1> SUFFICES ASSUME AgentInit PROVE AgentInv
  OBVIOUS
<1>1. SandboxInv
  BY SandboxInitInv DEF AgentInit
<1>2. run = [r \in Runs |-> NoRun] /\ loop = [r \in Runs |-> NotRunning]
      /\ runTimer = [r \in Runs |-> "off"]
  BY DEF AgentInit
<1>3. NoRun \in RunRow /\ NotRunning \in LoopRow
  BY Limits DEF NoRun, RunRow, NotRunning, LoopRow
<1>4. RunsTypeOK
  BY <1>2, <1>3 DEF RunsTypeOK
<1>5. \A r \in Runs : RunInv(r)
  BY <1>2 DEF RunInv, RaceInv, IterationInv, OwnSessionInv, NoRun, NotRunning
<1> QED
  BY <1>1, <1>4, <1>5 DEF AgentInv

LEMMA AgentStepInv == AgentInv /\ [AgentNext]_agentVars => AgentInv'
<1> SUFFICES ASSUME AgentInv, [AgentNext]_agentVars PROVE AgentInv'
  OBVIOUS
<1>1. [SandboxNext]_sandboxVars
  BY StepUsesSandbox DEF AgentInv
<1>2. SandboxInv'
  BY <1>1, SandboxStepInv DEF AgentInv
<1>3. AllCreated \subseteq AllCreated'
  BY <1>1, CreatedStays DEF AgentInv, SandboxInv, AllCreated
<1>4. ASSUME NEW r \in Runs, RunStep(r) PROVE RunsTypeOK' /\ \A q \in Runs : RunInv(q)'
  <2>1. PICK result \in RunRow, place \in LoopRow, timer \in {"off", "armed", "elapsed"} :
          /\ MovesTo(r, result, place, timer)
          /\ Fits(result, place, timer, AllCreated')
    BY <1>3, <1>4, RunStepMoves DEF AgentInv, SandboxInv, MovesWell
  <2>2. /\ RunsTypeOK'
        /\ run'[r] = result /\ loop'[r] = place /\ runTimer'[r] = timer
        /\ \A q \in Runs \ {r} :
             run'[q] = run[q] /\ loop'[q] = loop[q] /\ runTimer'[q] = runTimer[q]
    BY <2>1, Moved DEF AgentInv
  <2>3. ASSUME NEW q \in Runs PROVE Fits(run'[q], loop'[q], runTimer'[q], AllCreated')
    <3>1. CASE q = r
      BY <2>1, <2>2, <3>1
    <3>2. CASE q # r
      <4>1. Fits(run[q], loop[q], runTimer[q], AllCreated)
        BY FitsIsRunInv DEF AgentInv
      <4> QED
        BY <1>3, <2>2, <3>2, <4>1 DEF Fits
    <3> QED
      BY <3>1, <3>2
  <2> QED
    BY <2>2, <2>3, FitsIsRunInvNext
<1>5. ASSUME UNCHANGED runVars PROVE RunsTypeOK' /\ \A q \in Runs : RunInv(q)'
  <2>1. UNCHANGED <<run, loop, runTimer>>
    BY <1>5 DEF runVars
  <2>2. RunsTypeOK'
    BY <2>1 DEF AgentInv, RunsTypeOK
  <2>3. ASSUME NEW q \in Runs PROVE RunInv(q)'
    <3>1. Fits(run[q], loop[q], runTimer[q], AllCreated)
      BY FitsIsRunInv DEF AgentInv
    <3>2. Fits(run'[q], loop'[q], runTimer'[q], AllCreated')
      BY <1>3, <2>1, <3>1 DEF Fits
    <3> QED
      BY <2>2, <3>2, FitsIsRunInvNext
  <2> QED
    BY <2>2, <2>3
<1>6. ASSUME AgentStopsWithRuns PROVE RunsTypeOK' /\ \A q \in Runs : RunInv(q)'
  <2> DEFINE after(r) == IF run[r].status = "none" THEN NoRun ELSE [NoRun EXCEPT !.status = "lost"]
  <2>1. /\ run' = [r \in Runs |-> after(r)] /\ loop' = [r \in Runs |-> NotRunning]
        /\ runTimer' = [r \in Runs |-> "off"]
    BY <1>6 DEF AgentStopsWithRuns
  <2>2. \A r \in Runs : /\ after(r) \in RunRow /\ after(r).session = NoSession
                        /\ after(r).iterations = 0
    BY Limits DEF NoRun, RunRow
  <2>3. NotRunning \in LoopRow /\ NotRunning.at = "idle"
    BY Limits DEF NotRunning, LoopRow
  <2> HIDE DEF after
  <2>4. RunsTypeOK'
    BY <2>1, <2>2, <2>3 DEF RunsTypeOK
  <2>5. ASSUME NEW q \in Runs PROVE RunInv(q)'
    BY <2>1, <2>2, <2>3 DEF RunInv, RaceInv, IterationInv, OwnSessionInv
  <2> QED
    BY <2>4, <2>5
<1>7. RunsTypeOK' /\ \A q \in Runs : RunInv(q)'
  BY <1>4, <1>5, <1>6 DEF AgentNext, SandboxStep, Fires, OpRuns, agentVars
<1> QED
  BY <1>2, <1>7 DEF AgentInv

\* The inductive invariant of runs and sessions together.
THEOREM AgentRunInvariance == AgentSpec => []AgentInv
BY AgentInitInv, AgentStepInv, PTL DEF AgentSpec

\* The sessions, operations and runs stay in their types.
THEOREM AgentTypeCorrect == AgentSpec => []AgentTypeOK
<1>1. AgentInv => AgentTypeOK
  BY DEF AgentInv, SandboxInv, RunsTypeOK, RunRow, LoopRow, AgentTypeOK
<1> QED
  BY <1>1, AgentRunInvariance, PTL

\* Runs use the sessions as their other users do: what holds of the sessions alone
\* holds of them with any number of runs.
THEOREM UsesSandbox == AgentSpec => SandboxSpec
<1>1. AgentInit => SandboxInit
  BY DEF AgentInit
<1>2. AgentInv /\ [AgentNext]_agentVars => [SandboxNext]_sandboxVars
  BY StepUsesSandbox DEF AgentInv
<1> QED
  BY <1>1, <1>2, AgentRunInvariance, PTL DEF AgentSpec, SandboxSpec

\* One operation at a time reaches a machine, whatever runs and users queue.
THEOREM OneAtATime == AgentSpec => []OneOperationAtATime
BY UsesSandbox, SandboxExclusion, PTL

\* A run that waits for a command of its own.
Awaits(r) == loop[r].at = "commanding" \/ (loop[r].at = "probing" /\ loop[r].probed > 0)

\* A run shown as running has its timer armed, or is still in the probe before the
\* loop; and the command it waits for is in line, or has ended with a result.
RunIsWatched ==
  \A r \in Runs :
    /\ run[r].status = "running" =>
         \/ runTimer[r] = "armed"
         \/ runTimer[r] = "off" /\ loop[r].at \in {"creating", "probing"}
    /\ Awaits(r) => op[CallOf[r]].at # "idle"

Watched(r) ==
  run[r].status = "running" =>
    \/ runTimer[r] = "armed"
    \/ runTimer[r] = "off" /\ loop[r].at \in {"creating", "probing"}

\* But for a stop of the agent, no call that was made becomes one that was not.
LEMMA KnownStays ==
  ASSUME SandboxTypeOK, (\E r \in Runs : RunStep(r)) \/ SandboxStep,
         NEW o \in Ops, op[o].at # "idle"
  PROVE  op'[o].at # "idle"
<1>1. ASSUME NEW p \in Ops, NEW s, NEW kind, Queue(p, s, kind) PROVE op'[o].at # "idle"
  BY <1>1 DEF Queue, SandboxTypeOK
<1>2. ASSUME NEW p \in Ops, NEW result \in {"returned", "threw"}, Ends(p, result)
      PROVE  op'[o].at # "idle"
  <2>1. op'[o] = IF o = p THEN [Idle EXCEPT !.at = result]
                 ELSE IF op[o].after = p THEN [op[o] EXCEPT !.after = NoOp] ELSE op[o]
    BY <1>2 DEF Ends, Released
  <2> QED
    BY <2>1 DEF Idle, SandboxTypeOK
<1>3. ASSUME NEW p \in Ops, OpStep(p) PROVE op'[o].at # "idle"
  <2>1. CASE Enter(p)
    BY <2>1 DEF Enter, SandboxTypeOK
  <2> QED
    BY <1>2, <1>3, <2>1 DEF OpStep, Unknown, CommandEnds, CloseEnds, CloseThrows
<1>4. ASSUME NEW r \in Runs, RunStep(r) PROVE op'[o].at # "idle"
  <2>1. UNCHANGED op \/ Queue(CallOf[r], run[r].session, "run")
    BY <1>4 DEF RunStep, CreateRun, Decides, Searched, Commanded, Probing, Created,
                CreateSession, ProbeCommand, AfterProbe, ProbeFails, TimesOut, sandboxVars
  <2> QED
    BY <1>1, <2>1, CallIsNoTimers
<1>5. CASE SandboxStep
  <2>1. ASSUME NEW s \in Sessions, CreateSession(s) \/ TtlFires(s) PROVE op'[o].at # "idle"
    <3>1. TtlOf[s] \in Ops
      BY SandboxConstants
    <3> QED
      BY <1>1, <2>1, <3>1 DEF CreateSession, TtlFires
  <2>2. ASSUME NEW s, NEW p \in UsersOps, NEW kind, Call(p, s, kind) PROVE op'[o].at # "idle"
    BY <1>1, <2>2 DEF Call, UsersOps
  <2> QED
    BY <1>3, <1>5, <2>1, <2>2 DEF SandboxStep, Fires, OpRuns
<1> QED
  BY <1>4, <1>5

WatchedInv == \A r \in Runs : Watched(r) /\ (Awaits(r) => op[CallOf[r]].at # "idle")

LEMMA QueuedIsKnown ==
  ASSUME SandboxTypeOK, NEW r \in Runs, NEW s, Queue(CallOf[r], s, "run")
  PROVE  op'[CallOf[r]].at # "idle"
BY CallIsNoTimers DEF Queue, SandboxTypeOK

\* A step of a run leaves it watched: whoever ends its timer has written a status,
\* and whoever waits has queued a command.
LEMMA RunStepWatches ==
  ASSUME SandboxTypeOK, RunsTypeOK, NEW r \in Runs, RunInv(r), Watched(r),
         Awaits(r) => op[CallOf[r]].at # "idle", RunStep(r)
  PROVE  /\ Watched(r)'
         /\ Awaits(r)' => op'[CallOf[r]].at # "idle"
<1> USE DEF Watched, Awaits
<1>t. /\ run \in [Runs -> RunRow] /\ loop \in [Runs -> LoopRow]
      /\ runTimer \in [Runs -> {"off", "armed", "elapsed"}]
  BY DEF RunsTypeOK
<1>g. ASSUME NEW place, Goes(r, place) PROVE loop'[r].at = place /\ loop'[r].probed = 0
  BY <1>t, <1>g DEF Goes
<1>a. ASSUME NEW status, status # "running", Answers(r, status)
      PROVE  run'[r].status # "running" /\ loop'[r].at = "idle"
  BY <1>a, <1>t DEF Answers, NotRunning, RunRow
<1>h. ASSUME Throws(r), loop[r].at \notin {"creating", "probing"}
      PROVE  run'[r].status # "running" /\ loop'[r].at = "idle"
  BY <1>a, <1>h, <1>t DEF Throws
<1>o. ASSUME NEW session, Observes(r, session), runTimer[r] # "off"
      PROVE  /\ run'[r].status = "running" => runTimer'[r] = "armed"
             /\ loop'[r].at \in {"reasoning", "idle"}
  <2>1. run[r].status = "running" => runTimer[r] = "armed"
    BY <1>o, <1>t
  <2>2. CASE run[r].iterations + 1 < MaxIterations
    BY <1>g, <1>o, <1>t, <2>1, <2>2 DEF Observes
  <2>3. CASE ~(run[r].iterations + 1 < MaxIterations)
    BY <1>g, <1>o, <1>t, <2>3 DEF Observes
  <2> QED
    BY <2>2, <2>3
<1>1. CASE CreateRun(r)
  <2>1. runTimer[r] = "off"
    BY <1>1, <1>t DEF CreateRun, RunInv, RaceInv
  <2> QED
    BY <1>1, <1>g, <1>t, <2>1 DEF CreateRun
<1>i. loop[r].at \in {"reasoning", "searching", "commanding"} => runTimer[r] # "off"
  BY <1>t DEF RunInv, RaceInv
<1>n. ASSUME NEW place, Goes(r, place), UNCHANGED <<run, runTimer>>,
             run[r].status = "running" => runTimer[r] = "armed" \/ place = "creating"
      PROVE  Watched(r)'
  BY <1>g, <1>n, <1>t
<1>2. CASE Decides(r)
  <2>0. run[r].status = "running" => runTimer[r] = "armed"
    BY <1>2, <1>i DEF Decides
  <2>1. ASSUME NEW status \in {"completed", "partial", "failed"}, Answers(r, status)
        PROVE  Watched(r)' /\ ~Awaits(r)'
    BY <1>a, <2>1
  <2>2. CASE Throws(r)
    BY <1>2, <1>h, <2>2 DEF Decides
  <2>3. CASE Goes(r, "searching") /\ UNCHANGED <<run, runTimer>>
    BY <1>g, <1>n, <2>0, <2>3
  <2>4. CASE Goes(r, "creating") /\ UNCHANGED <<run, runTimer>>
    BY <1>g, <1>n, <2>0, <2>4
  <2>5. CASE Queue(CallOf[r], run[r].session, "run") /\ Goes(r, "commanding")
             /\ UNCHANGED <<run, runTimer>>
    BY <1>n, <2>0, <2>5, QueuedIsKnown
  <2> QED
    BY <1>2, <2>1, <2>2, <2>3, <2>4, <2>5 DEF Decides
<1>3. CASE Searched(r) \/ Commanded(r)
  <2>1. runTimer[r] # "off" /\ loop[r].at \in {"searching", "commanding"}
    BY <1>3, <1>i DEF Searched, Commanded
  <2>2. Observes(r, run[r].session) \/ Throws(r)
    BY <1>3 DEF Searched, Commanded
  <2> QED
    BY <1>h, <1>o, <2>1, <2>2
<1>4. CASE Created(r)
  <2>1. /\ run'[r].status = run[r].status /\ UNCHANGED runTimer
        /\ loop[r].at = "creating" /\ Goes(r, "probing")
    BY <1>4, <1>t DEF Created, RunRow
  <2> QED
    BY <1>g, <2>1
<1>5. CASE ProbeCommand(r)
  <2>0. loop[r].at = "probing" /\ UNCHANGED run
    BY <1>5 DEF ProbeCommand
  <2>1. CASE Queue(CallOf[r], run[r].session, "run") /\ UNCHANGED runTimer
             /\ loop' = [loop EXCEPT ![r].probed = @ + 1]
    <3>1. loop'[r].at = "probing"
      BY <1>t, <2>0, <2>1 DEF LoopRow
    <3> QED
      BY <2>0, <2>1, <3>1, QueuedIsKnown
  <2>2. CASE ~InLoop(r) /\ runTimer' = [runTimer EXCEPT ![r] = "armed"] /\ Goes(r, "reasoning")
    BY <1>g, <1>t, <2>2
  <2>3. CASE InLoop(r) /\ Queue(CallOf[r], run[r].session, "run") /\ Goes(r, "commanding")
             /\ UNCHANGED runTimer
    BY <2>0, <2>3, QueuedIsKnown DEF InLoop
  <2> QED
    BY <1>5, <2>1, <2>2, <2>3 DEF ProbeCommand, AfterProbe
<1>6. CASE ProbeFails(r)
  <2>1. CASE InLoop(r) /\ Observes(r, NoSession)
    BY <1>o, <2>1 DEF InLoop
  <2>2. CASE Goes(r, "reasoning") /\ runTimer' = [runTimer EXCEPT ![r] = "armed"]
    BY <1>g, <1>t, <2>2
  <2> QED
    BY <1>6, <2>1, <2>2 DEF ProbeFails
<1>7. CASE TimesOut(r)
  BY <1>7, <1>t DEF TimesOut, RunRow, sandboxVars
<1> QED
  BY <1>1, <1>2, <1>3, <1>4, <1>5, <1>6, <1>7 DEF RunStep, Probing

LEMMA WatchedStep == AgentInv /\ WatchedInv /\ [AgentNext]_agentVars => WatchedInv'
<1> SUFFICES ASSUME AgentInv, WatchedInv, [AgentNext]_agentVars, NEW q \in Runs
             PROVE  Watched(q)' /\ (Awaits(q)' => op'[CallOf[q]].at # "idle")
  BY DEF WatchedInv
<1> USE DEF AgentInv, SandboxInv, WatchedInv
<1>0. CallOf[q] \in Ops
  BY CallIsNoTimers
<1>s. ASSUME run'[q] = run[q], loop'[q] = loop[q], runTimer'[q] = runTimer[q],
             op[CallOf[q]].at # "idle" => op'[CallOf[q]].at # "idle"
      PROVE  Watched(q)' /\ (Awaits(q)' => op'[CallOf[q]].at # "idle")
  BY <1>s DEF Watched, Awaits
<1>1. CASE RunStep(q)
  BY <1>1, RunStepWatches
<1>2. ASSUME NEW r \in Runs \ {q}, RunStep(r)
      PROVE  Watched(q)' /\ (Awaits(q)' => op'[CallOf[q]].at # "idle")
  <2>1. AllCreated \subseteq AllCreated'
    BY StepUsesSandbox, CreatedStays DEF AllCreated
  <2>2. MovesWell(r)
    BY <1>2, <2>1, RunStepMoves
  <2>3. run'[q] = run[q] /\ loop'[q] = loop[q] /\ runTimer'[q] = runTimer[q]
    BY <2>2 DEF MovesWell, MovesTo, RunsTypeOK
  <2> QED
    BY <1>0, <1>2, <1>s, <2>3, KnownStays
<1>3. CASE SandboxStep
  <2>1. UNCHANGED <<run, loop, runTimer>>
    BY <1>3 DEF SandboxStep, Fires, OpRuns, runVars
  <2> QED
    BY <1>0, <1>3, <1>s, <2>1, KnownStays
<1>4. CASE AgentStopsWithRuns
  BY <1>4 DEF AgentStopsWithRuns, NoRun, NotRunning, Watched, Awaits
<1>5. CASE UNCHANGED agentVars
  BY <1>5, <1>s DEF agentVars, sandboxVars, runVars
<1> QED
  BY <1>1, <1>2, <1>3, <1>4, <1>5 DEF AgentNext

\* The safety half of 'every run settles': a run shown as running has a timer armed,
\* or is in createSandboxProbe, which races no timeout; and the command a run awaits
\* is queued in its session, whose line moves on (LineMovesOn), or has been answered.
THEOREM RunsAreWatched == AgentSpec => []RunIsWatched
<1>1. AgentInit => WatchedInv
  BY DEF AgentInit, WatchedInv, Watched, Awaits, NoRun, NotRunning
<1>2. WatchedInv => RunIsWatched
  BY DEF WatchedInv, Watched, RunIsWatched
<1> QED
  BY <1>1, <1>2, WatchedStep, AgentRunInvariance, PTL DEF AgentSpec

\* What the sessions guarantee without runs they guarantee with them.
THEOREM NoRunIsStranded == AgentSpec => []LineMovesOn
BY UsesSandbox, NobodyIsStranded, PTL

\* An answer stands, but for a loop that lost the race and is still going.
THEOREM AnswersStand == AgentSpec => AnswerIsFinal
<1>1. AgentInv /\ [AgentNext]_agentVars =>
        [\A r \in Runs :
           \/ run[r].status \in {"none", "running"}
           \/ run'[r].status \in {run[r].status, "lost"}
           \/ run[r].status = "failed" /\ loop[r].at # "idle"]_run
  <2> SUFFICES ASSUME AgentInv, [AgentNext]_agentVars, run' # run, NEW r \in Runs,
                      run[r].status \notin {"none", "running"},
                      ~(run[r].status = "failed" /\ loop[r].at # "idle")
               PROVE  run'[r].status \in {run[r].status, "lost"}
    OBVIOUS
  <2>1. loop[r].at = "idle" /\ runTimer[r] = "off"
    BY DEF AgentInv, RunsTypeOK, RunInv, RaceInv
  <2>2. CASE RunStep(r)
    BY <2>1, <2>2 DEF RunStep, CreateRun, Decides, Searched, Commanded, Probing, Created,
                      ProbeCommand, ProbeFails, TimesOut
  <2>3. ASSUME NEW q \in Runs \ {r}, RunStep(q) PROVE run'[r] = run[r]
    <3>1. AllCreated \subseteq AllCreated'
      BY StepUsesSandbox, CreatedStays DEF AgentInv, SandboxInv, AllCreated
    <3>2. MovesWell(q)
      BY <2>3, <3>1, RunStepMoves DEF AgentInv, SandboxInv
    <3> QED
      BY <3>2 DEF MovesWell, MovesTo, AgentInv, RunsTypeOK
  <2>4. CASE AgentStopsWithRuns
    BY <2>4 DEF AgentStopsWithRuns, NoRun
  <2> QED
    BY <2>2, <2>3, <2>4 DEF AgentNext, SandboxStep, Fires, OpRuns, agentVars, runVars
<1> QED
  BY <1>1, AgentRunInvariance, PTL DEF AgentSpec, AnswerIsFinal
=============================================================================
