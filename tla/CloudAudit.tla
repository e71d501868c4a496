----------------------------- MODULE CloudAudit ------------------------------
(***************************************************************************)
(* The control plane's audit chain (audit/CloudAuditService.ts).           *)
(*                                                                         *)
(* An append takes the time, then reads the last row, then inserts a row   *)
(* whose hash covers the one it read.  Nothing makes the three one step:   *)
(* some callers are in a transaction of their own, none locks the table.   *)
(* verifyAuditChain walks the rows by time and then by random id.          *)
(***************************************************************************)
EXTENDS Naturals

CONSTANTS
  Ids,        \* the random ids of the appends there may be, in their order as text
  MaxClock    \* bound: milliseconds of the clock

ASSUME AuditConstants == Ids \subseteq Nat \ {0} /\ MaxClock \in Nat

VARIABLES
  rows,        \* audit_events of one organisation; prev is the row the hash covers
  append,      \* each appendAuditEvent, by the id it drew
  clock,
  overlapped   \* history: two appends were under way at once, or shared a millisecond

auditVars == <<rows, append, clock, overlapped>>

NoRow == 0   \* previous_hash is NULL
NotAppending == [at |-> "idle", time |-> 0, prev |-> NoRow]

AuditTypeOK ==
  /\ rows \subseteq [id : Ids, time : 0 .. MaxClock, prev : Ids \cup {NoRow}]
  /\ append \in [Ids -> [at : {"idle", "begun", "read", "ended"},
                         time : 0 .. MaxClock, prev : Ids \cup {NoRow}]]
  /\ clock \in 0 .. MaxClock
  /\ overlapped \in BOOLEAN

AuditInit ==
  /\ rows = {}
  /\ append = [a \in Ids |-> NotAppending]
  /\ clock = 0
  /\ overlapped = FALSE

\* ORDER BY created_at, id
Before(r, s) == r.time < s.time \/ (r.time = s.time /\ r.id < s.id)

-----------------------------------------------------------------------------

UnderWay(a) == append[a].at \in {"begun", "read"}

\* The id is drawn and the time taken.
AppendBegin(a) ==
  /\ append[a].at = "idle"
  /\ append' = [append EXCEPT ![a] = [at |-> "begun", time |-> clock, prev |-> NoRow]]
  /\ overlapped' = \/ overlapped
                   \/ \E b \in Ids : UnderWay(b)
                   \/ \E r \in rows : r.time = clock
  /\ UNCHANGED <<rows, clock>>

\* SELECT ... ORDER BY created_at DESC, id DESC LIMIT 1
Last(set) ==
  IF set = {} THEN NoRow
  ELSE (CHOOSE r \in set : \A s \in set \ {r} : Before(s, r)).id

AppendRead_unordered(a) ==
  /\ append[a].at = "begun"
  /\ \E last \in IF rows = {} THEN {NoRow} ELSE {r.id : r \in rows} :
       append' = [append EXCEPT ![a].at = "read", ![a].prev = last]
  /\ UNCHANGED <<rows, clock, overlapped>>
AppendRead(a) ==
  /\ append[a].at = "begun"
  /\ append' = [append EXCEPT ![a].at = "read", ![a].prev = Last(rows)]
  /\ UNCHANGED <<rows, clock, overlapped>>

\* The INSERT, which others see when it commits, or which fails.
AppendInsert(a) ==
  /\ append[a].at = "read"
  /\ \/ rows' = rows \cup {[id |-> a, time |-> append[a].time, prev |-> append[a].prev]}
     \/ UNCHANGED rows
  /\ append' = [append EXCEPT ![a] = [NotAppending EXCEPT !.at = "ended"]]
  /\ UNCHANGED <<clock, overlapped>>

ClockTicks ==
  /\ clock < MaxClock
  /\ clock' = clock + 1
  /\ UNCHANGED <<rows, append, overlapped>>

AppendStep(a) == AppendBegin(a) \/ AppendRead(a) \/ AppendInsert(a)

AuditNext == ClockTicks \/ \E a \in Ids : AppendStep(a)

AuditSpec == AuditInit /\ [][AuditNext]_auditVars

-----------------------------------------------------------------------------

\* verifyAuditChain: a row's hash covers the row that comes before it.
Verifies == \A r \in rows : r.prev = Last({s \in rows : Before(s, r)})

\* As long as no two appends overlap or share a millisecond, in whatever order
\* their ids fall and whichever of them fail, the chain verifies.
AuditVerifies == ~overlapped => Verifies
=============================================================================
