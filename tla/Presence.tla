------------------------------ MODULE Presence -------------------------------
(***************************************************************************)
(* The control plane's presence table: what agents' heartbeats, the admin  *)
(* and the 60-second sweep write of one agent instance                     *)
(* (presence/PresenceService.ts, admin/AdminRoutes.ts).                    *)
(*                                                                         *)
(* A heartbeat is let in, takes the time, and writes, in three statements; *)
(* the sweep takes the time once and marks in two.  Times are kept as how  *)
(* long ago they were, in units the thresholds are whole numbers of.       *)
(***************************************************************************)
EXTENDS Naturals

CONSTANTS
  Hearts,      \* heartbeats of the instance under way at a time
  OnlineFor,   \* HEARTBEAT_ONLINE_THRESHOLD_MS
  StaleFor,    \* HEARTBEAT_STALE_THRESHOLD_MS
  SweepTakes   \* bound: the longest a sweep takes

ASSUME PresenceConstants ==
  /\ OnlineFor \in Nat /\ StaleFor \in Nat /\ SweepTakes \in Nat
  /\ OnlineFor < StaleFor

VARIABLES
  instance,   \* agent_instances.status, "none" before enrollment
  presence,   \* the row's status, and how long ago last_heartbeat_at was
  heart,      \* each heartbeat: how far it is, how long ago it took the time
  marking     \* the sweep: the statements left to it, how long ago it took the time

presenceVars == <<instance, presence, heart, marking>>

\* Beyond this, no comparison of ages changes.
OldAge == StaleFor + SweepTakes + 1
Older(age) == IF age < OldAge THEN age + 1 ELSE age

NoHeart == [at |-> "idle", ago |-> 0]
NotMarking == [left |-> {}, ago |-> 0]

PresenceTypeOK ==
  /\ instance \in {"none", "active", "disabled", "revoked"}
  /\ presence \in [status : {"none", "online", "stale", "offline", "revoked"}, ago : 0 .. OldAge]
  /\ heart \in [Hearts -> [at : {"idle", "allowed", "timed"}, ago : 0 .. OldAge]]
  /\ marking \in [left : SUBSET {"online", "stale"}, ago : 0 .. SweepTakes]

PresenceInit ==
  /\ instance = "none"
  /\ presence = [status |-> "none", ago |-> 0]
  /\ heart = [h \in Hearts |-> NoHeart]
  /\ marking = NotMarking

-----------------------------------------------------------------------------

\* Enrolling again makes any instance active, whatever the admin had made of it.
EnrollInstance ==
  /\ instance' = "active"
  /\ presence' = [status |-> "online", ago |-> 0]
  /\ UNCHANGED <<heart, marking>>

\* One transaction; a disabled user's instances are only those still active.
Disable(as) ==
  /\ instance # "none"
  /\ instance' = as
  /\ presence' = [status |-> "revoked", ago |-> 0]
  /\ UNCHANGED <<heart, marking>>

\* requireDeviceAuth lets the request in.
HeartAllowed(h) ==
  /\ heart[h].at = "idle"
  /\ instance = "active"
  /\ heart' = [heart EXCEPT ![h].at = "allowed"]
  /\ UNCHANGED <<instance, presence, marking>>

\* The instance is read again, and only 'revoked' is looked for.
HeartTimed(h) ==
  /\ heart[h].at = "allowed"
  /\ instance # "revoked"
  /\ heart' = [heart EXCEPT ![h] = [at |-> "timed", ago |-> 0]]
  /\ UNCHANGED <<instance, presence, marking>>

\* The upsert: whatever the row says and however late the request.  The endpoint takes
\* any status; the only sender there is, HeartbeatService.ts, says "online".
HeartWrites(h) ==
  /\ heart[h].at = "timed"
  /\ presence' = [status |-> "online", ago |-> heart[h].ago]
  /\ heart' = [heart EXCEPT ![h] = NoHeart]
  /\ UNCHANGED <<instance, marking>>

HeartFails(h) ==
  /\ heart[h].at # "idle"
  /\ heart' = [heart EXCEPT ![h] = NoHeart]
  /\ UNCHANGED <<instance, presence, marking>>

-----------------------------------------------------------------------------
(* recomputeStalePresence *)

MarkStart ==
  /\ instance # "none" /\ marking.left = {}
  /\ marking' = [left |-> {"online", "stale"}, ago |-> 0]
  /\ UNCHANGED <<instance, presence, heart>>

\* The status each statement looks for; the cutoff is its threshold before the
\* time the sweep took.
AgedOut_stays_stale(was) ==
  IF was = "online" THEN [to |-> "stale", limit |-> OnlineFor]
  ELSE [to |-> "stale", limit |-> StaleFor]
AgedOut(was) ==
  IF was = "online" THEN [to |-> "stale", limit |-> OnlineFor]
  ELSE [to |-> "offline", limit |-> StaleFor]

Mark(was) ==
  /\ was \in marking.left /\ (was = "stale" => "online" \notin marking.left)
  /\ presence' = IF presence.status = was /\ presence.ago > AgedOut(was).limit + marking.ago
                 THEN [presence EXCEPT !.status = AgedOut(was).to] ELSE presence
  /\ marking' = IF was = "stale" THEN NotMarking ELSE [marking EXCEPT !.left = @ \ {was}]
  /\ UNCHANGED <<instance, heart>>

\* Time passes, from the enrollment on; no sweep takes longer than SweepTakes.
TimePasses ==
  /\ instance # "none"
  /\ marking.left # {} => marking.ago < SweepTakes
  /\ presence' = [presence EXCEPT !.ago = Older(@)]
  /\ heart' = [h \in Hearts |->
                IF heart[h].at = "timed" THEN [heart[h] EXCEPT !.ago = Older(@)] ELSE heart[h]]
  /\ marking' = IF marking.left = {} THEN marking ELSE [marking EXCEPT !.ago = @ + 1]
  /\ UNCHANGED instance

HeartStep(h) == HeartAllowed(h) \/ HeartTimed(h) \/ HeartWrites(h) \/ HeartFails(h)

MarkStep == MarkStart \/ \E was \in {"online", "stale"} : Mark(was)

PresenceNext ==
  \/ EnrollInstance
  \/ \E as \in {"disabled", "revoked"} : Disable(as)
  \/ \E h \in Hearts : HeartStep(h)
  \/ MarkStep
  \/ TimePasses

PresenceSpec == PresenceInit /\ [][PresenceNext]_presenceVars

\* The timer fires for ever, and every request ends.
PresenceFairness ==
  /\ \A h \in Hearts : WF_presenceVars(HeartTimed(h) \/ HeartWrites(h) \/ HeartFails(h))
  /\ WF_presenceVars(MarkStep) /\ WF_presenceVars(TimePasses)

-----------------------------------------------------------------------------

\* An instance the admin disables for good is not shown as there for ever, although a
\* heartbeat that was under way may have made it 'online' again.
DisabledFadesOut ==
  <>[](instance # "active") => <>[](presence.status \notin {"online", "stale"})
=============================================================================
