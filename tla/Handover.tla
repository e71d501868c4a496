------------------------------ MODULE Handover -------------------------------
(***************************************************************************)
(* What a remote file request promises its two users, without commands,    *)
(* messages, calls or restarts: a file changes hands only after the        *)
(* requester asked and the owner agreed to that file, the owner is told of *)
(* a receipt only when the requester holds the file, and no step takes any *)
(* of it back.                                                             *)
(***************************************************************************)

CONSTANTS
  Requests,   \* what may be asked
  Files       \* what may be handed over

VARIABLES
  asked,      \* requests that have reached the owner's relay
  agreed,     \* files the owner agreed to hand over, with the request
  held,       \* files the requester holds
  confirmed   \* files whose receipt the owner is told of

vars == <<asked, agreed, held, confirmed>>

Init == asked = {} /\ agreed = {} /\ held = {} /\ confirmed = {}

Ask(r) ==
  /\ asked' = asked \cup {r}
  /\ UNCHANGED <<agreed, held, confirmed>>

Agree(r, f) ==
  /\ r \in asked
  /\ agreed' = agreed \cup {<<r, f>>}
  /\ UNCHANGED <<asked, held, confirmed>>

Hold(h) ==
  /\ h \in agreed
  /\ held' = held \cup {h}
  /\ UNCHANGED <<asked, agreed, confirmed>>

Confirm(h) ==
  /\ h \in held
  /\ confirmed' = confirmed \cup {h}
  /\ UNCHANGED <<asked, agreed, held>>

Next ==
  \/ \E r \in Requests : Ask(r) \/ \E f \in Files : Agree(r, f)
  \/ \E h \in Requests \X Files : Hold(h) \/ Confirm(h)

Spec == Init /\ [][Next]_vars
=============================================================================
