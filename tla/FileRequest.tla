---------------------------- MODULE FileRequest ------------------------------
(***************************************************************************)
(* A remote file request from the spoken command to the receipt: the       *)
(* requester's commands (VoiceCommand), the owner's approvals and          *)
(* transfers (ReceiverApproval), and the dispatches of the relay messages  *)
(* between them (src/runtime/RemoteTaskDispatcher.ts).                     *)
(*                                                                         *)
(* Of the relay this module uses what RelayQueue and RelayDelivery         *)
(* establish: a message is handed to its receiver any number of times,     *)
(* also to dispatches that overlap, until the receiver has a ledger row    *)
(* for it.                                                                 *)
(***************************************************************************)
EXTENDS VoiceCommand, ReceiverApproval

CONSTANTS
  RequestOf,   \* the command whose request each approval is created for
  Fetches,     \* the requester's dispatches of transfers that may overlap
  NoApproval

ASSUME FlowConstants ==
  /\ RequestOf \in [Approvals -> Commands]
  /\ NoApproval \notin Approvals

VARIABLES
  search,      \* the owner's dispatch of the request, by the approval it creates
  answered,    \* the owner's local_relay_dispatches row of the request
  fetch,       \* the requester's dispatches of file.transfer.available
  recorded,    \* the requester's local_relay_dispatches row of that message
  received,    \* the bytes in the requester's agentic storage
  completed,   \* the control plane has the receipt: file_transfers is 'completed'
  told         \* the file.transfer.receipt message is at the relay

dispatchVars == <<search, answered, fetch, recorded, received, completed, told>>
flowVars == <<voiceVars, receiverVars, dispatchVars>>

Outcomes == {"none", "created", "failed"}
NoFetch == [at |-> "idle", of |-> NoApproval]

FlowTypeOK ==
  /\ VoiceTypeOK
  /\ ReceiverTypeOK
  /\ search \in [Approvals -> {"idle", "searching", "recording"}]
  /\ answered \in [Commands -> Outcomes]
  /\ fetch \in [Fetches -> [at : {"idle", "download", "stored", "receipted", "told"},
                            of : Approvals \cup {NoApproval}]]
  /\ recorded \in [Approvals -> Outcomes]
  /\ received \in [Approvals -> Bytes \cup {NoBytes}]
  /\ completed \in [Approvals -> BOOLEAN]
  /\ told \in [Approvals -> BOOLEAN]
  /\ \A r \in Fetches : fetch[r].at # "idle" => fetch[r].of \in Approvals

FlowInit ==
  /\ VoiceInit
  /\ ReceiverInit
  /\ search = [a \in Approvals |-> "idle"]
  /\ answered = [c \in Commands |-> "none"]
  /\ fetch = [r \in Fetches |-> NoFetch]
  /\ recorded = [a \in Approvals |-> "none"]
  /\ received = [a \in Approvals |-> NoBytes]
  /\ completed = [a \in Approvals |-> FALSE]
  /\ told = [a \in Approvals |-> FALSE]

\* The ledger is UNIQUE per message: a second INSERT throws, out of the dispatch.
Recorded(row, s) == IF row = "none" THEN s ELSE row

-----------------------------------------------------------------------------
(* The owner's agent: handleIncomingFileRequest *)

Requested(c) == \E t \in tasks : t.command = c

Search(a) ==
  /\ search[a] = "idle" /\ approval[a].status = "none"
  /\ Requested(RequestOf[a])
  /\ answered[RequestOf[a]] = "none"
  /\ search' = [search EXCEPT ![a] = "searching"]
  /\ UNCHANGED <<voiceVars, receiverVars, answered, fetch, recorded, received, completed, told>>

\* After the await of the search: the approval is inserted, whatever an
\* overlapping dispatch has inserted meanwhile.
Found(a) ==
  /\ search[a] = "searching"
  /\ CreateApproval(a)
  /\ search' = [search EXCEPT ![a] = "recording"]
  /\ UNCHANGED <<voiceVars, answered, fetch, recorded, received, completed, told>>

EndsAs(a, outcomes) ==
  \E s \in outcomes :
    answered' = [answered EXCEPT ![RequestOf[a]] = Recorded(@, s)]

\* The dispatch ends, with the approval or without, and records how.
SearchEnds(a) ==
  /\ \/ search[a] = "searching" /\ EndsAs(a, {"failed"})
     \/ search[a] = "recording" /\ EndsAs(a, {"created", "failed"})
  /\ search' = [search EXCEPT ![a] = "idle"]
  /\ UNCHANGED <<voiceVars, receiverVars, fetch, recorded, received, completed, told>>

-----------------------------------------------------------------------------
(* The requester's agent: handleTransferAvailable *)

StartFetch(r, a) ==
  /\ fetch[r].at = "idle"
  /\ announced[a] # NoBytes
  /\ recorded[a] = "none"
  /\ fetch' = [fetch EXCEPT ![r] = [at |-> "download", of |-> a]]
  /\ UNCHANGED <<voiceVars, receiverVars, search, answered, recorded, received, completed, told>>

\* storeReceivedRelayFile compares the hash of what it got with the announced one.
Verified(a) == uploaded[a] = announced[a]

Store(r) ==
  LET a == fetch[r].of
  IN /\ fetch[r].at = "download"
     /\ Verified(a)
     /\ received' = [received EXCEPT ![a] = uploaded[a]]
     /\ fetch' = [fetch EXCEPT ![r].at = "stored"]
     /\ UNCHANGED <<voiceVars, receiverVars, search, answered, recorded, completed, told>>

\* The control plane takes one receipt per transfer; a second one is refused.
Receipt_unstored(r) ==
  LET a == fetch[r].of
  IN /\ fetch[r].at \in {"download", "stored"}
     /\ ~completed[a]
     /\ completed' = [completed EXCEPT ![a] = TRUE]
     /\ fetch' = [fetch EXCEPT ![r].at = "receipted"]
     /\ UNCHANGED <<voiceVars, receiverVars, search, answered, recorded, received, told>>
Receipt(r) ==
  LET a == fetch[r].of
  IN /\ fetch[r].at = "stored"
     /\ ~completed[a]
     /\ completed' = [completed EXCEPT ![a] = TRUE]
     /\ fetch' = [fetch EXCEPT ![r].at = "receipted"]
     /\ UNCHANGED <<voiceVars, receiverVars, search, answered, recorded, received, told>>

Tell(r) ==
  LET a == fetch[r].of
  IN /\ fetch[r].at = "receipted"
     /\ told' = [told EXCEPT ![a] = TRUE]
     /\ fetch' = [fetch EXCEPT ![r].at = "told"]
     /\ UNCHANGED <<voiceVars, receiverVars, search, answered, recorded, received, completed>>

FetchEnds_goes_on(r, s) ==
  LET a == fetch[r].of
  IN /\ recorded' = [recorded EXCEPT ![a] = Recorded(@, s)]
     /\ fetch' = [fetch EXCEPT ![r].of = NoApproval]
     /\ UNCHANGED <<voiceVars, receiverVars, search, answered, received>>
FetchEnds(r, s) ==
  LET a == fetch[r].of
  IN /\ recorded' = [recorded EXCEPT ![a] = Recorded(@, s)]
     /\ fetch' = [fetch EXCEPT ![r] = NoFetch]
     /\ UNCHANGED <<voiceVars, receiverVars, search, answered, received>>

FetchDone(r) ==
  /\ fetch[r].at = "told"
  /\ FetchEnds(r, "created")
  /\ UNCHANGED <<completed, told>>

\* A call fails, the hash differs or the append throws; a receipt, to the
\* control plane or to the owner, may have been taken without an answer.
FetchFails(r) ==
  LET a == fetch[r].of
  IN /\ fetch[r].at # "idle"
     /\ FetchEnds(r, "failed")
     /\ \/ UNCHANGED <<completed, told>>
        \/ /\ fetch[r].at = "stored"
           /\ completed' = [completed EXCEPT ![a] = TRUE]
           /\ UNCHANGED told
        \/ /\ fetch[r].at = "receipted"
           /\ told' = [told EXCEPT ![a] = TRUE]
           /\ UNCHANGED completed

-----------------------------------------------------------------------------

RequesterStops ==
  /\ VoiceCrash
  /\ fetch' = [r \in Fetches |-> NoFetch]
  /\ UNCHANGED <<receiverVars, search, answered, recorded, received, completed, told>>

OwnersAgentStops ==
  /\ OwnerStops
  /\ search' = [a \in Approvals |-> "idle"]
  /\ UNCHANGED <<voiceVars, answered, fetch, recorded, received, completed, told>>

Commanding ==
  /\ (\E c \in Commands : VoiceStep(c)) \/ (\E t \in stray : ServeLate(t))
  /\ UNCHANGED <<receiverVars, dispatchVars>>

Owning ==
  /\ \E a \in Approvals : Decide(a) \/ Transfer(a)
  /\ UNCHANGED <<voiceVars, dispatchVars>>

Fetching(r) ==
  \/ \E a \in Approvals : StartFetch(r, a)
  \/ Store(r) \/ Receipt(r) \/ Tell(r) \/ FetchDone(r) \/ FetchFails(r)

FlowNext ==
  \/ Commanding
  \/ Owning
  \/ \E a \in Approvals : Search(a) \/ Found(a) \/ SearchEnds(a)
  \/ \E r \in Fetches : Fetching(r)
  \/ RequesterStops
  \/ OwnersAgentStops

FlowSpec == FlowInit /\ [][FlowNext]_flowVars

-----------------------------------------------------------------------------

\* The owner is told of a receipt only for bytes the requester has stored and
\* verified and the control plane has marked completed; a transfer recorded as
\* received was told, however fetches overlap or are cut off.
ReceiptIsHeld ==
  \A a \in Approvals :
    /\ told[a] => completed[a]
    /\ completed[a] => received[a] # NoBytes /\ received[a] = announced[a]
    /\ recorded[a] = "created" => told[a]

\* The files and requests of the two users are handed over as Handover says:
\* asked, agreed to by the owner, held, confirmed, and nothing taken back.
Asked == {t.command : t \in tasks}
Agreed ==
  {<<RequestOf[a], approval[a].file>> :
     a \in {b \in Approvals : approval[b].status \in {"approved", "transferred", "failed"}}}
HeldFiles ==
  {<<RequestOf[a], received[a][1]>> : a \in {b \in Approvals : received[b] # NoBytes}}
Confirmed ==
  {<<RequestOf[a], received[a][1]>> : a \in {b \in Approvals : told[b]}}

Promise ==
  INSTANCE Handover WITH Requests <- Commands, asked <- Asked, agreed <- Agreed,
                         held <- HeldFiles, confirmed <- Confirmed

ImplementsHandover == Promise!Spec
=============================================================================
