-------------------------- MODULE FileRequestProofs --------------------------
(***************************************************************************)
(* Theorems about FileRequest and the ReceiverApproval it composes with    *)
(* VoiceCommand, for any number of commands, approvals, files and fetches: *)
(* the types, what an approval lets out, what a receipt stands for, and    *)
(* that the whole flow implements Handover.                                *)
(***************************************************************************)
EXTENDS FileRequest, VoiceCommandProofs

-----------------------------------------------------------------------------
(* The owner's side *)

AgreedStatus == {"approved", "transferred", "failed"}

\* A file was selected by whoever approved.
SelectedInv(a) == approval[a].status \in AgreedStatus => approval[a].file \in Files

\* A transfer under way belongs to an approval decided for what it read.
UnderWayInv(a) ==
  transfer[a].at # "idle" =>
    /\ approval[a].status = "approved"
    /\ transfer[a].at # "kicked" =>
         transfer[a].bytes \in Bytes /\ transfer[a].bytes[1] = approval[a].file

\* What the control plane and the relay have of it, by the place it is at.
ProgressInv(a) ==
  /\ transfer[a].at \in {"kicked", "read", "created"} => uploaded[a] = NoBytes
  /\ transfer[a].at \in {"uploaded", "announced"} => uploaded[a] = transfer[a].bytes
  /\ transfer[a].at \in {"kicked", "read", "created", "uploaded"} => announced[a] = NoBytes
  /\ transfer[a].at = "announced" => announced[a] = uploaded[a]

LeavesInv(a) ==
  /\ uploaded[a] # NoBytes =>
       approval[a].status \in AgreedStatus /\ uploaded[a][1] = approval[a].file
  /\ announced[a] # NoBytes => announced[a] = uploaded[a]
  /\ approval[a].status = "transferred" => announced[a] # NoBytes

ApprovalInv(a) == SelectedInv(a) /\ UnderWayInv(a) /\ ProgressInv(a) /\ LeavesInv(a)

OwnerInv == ReceiverTypeOK /\ \A a \in Approvals : ApprovalInv(a)

\* The three steps of the owner's side that concern one approval.
OwnerStep(a) == CreateApproval(a) \/ Decide(a) \/ Transfer(a)

LEMMA NoBytesIsNone == NoBytes \notin Bytes
BY ReceiverConstants DEF NoBytes, Bytes

LEMMA OwnerTypes ==
  ASSUME ReceiverTypeOK, NEW a \in Approvals, ApprovalInv(a), OwnerStep(a)
  PROVE  ReceiverTypeOK'
<1> USE DEF ReceiverTypeOK
<1>1. CASE CreateApproval(a)
  BY <1>1 DEF CreateApproval, ApprovalStatus
<1>2. CASE RejectTransfer(a)
  BY <1>2 DEF RejectTransfer, ApprovalStatus
<1>3. ASSUME NEW f \in Files, ApproveTransfer(a, f) PROVE ReceiverTypeOK'
  BY <1>3 DEF ApproveTransfer, ApprovalStatus
<1>4. CASE ReadFile(a)
  <2>1. PICK v \in Versions :
          transfer' = [transfer EXCEPT ![a] = [at |-> "read", bytes |-> <<approval[a].file, v>>]]
    BY <1>4 DEF ReadFile
  <2>2. approval[a].file \in Files
    BY <1>4 DEF ReadFile, At, ApprovalInv, UnderWayInv, SelectedInv, AgreedStatus
  <2>3. <<approval[a].file, v>> \in Bytes
    BY <2>2 DEF Bytes
  <2> QED
    BY <1>4, <2>1, <2>3 DEF ReadFile
<1>5. CASE InitUpload(a)
  BY <1>5 DEF InitUpload, Goto
<1>6. CASE Upload(a)
  BY <1>6 DEF Upload, Goto
<1>7. CASE Announce(a)
  BY <1>7 DEF Announce, Goto
<1>8. CASE Transferred(a)
  BY <1>8 DEF Transferred, Marked, NoTransfer, ApprovalStatus
<1>9. CASE TransferFails(a)
  BY <1>9 DEF TransferFails, Marked, NoTransfer, ApprovalStatus
<1>10. CASE ServedUnanswered(a)
  BY <1>10 DEF ServedUnanswered, Marked, NoTransfer, ApprovalStatus
<1> QED
  BY <1>1, <1>2, <1>3, <1>4, <1>5, <1>6, <1>7, <1>8, <1>9, <1>10
  DEF OwnerStep, Decide, Transfer

\* A step of one approval leaves every other as it is.
LEMMA OwnerStepIsLocal ==
  ASSUME ReceiverTypeOK, NEW a \in Approvals, OwnerStep(a), NEW b \in Approvals \ {a}
  PROVE  /\ approval'[b] = approval[b] /\ transfer'[b] = transfer[b]
         /\ uploaded'[b] = uploaded[b] /\ announced'[b] = announced[b]
BY DEF ReceiverTypeOK, OwnerStep, CreateApproval, Decide, RejectTransfer, ApproveTransfer,
       Transfer, ReadFile, InitUpload, Upload, Announce, Transferred, TransferFails,
       ServedUnanswered, Marked, Goto

LEMMA OwnerStepKeeps ==
  ASSUME ReceiverTypeOK, NEW a \in Approvals, ApprovalInv(a), OwnerStep(a)
  PROVE  ApprovalInv(a)'
<1> USE DEF ReceiverTypeOK, ApprovalInv, SelectedInv, UnderWayInv, ProgressInv, LeavesInv,
            AgreedStatus, At
<1>0. NoBytes \notin Bytes
  BY NoBytesIsNone
<1>1. CASE CreateApproval(a)
  BY <1>1 DEF CreateApproval
<1>2. CASE RejectTransfer(a)
  BY <1>2 DEF RejectTransfer, Undecided
<1>3. ASSUME NEW f \in Files, ApproveTransfer(a, f) PROVE ApprovalInv(a)'
  BY <1>3 DEF ApproveTransfer, Undecided
<1>4. CASE ReadFile(a)
  <2>1. PICK v \in Versions :
          transfer' = [transfer EXCEPT ![a] = [at |-> "read", bytes |-> <<approval[a].file, v>>]]
    BY <1>4 DEF ReadFile
  <2>2. approval[a].file \in Files
    BY <1>4 DEF ReadFile
  <2>3. /\ transfer'[a].at = "read" /\ transfer'[a].bytes = <<approval[a].file, v>>
        /\ UNCHANGED <<approval, uploaded, announced>>
    BY <1>4, <2>1 DEF ReadFile
  <2>4. transfer'[a].bytes \in Bytes /\ transfer'[a].bytes[1] = approval[a].file
    BY <2>2, <2>3 DEF Bytes
  <2> QED
    BY <1>4, <2>3, <2>4 DEF ReadFile
<1>5. CASE InitUpload(a)
  BY <1>5 DEF InitUpload, Goto
<1>6. CASE Upload(a)
  BY <1>0, <1>6 DEF Upload, Goto
<1>7. CASE Announce(a)
  BY <1>0, <1>7 DEF Announce, Goto
<1>8. CASE Transferred(a)
  BY <1>0, <1>8 DEF Transferred, Marked, NoTransfer
<1>9. CASE TransferFails(a)
  BY <1>0, <1>9 DEF TransferFails, Marked, NoTransfer
<1>10. CASE ServedUnanswered(a)
  BY <1>0, <1>10 DEF ServedUnanswered, Marked, NoTransfer
<1> QED
  BY <1>1, <1>2, <1>3, <1>4, <1>5, <1>6, <1>7, <1>8, <1>9, <1>10
  DEF OwnerStep, Decide, Transfer

LEMMA OwnerStepInvariance ==
  ASSUME OwnerInv, NEW a \in Approvals, OwnerStep(a)
  PROVE  OwnerInv'
<1>1. ReceiverTypeOK'
  BY OwnerTypes DEF OwnerInv
<1>2. ASSUME NEW b \in Approvals PROVE ApprovalInv(b)'
  <2>1. CASE b = a
    BY <2>1, OwnerStepKeeps DEF OwnerInv
  <2>2. CASE b # a
    <3>1. /\ approval'[b] = approval[b] /\ transfer'[b] = transfer[b]
          /\ uploaded'[b] = uploaded[b] /\ announced'[b] = announced[b]
      BY <2>2, OwnerStepIsLocal DEF OwnerInv
    <3> QED
      BY <3>1 DEF OwnerInv, ApprovalInv, SelectedInv, UnderWayInv, ProgressInv, LeavesInv
  <2> QED
    BY <2>1, <2>2
<1> QED
  BY <1>1, <1>2 DEF OwnerInv

LEMMA OwnerStopsInvariance ==
  ASSUME OwnerInv, OwnerStops PROVE OwnerInv'
<1>1. ReceiverTypeOK'
  BY DEF OwnerInv, OwnerStops, ReceiverTypeOK, NoTransfer
<1>2. ASSUME NEW b \in Approvals PROVE ApprovalInv(b)'
  <2>1. transfer'[b] = NoTransfer /\ UNCHANGED <<approval, uploaded, announced>>
    BY DEF OwnerStops
  <2> QED
    BY <2>1 DEF OwnerInv, ApprovalInv, SelectedInv, UnderWayInv, ProgressInv, LeavesInv,
                NoTransfer
<1> QED
  BY <1>1, <1>2 DEF OwnerInv

\* What is announced stays announced and uploaded, as the same bytes.
LEMMA AnnouncedStays ==
  ASSUME OwnerInv, NEW a \in Approvals, OwnerStep(a), NEW b \in Approvals,
         announced[b] # NoBytes
  PROVE  announced'[b] = announced[b] /\ uploaded'[b] = uploaded[b]
<1>1. CASE b # a
  BY <1>1, OwnerStepIsLocal DEF OwnerInv
<1>2. CASE b = a
  BY <1>2
  DEF OwnerInv, ReceiverTypeOK, ApprovalInv, UnderWayInv, ProgressInv, LeavesInv, OwnerStep,
      CreateApproval, Decide, RejectTransfer, ApproveTransfer, Transfer, ReadFile, InitUpload,
      Upload, Announce, Transferred, TransferFails, ServedUnanswered, At
<1> QED
  BY <1>1, <1>2

\* A decided approval keeps its row.
LEMMA DecidedStays ==
  ASSUME OwnerInv, NEW a \in Approvals, OwnerStep(a), NEW b \in Approvals,
         approval[b].status \in {"rejected", "transferred", "failed"}
  PROVE  approval'[b] = approval[b]
<1>1. CASE b # a
  BY <1>1, OwnerStepIsLocal DEF OwnerInv
<1>2. CASE b = a
  BY <1>2
  DEF OwnerInv, ApprovalInv, UnderWayInv, OwnerStep, CreateApproval, Decide, RejectTransfer,
      ApproveTransfer, Undecided, Transfer, ReadFile, InitUpload, Upload, Announce, Transferred,
      TransferFails, ServedUnanswered, At
<1> QED
  BY <1>1, <1>2

-----------------------------------------------------------------------------
(* The flow *)

DispatchTypeOK ==
  /\ search \in [Approvals -> {"idle", "searching", "recording"}]
  /\ answered \in [Commands -> Outcomes]
  /\ fetch \in [Fetches -> [at : {"idle", "download", "stored", "receipted", "told"},
                            of : Approvals \cup {NoApproval}]]
  /\ recorded \in [Approvals -> Outcomes]
  /\ received \in [Approvals -> Bytes \cup {NoBytes}]
  /\ completed \in [Approvals -> BOOLEAN]
  /\ told \in [Approvals -> BOOLEAN]
  /\ \A r \in Fetches : fetch[r].at # "idle" => fetch[r].of \in Approvals

\* Who searches, or has an approval, was asked.
AskedInv ==
  \A a \in Approvals :
    search[a] # "idle" \/ approval[a].status # "none" => Requested(RequestOf[a])

\* What the requester holds is what was announced to it.
HeldInv == \A a \in Approvals : received[a] # NoBytes => received[a] = announced[a]

\* What a fetch has done by the place it is at.
HasDone(r) ==
  fetch[r].at # "idle" =>
    /\ announced[fetch[r].of] # NoBytes
    /\ fetch[r].at \in {"stored", "receipted", "told"} => received[fetch[r].of] # NoBytes
    /\ fetch[r].at \in {"receipted", "told"} => completed[fetch[r].of]
    /\ fetch[r].at = "told" => told[fetch[r].of]

FetchInv == \A r \in Fetches : HasDone(r)

DispatchInv == DispatchTypeOK /\ AskedInv /\ HeldInv /\ FetchInv /\ ReceiptIsHeld

FlowInv == CommandInv /\ OwnerInv /\ DispatchInv

\* The steps of the commands and of the owner's approvals leave the dispatches to
\* their invariant: tasks only grow, and what is announced stays.
LEMMA DispatchUntouched ==
  ASSUME DispatchInv, UNCHANGED dispatchVars,
         tasks \subseteq tasks',
         \A a \in Approvals :
           /\ announced[a] # NoBytes => announced'[a] = announced[a]
           /\ approval[a].status = "none" => approval'[a].status = "none"
  PROVE  DispatchInv'
<1> USE DEF dispatchVars
<1>1. DispatchTypeOK'
  BY DEF DispatchInv, DispatchTypeOK
<1>2. AskedInv'
  BY DEF DispatchInv, AskedInv, Requested
<1>3. HeldInv'
  BY DEF DispatchInv, HeldInv
<1>4. FetchInv'
  BY DEF DispatchInv, DispatchTypeOK, FetchInv, HasDone
<1>5. ReceiptIsHeld'
  BY DEF DispatchInv, ReceiptIsHeld, HeldInv
<1> QED
  BY <1>1, <1>2, <1>3, <1>4, <1>5 DEF DispatchInv

LEMMA CommandingKeeps ==
  ASSUME FlowInv, Commanding PROVE FlowInv'
<1>1. CommandStep /\ UNCHANGED <<receiverVars, dispatchVars>>
  BY DEF Commanding, CommandStep
<1>2. CommandInv' /\ TasksMove
  BY <1>1, CommandStepInvariance DEF FlowInv
<1>3. tasks \subseteq tasks'
  BY <1>2, InsertKeeps DEF TasksMove, FlowInv, CommandInv
<1>4. OwnerInv'
  BY <1>1 DEF FlowInv, OwnerInv, ReceiverTypeOK, ApprovalInv, SelectedInv, UnderWayInv,
              ProgressInv, LeavesInv, receiverVars
<1>5. DispatchInv'
  BY <1>1, <1>3, DispatchUntouched DEF FlowInv, receiverVars
<1> QED
  BY <1>2, <1>4, <1>5 DEF FlowInv

LEMMA VoiceUntouched ==
  ASSUME CommandInv, UNCHANGED voiceVars PROVE CommandInv'
BY DEF CommandInv, VoiceTypeOK, OneTaskPerCommand, voiceVars

LEMMA OwnerUntouched ==
  ASSUME OwnerInv, UNCHANGED receiverVars PROVE OwnerInv'
BY DEF OwnerInv, ReceiverTypeOK, ApprovalInv, SelectedInv, UnderWayInv, ProgressInv,
       LeavesInv, receiverVars

LEMMA OwningKeeps ==
  ASSUME FlowInv, Owning PROVE FlowInv'
<1>1. PICK a \in Approvals : Decide(a) \/ Transfer(a)
  BY DEF Owning
<1>2. UNCHANGED <<voiceVars, dispatchVars>>
  BY DEF Owning
<1>3. OwnerStep(a)
  BY <1>1 DEF OwnerStep
<1>4. CommandInv' /\ OwnerInv'
  BY <1>2, <1>3, OwnerStepInvariance, VoiceUntouched DEF FlowInv
<1>5. ASSUME NEW b \in Approvals
      PROVE  /\ announced[b] # NoBytes => announced'[b] = announced[b]
             /\ approval[b].status = "none" => approval'[b].status = "none"
  <2>1. announced[b] # NoBytes => announced'[b] = announced[b]
    BY <1>3, AnnouncedStays DEF FlowInv
  <2>2. CASE b # a
    BY <1>3, <2>1, <2>2, OwnerStepIsLocal DEF FlowInv, OwnerInv
  <2>3. CASE b = a
    <3>1. approval[a].status # "none"
      <4>1. CASE Decide(a)
        BY <4>1 DEF Decide, RejectTransfer, ApproveTransfer, Undecided
      <4>2. CASE Transfer(a)
        BY <4>2 DEF Transfer, ReadFile, InitUpload, Upload, Announce, Transferred,
                    TransferFails, ServedUnanswered, At, FlowInv, OwnerInv, ApprovalInv,
                    UnderWayInv
      <4> QED
        BY <1>1, <4>1, <4>2
    <3> QED
      BY <2>1, <2>3, <3>1
  <2> QED
    BY <2>2, <2>3
<1>6. DispatchInv'
  BY <1>2, <1>5, DispatchUntouched DEF FlowInv, voiceVars
<1> QED
  BY <1>4, <1>6 DEF FlowInv

\* Of the owner's dispatches, all but the search itself is left alone.
LEMMA SearchKeeps ==
  ASSUME FlowInv, NEW a \in Approvals, Search(a) \/ Found(a) \/ SearchEnds(a)
  PROVE  FlowInv'
<1>0. UNCHANGED voiceVars /\ UNCHANGED <<fetch, recorded, received, completed, told>>
  BY DEF Search, Found, SearchEnds
<1>1. CommandInv' /\ UNCHANGED tasks
  BY <1>0, VoiceUntouched DEF FlowInv, voiceVars
<1>2. OwnerInv'
  <2>1. CASE Found(a)
    BY <2>1, OwnerStepInvariance DEF Found, OwnerStep, FlowInv
  <2>2. CASE UNCHANGED receiverVars
    BY <2>2, OwnerUntouched DEF FlowInv
  <2> QED
    BY <2>1, <2>2 DEF Search, SearchEnds
<1>3. UNCHANGED announced
  BY DEF Search, Found, SearchEnds, CreateApproval, receiverVars
<1>4. DispatchTypeOK'
  <2>1. search' \in [Approvals -> {"idle", "searching", "recording"}]
    BY DEF Search, Found, SearchEnds, FlowInv, DispatchInv, DispatchTypeOK
  <2>2. answered' \in [Commands -> Outcomes]
    <3>1. CASE UNCHANGED answered
      BY <3>1 DEF FlowInv, DispatchInv, DispatchTypeOK
    <3>2. ASSUME NEW s \in Outcomes,
                 answered' = [answered EXCEPT ![RequestOf[a]] = Recorded(@, s)]
          PROVE  answered' \in [Commands -> Outcomes]
      BY <3>2 DEF FlowInv, DispatchInv, DispatchTypeOK, Recorded, Outcomes
    <3> QED
      BY <3>1, <3>2 DEF Search, Found, SearchEnds, EndsAs, Outcomes
  <2> QED
    BY <1>0, <2>1, <2>2 DEF FlowInv, DispatchInv, DispatchTypeOK
<1>5. AskedInv'
  <2>1. search[a] # "idle" \/ approval[a].status # "none" \/ Requested(RequestOf[a])
    BY DEF Search, Found, SearchEnds
  <2>2. ASSUME NEW b \in Approvals \ {a}
        PROVE  search'[b] = search[b] /\ approval'[b] = approval[b]
    BY DEF Search, Found, SearchEnds, CreateApproval, receiverVars, FlowInv, OwnerInv,
           ReceiverTypeOK, DispatchInv, DispatchTypeOK
  <2>3. Requested(RequestOf[a])
    BY <2>1 DEF FlowInv, DispatchInv, AskedInv
  <2> QED
    BY <1>1, <2>2, <2>3 DEF FlowInv, DispatchInv, AskedInv, Requested
<1>6. HeldInv' /\ ReceiptIsHeld'
  BY <1>0, <1>3 DEF FlowInv, DispatchInv, HeldInv, ReceiptIsHeld
<1>7. FetchInv'
  BY <1>0, <1>3 DEF FlowInv, DispatchInv, FetchInv, HasDone
<1> QED
  BY <1>1, <1>2, <1>4, <1>5, <1>6, <1>7 DEF FlowInv, DispatchInv

\* A fetch touches its own place and the rows of its transfer.
LEMMA FetchingIsLocal ==
  ASSUME FlowInv, NEW r \in Fetches, Fetching(r)
  PROVE  /\ UNCHANGED <<voiceVars, receiverVars, search, answered>>
         /\ \A q \in Fetches \ {r} : fetch'[q] = fetch[q]
BY DEF Fetching, StartFetch, Store, Receipt, Tell, FetchDone, FetchFails, FetchEnds, FlowInv,
       DispatchInv, DispatchTypeOK

LEMMA FetchingTypes ==
  ASSUME DispatchTypeOK, OwnerInv, NEW r \in Fetches, Fetching(r)
  PROVE  DispatchTypeOK'
<1> USE DEF DispatchTypeOK
<1>0. \A a \in Approvals : uploaded[a] \in Bytes \cup {NoBytes}
  BY DEF OwnerInv, ReceiverTypeOK
<1>1. ASSUME NEW a \in Approvals, StartFetch(r, a) PROVE DispatchTypeOK'
  BY <1>1 DEF StartFetch
<1>2. CASE Store(r)
  BY <1>0, <1>2 DEF Store
<1>3. CASE Receipt(r)
  BY <1>3 DEF Receipt
<1>4. CASE Tell(r)
  BY <1>4 DEF Tell
<1>5. ASSUME NEW s \in Outcomes, FetchEnds(r, s)
      PROVE  /\ fetch' \in [Fetches -> [at : {"idle", "download", "stored", "receipted", "told"},
                                        of : Approvals \cup {NoApproval}]]
             /\ recorded' \in [Approvals -> Outcomes]
             /\ \A q \in Fetches : fetch'[q].at # "idle" => fetch'[q].of \in Approvals
             /\ UNCHANGED <<search, answered, received>>
  BY <1>5 DEF FetchEnds, NoFetch, Recorded, Outcomes
<1>6. CASE FetchDone(r)
  BY <1>5, <1>6 DEF FetchDone, Outcomes
<1>7. CASE FetchFails(r)
  <2>1. FetchEnds(r, "failed") /\ "failed" \in Outcomes
    BY <1>7 DEF FetchFails, Outcomes
  <2>2. completed' \in [Approvals -> BOOLEAN]
    BY <1>7 DEF FetchFails
  <2>3. told' \in [Approvals -> BOOLEAN]
    BY <1>7 DEF FetchFails
  <2> QED
    BY <1>5, <2>1, <2>2, <2>3
<1> QED
  BY <1>1, <1>2, <1>3, <1>4, <1>6, <1>7 DEF Fetching

\* What a fetch may do to the rows of a transfer.
FetchMoves(a) ==
  /\ \/ received'[a] = received[a]
     \/ received'[a] = announced[a] /\ announced[a] # NoBytes
  /\ \/ completed'[a] = completed[a]
     \/ completed'[a] /\ received[a] # NoBytes /\ received'[a] = received[a]
  /\ \/ told'[a] = told[a]
     \/ told'[a] /\ completed[a]
  /\ recorded'[a] = recorded[a] \/ recorded'[a] = "failed" \/ told[a]

LEMMA FetchingMoves ==
  ASSUME FlowInv, NEW r \in Fetches, Fetching(r), NEW a \in Approvals
  PROVE  FetchMoves(a)
<1> DEFINE of == fetch[r].of
<1>0. DispatchTypeOK /\ HasDone(r)
  BY DEF FlowInv, DispatchInv, FetchInv
<1>1. ASSUME NEW b \in Approvals, StartFetch(r, b) PROVE FetchMoves(a)
  BY <1>1 DEF StartFetch, FetchMoves
<1>2. CASE Store(r)
  BY <1>0, <1>2 DEF Store, Verified, FetchMoves, HasDone, DispatchTypeOK
<1>3. CASE Receipt(r)
  BY <1>0, <1>3 DEF Receipt, FetchMoves, HasDone, DispatchTypeOK
<1>4. CASE Tell(r)
  BY <1>0, <1>4 DEF Tell, FetchMoves, HasDone, DispatchTypeOK
<1>5. CASE FetchDone(r)
  BY <1>0, <1>5 DEF FetchDone, FetchEnds, FetchMoves, HasDone, DispatchTypeOK
<1>6. CASE FetchFails(r)
  <2>1. received'[a] = received[a]
    BY <1>6 DEF FetchFails, FetchEnds
  <2>2. recorded'[a] = recorded[a] \/ recorded'[a] = "failed"
    BY <1>0, <1>6 DEF FetchFails, FetchEnds, Recorded, DispatchTypeOK
  <2>3. completed'[a] = completed[a] \/ (completed'[a] /\ received[a] # NoBytes)
    BY <1>0, <1>6 DEF FetchFails, HasDone, DispatchTypeOK
  <2>4. told'[a] = told[a] \/ (told'[a] /\ completed[a])
    BY <1>0, <1>6 DEF FetchFails, HasDone, DispatchTypeOK
  <2> QED
    BY <2>1, <2>2, <2>3, <2>4 DEF FetchMoves
<1> QED
  BY <1>1, <1>2, <1>3, <1>4, <1>5, <1>6 DEF Fetching

\* The fetch that moves has done what its new place says.
LEMMA FetchingHasDone ==
  ASSUME FlowInv, NEW r \in Fetches, Fetching(r)
  PROVE  HasDone(r)'
<1> USE DEF HasDone
<1>0. DispatchTypeOK /\ HasDone(r)
  BY DEF FlowInv, DispatchInv, FetchInv
<1>1. UNCHANGED announced
  BY FetchingIsLocal DEF receiverVars
<1>2. ASSUME NEW a \in Approvals, StartFetch(r, a) PROVE HasDone(r)'
  BY <1>0, <1>1, <1>2 DEF StartFetch, DispatchTypeOK
<1>3. CASE Store(r)
  BY <1>0, <1>1, <1>3 DEF Store, Verified, DispatchTypeOK
<1>4. CASE Receipt(r)
  BY <1>0, <1>1, <1>4 DEF Receipt, DispatchTypeOK
<1>5. CASE Tell(r)
  BY <1>0, <1>1, <1>5 DEF Tell, DispatchTypeOK
<1>6. CASE FetchDone(r) \/ FetchFails(r)
  BY <1>0, <1>6 DEF FetchDone, FetchFails, FetchEnds, NoFetch, DispatchTypeOK
<1> QED
  BY <1>2, <1>3, <1>4, <1>5, <1>6 DEF Fetching

LEMMA FetchingKeeps ==
  ASSUME FlowInv, NEW r \in Fetches, Fetching(r)
  PROVE  FlowInv'
<1>0. UNCHANGED <<voiceVars, receiverVars, search, answered>>
  BY FetchingIsLocal
<1>1. UNCHANGED <<tasks, approval, announced>>
  BY <1>0 DEF voiceVars, receiverVars
<1>2. CommandInv' /\ OwnerInv'
  BY <1>0, VoiceUntouched, OwnerUntouched DEF FlowInv
<1>3. DispatchTypeOK'
  BY FetchingTypes DEF FlowInv, DispatchInv
<1>4. AskedInv'
  BY <1>0, <1>1 DEF FlowInv, DispatchInv, AskedInv, Requested
<1>5. \A a \in Approvals : FetchMoves(a)
  BY FetchingMoves
<1>6. HeldInv'
  BY <1>1, <1>5 DEF FlowInv, DispatchInv, HeldInv, FetchMoves
<1>7. ASSUME NEW q \in Fetches PROVE HasDone(q)'
  <2>1. CASE q = r
    BY <2>1, FetchingHasDone
  <2>2. CASE q # r
    <3>1. fetch'[q] = fetch[q]
      BY <2>2, FetchingIsLocal
    <3>2. HasDone(q) /\ (fetch[q].at # "idle" => fetch[q].of \in Approvals)
      BY DEF FlowInv, DispatchInv, DispatchTypeOK, FetchInv
    <3> QED
      BY <1>1, <1>5, <3>1, <3>2 DEF HasDone, FetchMoves
  <2> QED
    BY <2>1, <2>2
<1>8. ReceiptIsHeld'
  <2> SUFFICES ASSUME NEW a \in Approvals
               PROVE  /\ told'[a] => completed'[a]
                      /\ completed'[a] => received'[a] # NoBytes /\ received'[a] = announced'[a]
                      /\ recorded'[a] = "created" => told'[a]
    BY DEF ReceiptIsHeld
  <2>1. FetchMoves(a)
    BY <1>5
  <2>2. /\ told[a] => completed[a]
        /\ completed[a] => received[a] # NoBytes /\ received[a] = announced[a]
        /\ recorded[a] = "created" => told[a]
        /\ received[a] # NoBytes => received[a] = announced[a]
    BY DEF FlowInv, DispatchInv, ReceiptIsHeld, HeldInv
  <2> QED
    BY <1>1, <2>1, <2>2 DEF FetchMoves
<1> QED
  BY <1>2, <1>3, <1>4, <1>6, <1>7, <1>8 DEF FlowInv, DispatchInv, FetchInv

LEMMA RestartsKeep ==
  ASSUME FlowInv, RequesterStops \/ OwnersAgentStops
  PROVE  FlowInv'
<1>1. CASE RequesterStops
  <2>1. CommandInv' /\ UNCHANGED tasks
    BY <1>1, VoiceCrashInvariance DEF RequesterStops, FlowInv, VoiceCrash
  <2>2. OwnerInv' /\ UNCHANGED <<approval, announced>>
    BY <1>1, OwnerUntouched DEF RequesterStops, FlowInv, receiverVars
  <2>3. /\ fetch' = [r \in Fetches |-> NoFetch]
        /\ UNCHANGED <<search, answered, recorded, received, completed, told>>
    BY <1>1 DEF RequesterStops
  <2>4. DispatchTypeOK'
    BY <2>3 DEF FlowInv, DispatchInv, DispatchTypeOK, NoFetch
  <2>5. AskedInv' /\ HeldInv' /\ ReceiptIsHeld'
    BY <2>1, <2>2, <2>3 DEF FlowInv, DispatchInv, AskedInv, Requested, HeldInv, ReceiptIsHeld
  <2>6. FetchInv'
    BY <2>3 DEF FetchInv, HasDone, NoFetch
  <2> QED
    BY <2>1, <2>2, <2>4, <2>5, <2>6 DEF FlowInv, DispatchInv
<1>2. CASE OwnersAgentStops
  <2>1. OwnerInv' /\ UNCHANGED <<approval, announced>>
    BY <1>2, OwnerStopsInvariance DEF OwnersAgentStops, FlowInv, OwnerStops
  <2>2. CommandInv' /\ UNCHANGED tasks
    BY <1>2, VoiceUntouched DEF OwnersAgentStops, FlowInv, voiceVars
  <2>3. /\ search' = [a \in Approvals |-> "idle"]
        /\ UNCHANGED <<answered, fetch, recorded, received, completed, told>>
    BY <1>2 DEF OwnersAgentStops
  <2>4. DispatchTypeOK'
    BY <2>3 DEF FlowInv, DispatchInv, DispatchTypeOK
  <2>5. AskedInv' /\ HeldInv' /\ ReceiptIsHeld'
    BY <2>1, <2>2, <2>3 DEF FlowInv, DispatchInv, AskedInv, Requested, HeldInv, ReceiptIsHeld
  <2>6. FetchInv'
    BY <2>1, <2>3 DEF FlowInv, DispatchInv, FetchInv, HasDone
  <2> QED
    BY <2>1, <2>2, <2>4, <2>5, <2>6 DEF FlowInv, DispatchInv
<1> QED
  BY <1>1, <1>2

-----------------------------------------------------------------------------
(* Safety *)

LEMMA FlowInitInv == FlowInit => FlowInv
<1> SUFFICES ASSUME FlowInit PROVE FlowInv
  OBVIOUS
<1> USE DEF FlowInit
<1>1. CommandInv
  BY DEF VoiceInit, CommandInv, VoiceTypeOK, NoCommand, NoCall, CommandStatus, OneTaskPerCommand
<1>2. OwnerInv
  BY DEF ReceiverInit, OwnerInv, ReceiverTypeOK, NoTransfer, ApprovalStatus, ApprovalInv,
         SelectedInv, UnderWayInv, ProgressInv, LeavesInv, AgreedStatus
<1>3. DispatchTypeOK
  BY DEF DispatchTypeOK, Outcomes, NoFetch
<1>4. AskedInv /\ HeldInv /\ ReceiptIsHeld
  BY DEF ReceiverInit, AskedInv, HeldInv, ReceiptIsHeld
<1>5. FetchInv
  BY DEF FetchInv, HasDone, NoFetch
<1> QED
  BY <1>1, <1>2, <1>3, <1>4, <1>5 DEF FlowInv, DispatchInv

LEMMA FlowStepInv == FlowInv /\ [FlowNext]_flowVars => FlowInv'
<1> SUFFICES ASSUME FlowInv, [FlowNext]_flowVars PROVE FlowInv'
  OBVIOUS
<1>1. CASE Commanding
  BY <1>1, CommandingKeeps
<1>2. CASE Owning
  BY <1>2, OwningKeeps
<1>3. ASSUME NEW a \in Approvals, Search(a) \/ Found(a) \/ SearchEnds(a) PROVE FlowInv'
  BY <1>3, SearchKeeps
<1>4. ASSUME NEW r \in Fetches, Fetching(r) PROVE FlowInv'
  BY <1>4, FetchingKeeps
<1>5. CASE RequesterStops \/ OwnersAgentStops
  BY <1>5, RestartsKeep
<1>6. CASE UNCHANGED flowVars
  <2>1. UNCHANGED voiceVars /\ UNCHANGED receiverVars /\ UNCHANGED dispatchVars
    BY <1>6 DEF flowVars
  <2>2. CommandInv' /\ OwnerInv'
    BY <2>1, VoiceUntouched, OwnerUntouched DEF FlowInv
  <2>3. DispatchInv'
    BY <2>1, DispatchUntouched DEF FlowInv, voiceVars, receiverVars
  <2> QED
    BY <2>2, <2>3 DEF FlowInv
<1> QED
  BY <1>1, <1>2, <1>3, <1>4, <1>5, <1>6 DEF FlowNext

\* The inductive invariant of the flow: what an approval's transfer has done by its
\* place, what a fetch has done by its place, and that nobody searches unasked.
THEOREM FlowInvariance == FlowSpec => []FlowInv
BY FlowInitInv, FlowStepInv, PTL DEF FlowSpec

\* The commands, approvals, transfers and dispatches stay in their types.
THEOREM FlowTypeCorrect == FlowSpec => []FlowTypeOK
<1>1. FlowInv => FlowTypeOK
  BY DEF FlowInv, CommandInv, OwnerInv, DispatchInv, DispatchTypeOK, FlowTypeOK
<1> QED
  BY <1>1, FlowInvariance, PTL

\* The owner is asked once for each command, also while files are handed over.
THEOREM AskedOnce == FlowSpec => []OneTaskPerCommand
<1>1. FlowInv => OneTaskPerCommand
  BY DEF FlowInv, CommandInv
<1> QED
  BY <1>1, FlowInvariance, PTL

\* In the flow the commands behave as they do alone: what VoiceCommandProofs proves of
\* VoiceSpec holds while files are searched for, approved and handed over.
THEOREM UsesCommands == FlowSpec => VoiceSpec
<1>1. FlowInit => VoiceInit
  BY DEF FlowInit
<1>2. [FlowNext]_flowVars => [VoiceNext]_voiceVars
  <2> SUFFICES ASSUME [FlowNext]_flowVars PROVE [VoiceNext]_voiceVars
    OBVIOUS
  <2>1. CASE Commanding \/ RequesterStops
    BY <2>1 DEF Commanding, RequesterStops, VoiceNext
  <2>2. CASE Owning \/ OwnersAgentStops \/ UNCHANGED flowVars
    BY <2>2 DEF Owning, OwnersAgentStops, flowVars
  <2>3. ASSUME NEW a \in Approvals, Search(a) \/ Found(a) \/ SearchEnds(a)
        PROVE  UNCHANGED voiceVars
    BY <2>3 DEF Search, Found, SearchEnds
  <2>4. ASSUME NEW r \in Fetches, Fetching(r) PROVE UNCHANGED voiceVars
    BY <2>4 DEF Fetching, StartFetch, Store, Receipt, Tell, FetchDone, FetchFails, FetchEnds
  <2> QED
    BY <2>1, <2>2, <2>3, <2>4 DEF FlowNext
<1> QED
  BY <1>1, <1>2, PTL DEF FlowSpec, VoiceSpec

\* Nothing leaves the owner's machine but files that were selected in an approval,
\* and what is announced is what was uploaded.
THEOREM SelectedOnly == FlowSpec => []OnlySelectedLeaves
<1>1. FlowInv => OnlySelectedLeaves
  BY DEF FlowInv, OwnerInv, ApprovalInv, LeavesInv, AgreedStatus, OnlySelectedLeaves
<1> QED
  BY <1>1, FlowInvariance, PTL

\* A receipt the owner is told of stands for bytes the requester holds.
THEOREM ReceiptHeld == FlowSpec => []ReceiptIsHeld
<1>1. FlowInv => ReceiptIsHeld
  BY DEF FlowInv, DispatchInv
<1> QED
  BY <1>1, FlowInvariance, PTL

\* What has left the owner's machine was selected by the owner, for a command that is
\* past its preview on the requester's.
BothAgreed ==
  \A a \in Approvals : uploaded[a] # NoBytes =>
    /\ approval[a].status \in AgreedStatus /\ uploaded[a][1] = approval[a].file
    /\ \E t \in tasks : t.command = RequestOf[a]
    /\ PastPreview(RequestOf[a])

\* No file leaves unless both users agreed: the requester, whose command was executed
\* (docs/voice-command-api.md:28), and the owner, who selected the file; whatever is
\* cancelled, repeated, overlaps or is cut off in between.
THEOREM BothAgree == FlowSpec => []BothAgreed
<1>1. FlowInv /\ AskedOnlyPastPreview => BothAgreed
  <2> SUFFICES ASSUME FlowInv, AskedOnlyPastPreview, NEW a \in Approvals, uploaded[a] # NoBytes
               PROVE  /\ approval[a].status \in AgreedStatus /\ uploaded[a][1] = approval[a].file
                      /\ \E t \in tasks : t.command = RequestOf[a]
                      /\ PastPreview(RequestOf[a])
    BY DEF BothAgreed
  <2>1. approval[a].status \in AgreedStatus /\ uploaded[a][1] = approval[a].file
    BY DEF FlowInv, OwnerInv, ApprovalInv, LeavesInv
  <2>2. \E t \in tasks : t.command = RequestOf[a]
    BY <2>1 DEF FlowInv, DispatchInv, AskedInv, Requested, AgreedStatus
  <2> QED
    BY <2>1, <2>2 DEF AskedOnlyPastPreview, PastPreview
<1> QED
  BY <1>1, FlowInvariance, UsesCommands, OnlyConfirmedAsk, PTL

\* The approval rows, by the step of the flow: untouched, or a step of one approval.
LEMMA ApprovalsMove ==
  ASSUME FlowInv, [FlowNext]_flowVars
  PROVE  UNCHANGED approval \/ \E a \in Approvals : OwnerStep(a)
<1>1. CASE Commanding \/ UNCHANGED flowVars
  BY <1>1 DEF Commanding, flowVars, receiverVars
<1>2. CASE Owning
  BY <1>2 DEF Owning, OwnerStep
<1>3. ASSUME NEW a \in Approvals, Search(a) \/ Found(a) \/ SearchEnds(a)
      PROVE  UNCHANGED approval \/ OwnerStep(a)
  BY <1>3 DEF Search, Found, SearchEnds, OwnerStep, receiverVars
<1>4. ASSUME NEW r \in Fetches, Fetching(r) PROVE UNCHANGED approval
  BY <1>4, FetchingIsLocal DEF receiverVars
<1>5. CASE RequesterStops \/ OwnersAgentStops
  BY <1>5 DEF RequesterStops, OwnersAgentStops, OwnerStops, receiverVars
<1> QED
  BY <1>1, <1>2, <1>3, <1>4, <1>5 DEF FlowNext

\* No step changes an approval that was rejected, transferred or failed.
THEOREM DecisionsStand == FlowSpec => DecisionStands
<1>1. FlowInv /\ [FlowNext]_flowVars =>
        [\A a \in Approvals :
           approval[a].status \in {"rejected", "transferred", "failed"} =>
             approval'[a] = approval[a]]_approval
  BY ApprovalsMove, DecidedStays DEF FlowInv
<1> QED
  BY <1>1, FlowInvariance, PTL DEF FlowSpec, DecisionStands

-----------------------------------------------------------------------------
(* Refinement *)

\* The requests asked for, the files held and the receipts told of are functions of
\* the tasks, of what is received, and of both what is received and told.
LEMMA MappedUnchanged ==
  /\ UNCHANGED tasks => Asked' = Asked
  /\ UNCHANGED approval => Agreed' = Agreed
  /\ UNCHANGED received => HeldFiles' = HeldFiles
  /\ UNCHANGED <<received, told>> => Confirmed' = Confirmed
BY DEF Asked, Agreed, HeldFiles, Confirmed

\* What is held was agreed to.
LEMMA HeldIsAgreed ==
  ASSUME FlowInv, NEW a \in Approvals, announced[a] # NoBytes
  PROVE  /\ <<RequestOf[a], announced[a][1]>> \in Agreed
         /\ <<RequestOf[a], announced[a][1]>> \in Commands \X Files
<1>1. /\ announced[a] = uploaded[a]
      /\ approval[a].status \in AgreedStatus /\ approval[a].file \in Files
      /\ uploaded[a][1] = approval[a].file
  BY DEF FlowInv, OwnerInv, ApprovalInv, LeavesInv, SelectedInv
<1>2. RequestOf[a] \in Commands
  BY FlowConstants
<1> QED
  BY <1>1, <1>2 DEF Agreed, AgreedStatus

LEMMA CommandingRefines ==
  ASSUME FlowInv, Commanding
  PROVE  Promise!Next \/ UNCHANGED <<Asked, Agreed, HeldFiles, Confirmed>>
<1>1. UNCHANGED <<approval, received, told>> /\ TasksMove
  BY CommandStepInvariance DEF Commanding, CommandStep, receiverVars, dispatchVars, FlowInv
<1>2. UNCHANGED <<Agreed, HeldFiles, Confirmed>>
  BY <1>1, MappedUnchanged
<1>3. CASE UNCHANGED tasks
  BY <1>2, <1>3, MappedUnchanged
<1>4. ASSUME NEW t \in Task, Insert(t) PROVE Promise!Next \/ UNCHANGED Asked
  <2>1. CASE UNCHANGED tasks
    BY <2>1, MappedUnchanged
  <2>2. CASE tasks' = tasks \cup {t}
    <3>1. Asked' = Asked \cup {t.command}
      BY <2>2 DEF Asked
    <3>2. t.command \in Commands
      BY DEF Task
    <3> QED
      BY <1>2, <3>1, <3>2 DEF Promise!Next, Promise!Ask
  <2> QED
    BY <1>4, <2>1, <2>2 DEF Insert
<1> QED
  BY <1>1, <1>2, <1>3, <1>4 DEF TasksMove

\* An approve adds the selected file to what was agreed; nothing else does.
LEMMA OwnerStepRefines ==
  ASSUME FlowInv, NEW a \in Approvals, OwnerStep(a), UNCHANGED <<tasks, received, told>>
  PROVE  Promise!Next \/ UNCHANGED <<Asked, Agreed, HeldFiles, Confirmed>>
<1>1. UNCHANGED <<Asked, HeldFiles, Confirmed>>
  BY MappedUnchanged
<1>2. \A b \in Approvals \ {a} : approval'[b] = approval[b]
  BY OwnerStepIsLocal DEF FlowInv, OwnerInv
<1>3. approval \in [Approvals -> [status : ApprovalStatus, file : Files \cup {NoFile}]]
  BY DEF FlowInv, OwnerInv, ReceiverTypeOK
<1>4. ASSUME NEW f \in Files, ApproveTransfer(a, f) PROVE Promise!Next
  <2>1. /\ approval[a].status = "pending"
        /\ approval'[a].status = "approved" /\ approval'[a].file = f
    BY <1>3, <1>4 DEF ApproveTransfer, Undecided
  <2>2. Agreed' = Agreed \cup {<<RequestOf[a], f>>}
    BY <1>2, <2>1 DEF Agreed
  <2>3. Requested(RequestOf[a])
    BY <2>1 DEF FlowInv, DispatchInv, AskedInv
  <2>4. RequestOf[a] \in Asked /\ RequestOf[a] \in Commands
    BY <2>3, FlowConstants DEF Requested, Asked
  <2> QED
    BY <1>1, <2>2, <2>4 DEF Promise!Next, Promise!Agree
<1>5. CASE ~ \E f \in Files : ApproveTransfer(a, f)
  <2>1. /\ approval'[a].file = approval[a].file
        /\ approval'[a].status \in AgreedStatus <=> approval[a].status \in AgreedStatus
    BY <1>3, <1>5
    DEF OwnerStep, CreateApproval, Decide, RejectTransfer, Undecided, Transfer, ReadFile,
        InitUpload, Upload, Announce, Transferred, TransferFails, ServedUnanswered, Marked, At,
        FlowInv, OwnerInv, ApprovalInv, UnderWayInv, AgreedStatus
  <2>2. Agreed' = Agreed
    BY <1>2, <2>1 DEF Agreed, AgreedStatus
  <2> QED
    BY <1>1, <2>2
<1> QED
  BY <1>4, <1>5

LEMMA FetchingRefines ==
  ASSUME FlowInv, NEW r \in Fetches, Fetching(r)
  PROVE  Promise!Next \/ UNCHANGED <<Asked, Agreed, HeldFiles, Confirmed>>
<1> DEFINE a == fetch[r].of
           h == <<RequestOf[a], received'[a][1]>>
<1>0. DispatchTypeOK /\ HasDone(r) /\ HeldInv /\ ReceiptIsHeld
  BY DEF FlowInv, DispatchInv, FetchInv
<1>1. UNCHANGED <<Asked, Agreed>>
  BY FetchingIsLocal, MappedUnchanged DEF voiceVars, receiverVars
<1>2. CASE Store(r)
  <2>1. /\ a \in Approvals /\ announced[a] # NoBytes
        /\ received' = [received EXCEPT ![a] = announced[a]]
        /\ UNCHANGED told
    BY <1>0, <1>2 DEF Store, Verified, DispatchTypeOK, HasDone
  <2>2. received'[a] = announced[a] /\ \A b \in Approvals \ {a} : received'[b] = received[b]
    BY <1>0, <2>1 DEF DispatchTypeOK
  <2>3. HeldFiles' = HeldFiles \cup {h}
    BY <1>0, <2>1, <2>2 DEF HeldFiles, HeldInv
  <2>4. h \in Agreed /\ h \in Commands \X Files
    BY <2>1, <2>2, HeldIsAgreed
  <2>5. \A b \in Approvals : told[b] => received'[b] = received[b]
    BY <1>0, <2>2 DEF ReceiptIsHeld
  <2>6. Confirmed' = Confirmed
    BY <2>1, <2>5 DEF Confirmed
  <2> QED
    BY <1>1, <2>3, <2>4, <2>6 DEF Promise!Next, Promise!Hold
<1>3. CASE told' = [told EXCEPT ![a] = TRUE] /\ UNCHANGED received /\ fetch[r].at = "receipted"
  <2>1. /\ a \in Approvals /\ announced[a] # NoBytes
        /\ received'[a] = received[a] /\ received[a] # NoBytes /\ received[a] = announced[a]
    BY <1>0, <1>3 DEF DispatchTypeOK, HasDone, HeldInv
  <2>2. told'[a] /\ \A b \in Approvals \ {a} : told'[b] = told[b]
    BY <1>0, <1>3, <2>1 DEF DispatchTypeOK
  <2>3. HeldFiles' = HeldFiles /\ h \in HeldFiles
    BY <1>3, <2>1, MappedUnchanged DEF HeldFiles
  <2>4. Confirmed' = Confirmed \cup {h}
    BY <1>3, <2>1, <2>2 DEF Confirmed
  <2>5. h \in Commands \X Files
    BY <2>1, HeldIsAgreed
  <2> QED
    BY <1>1, <2>3, <2>4, <2>5 DEF Promise!Next, Promise!Confirm
<1>4. CASE UNCHANGED <<received, told>>
  BY <1>1, <1>4, MappedUnchanged
<1>5. \/ Store(r)
      \/ told' = [told EXCEPT ![a] = TRUE] /\ UNCHANGED received /\ fetch[r].at = "receipted"
      \/ UNCHANGED <<received, told>>
  BY DEF Fetching, StartFetch, Receipt, Tell, FetchDone, FetchFails, FetchEnds
<1> QED
  BY <1>2, <1>3, <1>4, <1>5

\* The flow implements Handover: a file changes hands only after the requester asked
\* and the owner agreed to it, a receipt stands for it, and nothing is taken back.
THEOREM HandsOver == FlowSpec => ImplementsHandover
<1>1. FlowInit => Promise!Init
  BY DEF FlowInit, VoiceInit, ReceiverInit, Promise!Init, Asked, Agreed, HeldFiles, Confirmed
<1>2. FlowInv /\ [FlowNext]_flowVars => [Promise!Next]_(Promise!vars)
  <2> SUFFICES ASSUME FlowInv, [FlowNext]_flowVars
               PROVE  Promise!Next \/ UNCHANGED <<Asked, Agreed, HeldFiles, Confirmed>>
    BY DEF Promise!vars
  <2>1. CASE Commanding
    BY <2>1, CommandingRefines
  <2>2. CASE Owning
    BY <2>2, OwnerStepRefines DEF Owning, OwnerStep, voiceVars, dispatchVars
  <2>3. ASSUME NEW a \in Approvals, Search(a) \/ Found(a) \/ SearchEnds(a)
        PROVE  Promise!Next \/ UNCHANGED <<Asked, Agreed, HeldFiles, Confirmed>>
    <3>1. UNCHANGED <<tasks, received, told>>
      BY <2>3 DEF Search, Found, SearchEnds, voiceVars
    <3>2. CASE Found(a)
      BY <3>1, <3>2, OwnerStepRefines DEF Found, OwnerStep
    <3>3. CASE UNCHANGED approval
      BY <3>1, <3>3, MappedUnchanged
    <3> QED
      BY <2>3, <3>2, <3>3 DEF Search, SearchEnds, receiverVars
  <2>4. ASSUME NEW r \in Fetches, Fetching(r)
        PROVE  Promise!Next \/ UNCHANGED <<Asked, Agreed, HeldFiles, Confirmed>>
    BY <2>4, FetchingRefines
  <2>5. CASE RequesterStops \/ OwnersAgentStops \/ UNCHANGED flowVars
    <3>1. UNCHANGED <<tasks, approval, received, told>>
      BY <2>5 DEF RequesterStops, OwnersAgentStops, VoiceCrash, OwnerStops, flowVars, voiceVars,
                  receiverVars, dispatchVars
    <3> QED
      BY <3>1, MappedUnchanged
  <2> QED
    BY <2>1, <2>2, <2>3, <2>4, <2>5 DEF FlowNext
<1> QED
  BY <1>1, <1>2, FlowInvariance, PTL DEF FlowSpec, ImplementsHandover, Promise!Spec
=============================================================================
