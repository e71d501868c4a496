-------------------------- MODULE ReceiverApproval ---------------------------
(***************************************************************************)
(* The owner's side of a remote file request: the table receiver_approvals *)
(* (src/runtime/ReceiverAgentOrchestrator.ts), the background transfer an  *)
(* approve kicks off (src/runtime/ReceiverApprovalRoutes.ts) and its calls *)
(* (transferReceiverApproval in ApprovalTransferOrchestrator.ts).          *)
(*                                                                         *)
(* A decision is synchronous.  The transfer then runs through its awaits   *)
(* in memory; a call that is not answered may still have been served.      *)
(***************************************************************************)
EXTENDS Naturals, FiniteSets

CONSTANTS
  Approvals,   \* rows that may be created, and the transfer each may set off
  Files,       \* the owner's files
  NoFile,
  Versions,    \* what a file may hold when it is read
  NoVersion

ASSUME ReceiverConstants == NoFile \notin Files

VARIABLES
  approval,   \* the row of each approval
  transfer,   \* how far its background transfer is, and the bytes it read
  uploaded,   \* the bytes the control plane holds for its transfer
  announced   \* the hash in its file.transfer.available message at the relay

receiverVars == <<approval, transfer, uploaded, announced>>

ApprovalStatus == {"none", "pending", "approved", "rejected", "transferred", "failed"}

\* The bytes of a file, which their hash stands for.
Bytes == Files \X Versions
NoBytes == <<NoFile, NoVersion>>

NoTransfer == [at |-> "idle", bytes |-> NoBytes]

ReceiverTypeOK ==
  /\ approval \in [Approvals -> [status : ApprovalStatus, file : Files \cup {NoFile}]]
  /\ transfer \in [Approvals -> [at : {"idle", "kicked", "read", "created", "uploaded",
                                       "announced"},
                                 bytes : Bytes \cup {NoBytes}]]
  /\ uploaded \in [Approvals -> Bytes \cup {NoBytes}]
  /\ announced \in [Approvals -> Bytes \cup {NoBytes}]

ReceiverInit ==
  /\ approval = [a \in Approvals |-> [status |-> "none", file |-> NoFile]]
  /\ transfer = [a \in Approvals |-> NoTransfer]
  /\ uploaded = [a \in Approvals |-> NoBytes]
  /\ announced = [a \in Approvals |-> NoBytes]

-----------------------------------------------------------------------------

\* handleIncomingFileRequest, after the await of the file search.
CreateApproval(a) ==
  /\ approval[a].status = "none"
  /\ approval' = [approval EXCEPT ![a].status = "pending"]
  /\ UNCHANGED <<transfer, uploaded, announced>>

Undecided_unchecked(a) == approval[a].status \in {"pending", "rejected"}
Undecided(a) == approval[a].status = "pending"

\* The selected path is the caller's; setImmediate kicks the transfer off.
ApproveTransfer(a, f) ==
  /\ Undecided(a)
  /\ approval' = [approval EXCEPT ![a] = [status |-> "approved", file |-> f]]
  /\ transfer' = [transfer EXCEPT ![a].at = "kicked"]
  /\ UNCHANGED <<uploaded, announced>>

RejectTransfer(a) ==
  /\ Undecided(a)
  /\ approval' = [approval EXCEPT ![a].status = "rejected"]
  /\ UNCHANGED <<transfer, uploaded, announced>>

-----------------------------------------------------------------------------
(* kickOffTransfer, transferReceiverApproval *)

At(a, place) == transfer[a].at = place

Goto(a, place) == transfer' = [transfer EXCEPT ![a].at = place]

\* markTransferred and markFailed look at nothing.
Marked_for_a_retry(a, s) ==
  /\ approval' = [approval EXCEPT ![a].status = IF s = "failed" THEN "pending" ELSE s]
  /\ transfer' = [transfer EXCEPT ![a] = NoTransfer]
Marked(a, s) ==
  /\ approval' = [approval EXCEPT ![a].status = s]
  /\ transfer' = [transfer EXCEPT ![a] = NoTransfer]

\* The bytes, whatever the file holds by now, are read once: hashed, uploaded and
\* announced.  The status message sent next is best effort.
ReadFile(a) ==
  /\ At(a, "kicked")
  /\ \E v \in Versions :
       transfer' = [transfer EXCEPT ![a] = [at |-> "read", bytes |-> <<approval[a].file, v>>]]
  /\ UNCHANGED <<approval, uploaded, announced>>

InitUpload(a) ==
  /\ At(a, "read")
  /\ Goto(a, "created")
  /\ UNCHANGED <<approval, uploaded, announced>>

\* The control plane refuses bytes whose hash is not the one of the init.
Upload(a) ==
  /\ At(a, "created")
  /\ uploaded' = [uploaded EXCEPT ![a] = transfer[a].bytes]
  /\ Goto(a, "uploaded")
  /\ UNCHANGED <<approval, announced>>

Announce_unuploaded(a) ==
  /\ transfer[a].at \in {"created", "uploaded"}
  /\ announced' = [announced EXCEPT ![a] = transfer[a].bytes]
  /\ Goto(a, "announced")
  /\ UNCHANGED <<approval, uploaded>>
Announce(a) ==
  /\ At(a, "uploaded")
  /\ announced' = [announced EXCEPT ![a] = transfer[a].bytes]
  /\ Goto(a, "announced")
  /\ UNCHANGED <<approval, uploaded>>

Transferred(a) ==
  /\ At(a, "announced")
  /\ Marked(a, "transferred")
  /\ UNCHANGED <<uploaded, announced>>

\* The file is gone, the device is not enrolled, a call is refused or not
\* answered, or the timeline entry throws after the announcement was sent.
TransferFails(a) ==
  /\ ~At(a, "idle")
  /\ Marked(a, "failed")
  /\ UNCHANGED <<uploaded, announced>>

\* The call was not answered; the control plane acts on it all the same.
ServedUnanswered(a) ==
  /\ \/ /\ At(a, "created")
        /\ uploaded' = [uploaded EXCEPT ![a] = transfer[a].bytes]
        /\ UNCHANGED announced
     \/ /\ At(a, "uploaded")
        /\ announced' = [announced EXCEPT ![a] = transfer[a].bytes]
        /\ UNCHANGED uploaded
  /\ Marked(a, "failed")

\* The owner's agent stops: no transfer is resumed, its approval stays 'approved'.
OwnerStops ==
  /\ transfer' = [a \in Approvals |-> NoTransfer]
  /\ UNCHANGED <<approval, uploaded, announced>>

Decide(a) == RejectTransfer(a) \/ \E f \in Files : ApproveTransfer(a, f)

Transfer(a) ==
  \/ ReadFile(a) \/ InitUpload(a) \/ Upload(a) \/ Announce(a)
  \/ Transferred(a) \/ TransferFails(a) \/ ServedUnanswered(a)

-----------------------------------------------------------------------------

\* Nothing is uploaded before an approve or after a reject, and never another
\* file than the one selected; every announcement is of bytes the control plane
\* holds, also when the transfer was marked failed or a restart cut it off.
OnlySelectedLeaves ==
  \A a \in Approvals :
    /\ uploaded[a] # NoBytes =>
         /\ approval[a].status \in {"approved", "transferred", "failed"}
         /\ uploaded[a][1] = approval[a].file
    /\ announced[a] # NoBytes => announced[a] = uploaded[a]
    /\ approval[a].status = "transferred" => announced[a] # NoBytes

\* A rejected, transferred or failed approval stays what it is, and with the file it
\* was decided for, although the background transfer writes its outcome without
\* looking at the row again.
DecisionStands ==
  [][\A a \in Approvals :
       approval[a].status \in {"rejected", "transferred", "failed"} =>
         approval'[a] = approval[a]]_approval
=============================================================================
