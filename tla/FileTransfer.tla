---------------------------- MODULE FileTransfer ----------------------------
(***************************************************************************)
(* The control plane's encrypted file relay: the table file_transfers, the *)
(* files in FILE_TRANSFER_STORE, and the 60-second sweep that expires both *)
(* (apps/control-plane/src/transfers/TransferService.ts).                  *)
(*                                                                         *)
(* A row and its file are not written in one step.  An upload is one       *)
(* transaction that writes the file before it commits; other connections   *)
(* see 'initialized' until then, and their updates of the row wait.  The   *)
(* sweep chooses its rows first, then deletes the files and updates the    *)
(* row of each in turn, without a transaction and without looking again.   *)
(***************************************************************************)
EXTENDS Naturals, FiniteSets

CONSTANTS
  Transfers,   \* transfers that may be initialized
  Sweeps,      \* runs of expireOldTransfers that may overlap
  NoTransfer

ASSUME TransferConstants == NoTransfer \notin Transfers

VARIABLES
  status,    \* file_transfers.status as committed, "none" before the row exists
  file,      \* the .enc file of the transfer is in the store
  late,      \* expires_at has passed
  upload,    \* the upload transaction that holds the row, if any
  download,  \* a download request between its read and its last statement
  held,      \* the receiver holds the decrypted bytes
  sweep      \* what each sweep has chosen and is working on

vars == <<status, file, late, upload, download, held, sweep>>

\* 'uploading' is only ever seen inside the uploading transaction.
TransferStatus == {"initialized", "ready", "downloading", "completed", "expired"}

NotSweeping == [todo |-> {}, deleted |-> NoTransfer]

TypeOK ==
  /\ status \in [Transfers -> TransferStatus \cup {"none"}]
  /\ file \in [Transfers -> BOOLEAN]
  /\ late \in [Transfers -> BOOLEAN]
  /\ upload \in [Transfers -> {"none", "claimed", "written"}]
  /\ download \in [Transfers -> {"none", "read", "decrypted"}]
  /\ held \in [Transfers -> BOOLEAN]
  /\ sweep \in [Sweeps -> [todo : SUBSET Transfers, deleted : Transfers \cup {NoTransfer}]]
  /\ \A t \in Transfers : upload[t] # "none" => status[t] = "initialized"

Init ==
  /\ status = [t \in Transfers |-> "none"]
  /\ file = [t \in Transfers |-> FALSE]
  /\ late = [t \in Transfers |-> FALSE]
  /\ upload = [t \in Transfers |-> "none"]
  /\ download = [t \in Transfers |-> "none"]
  /\ held = [t \in Transfers |-> FALSE]
  /\ sweep = [s \in Sweeps |-> NotSweeping]

-----------------------------------------------------------------------------

InitTransfer(t) ==
  /\ status[t] = "none"
  /\ status' = [status EXCEPT ![t] = "initialized"]
  /\ UNCHANGED <<file, late, upload, download, held, sweep>>

\* An UPDATE of the row waits for the upload that holds it.
Unlocked(t) == upload[t] = "none"

\* The claiming UPDATE; the expiry, hash and size checks of the upload.
UploadClaim_reupload(t) ==
  /\ Unlocked(t)
  /\ status[t] \in {"initialized", "ready"}
  /\ ~late[t]
  /\ upload' = [upload EXCEPT ![t] = "claimed"]
  /\ UNCHANGED <<status, file, late, download, held, sweep>>
UploadClaim(t) ==
  /\ Unlocked(t)
  /\ status[t] = "initialized"
  /\ ~late[t]
  /\ upload' = [upload EXCEPT ![t] = "claimed"]
  /\ UNCHANGED <<status, file, late, download, held, sweep>>

\* After the await that reads the wrapped key: the file is written, synchronously.
UploadWrite(t) ==
  /\ upload[t] = "claimed"
  /\ file' = [file EXCEPT ![t] = TRUE]
  /\ upload' = [upload EXCEPT ![t] = "written"]
  /\ UNCHANGED <<status, late, download, held, sweep>>

UploadCommit_before_write(t) ==
  /\ upload[t] \in {"claimed", "written"}
  /\ status' = [status EXCEPT ![t] = "ready"]
  /\ upload' = [upload EXCEPT ![t] = "none"]
  /\ UNCHANGED <<file, late, download, held, sweep>>
UploadCommit(t) ==
  /\ upload[t] = "written"
  /\ status' = [status EXCEPT ![t] = "ready"]
  /\ upload' = [upload EXCEPT ![t] = "none"]
  /\ UNCHANGED <<file, late, download, held, sweep>>

\* A rollback takes back the claim, not the file.
UploadRollback(t) ==
  /\ upload[t] # "none"
  /\ upload' = [upload EXCEPT ![t] = "none"]
  /\ UNCHANGED <<status, file, late, download, held, sweep>>

-----------------------------------------------------------------------------

\* The row is read and checked; later steps of the request trust this read.
DownloadRead(t) ==
  /\ download[t] = "none"
  /\ status[t] \in {"ready", "downloading", "completed"}
  /\ ~late[t]
  /\ download' = [download EXCEPT ![t] = "read"]
  /\ UNCHANGED <<status, file, late, upload, held, sweep>>

\* A missing file ends the request in an error.
DownloadDecrypt(t) ==
  /\ download[t] = "read"
  /\ download' = [download EXCEPT ![t] = IF file[t] THEN "decrypted" ELSE "none"]
  /\ UNCHANGED <<status, file, late, upload, held, sweep>>

\* ... SET status = 'downloading' ... AND status = 'ready'
MayMark_any(t) == TRUE
MayMark(t) == status[t] = "ready"

\* The bytes are sent, unless the receiver is gone.
DownloadMark(t) ==
  /\ download[t] = "decrypted"
  /\ Unlocked(t)
  /\ status' = [status EXCEPT ![t] = IF MayMark(t) THEN "downloading" ELSE @]
  /\ download' = [download EXCEPT ![t] = "none"]
  /\ held' \in {held, [held EXCEPT ![t] = TRUE]}
  /\ UNCHANGED <<file, late, upload, sweep>>

\* The receiver verified the hash; expiry is not looked at.
Receipt(t) ==
  /\ held[t]
  /\ Unlocked(t)
  /\ status[t] \in {"ready", "downloading"}
  /\ status' = [status EXCEPT ![t] = "completed"]
  /\ UNCHANGED <<file, late, upload, download, held, sweep>>

-----------------------------------------------------------------------------
(* expireOldTransfers *)

Sweepable_not_ready(t) == status[t] \in {"initialized", "downloading"} /\ late[t]
Sweepable_completed(t) ==
  status[t] \in {"initialized", "ready", "downloading", "completed"} /\ late[t]
Sweepable(t) == status[t] \in {"initialized", "ready", "downloading"} /\ late[t]

SweepSelect(s) ==
  LET rows == {t \in Transfers : Sweepable(t)}
  IN /\ sweep[s] = NotSweeping
     /\ rows # {}
     /\ sweep' = [sweep EXCEPT ![s].todo = rows]
     /\ UNCHANGED <<status, file, late, upload, download, held>>

SweepDelete(s, t) ==
  /\ sweep[s].deleted = NoTransfer
  /\ t \in sweep[s].todo
  /\ file' = [file EXCEPT ![t] = FALSE]
  /\ sweep' = [sweep EXCEPT ![s] = [todo |-> @.todo \ {t}, deleted |-> t]]
  /\ UNCHANGED <<status, late, upload, download, held>>

\* UPDATE ... WHERE id = $1: whatever the row has become since it was chosen.
SweepExpire(s) ==
  LET t == sweep[s].deleted
  IN /\ t # NoTransfer
     /\ Unlocked(t)
     /\ status' = [status EXCEPT ![t] = "expired"]
     /\ sweep' = [sweep EXCEPT ![s].deleted = NoTransfer]
     /\ UNCHANGED <<file, late, upload, download, held>>

-----------------------------------------------------------------------------

TtlElapses(t) ==
  /\ status[t] # "none"
  /\ ~late[t]
  /\ late' = [late EXCEPT ![t] = TRUE]
  /\ UNCHANGED <<status, file, upload, download, held, sweep>>

\* The control plane stops: open transactions roll back, sweeps are forgotten.
Crash ==
  /\ upload' = [t \in Transfers |-> "none"]
  /\ download' = [t \in Transfers |-> "none"]
  /\ sweep' = [s \in Sweeps |-> NotSweeping]
  /\ UNCHANGED <<status, file, late, held>>

Upload(t) == UploadClaim(t) \/ UploadWrite(t) \/ UploadCommit(t) \/ UploadRollback(t)

Download(t) == DownloadRead(t) \/ DownloadDecrypt(t) \/ DownloadMark(t)

Sweep(s) == SweepSelect(s) \/ SweepExpire(s) \/ \E t \in Transfers : SweepDelete(s, t)

Running ==
  \/ \E t \in Transfers :
       InitTransfer(t) \/ Upload(t) \/ Download(t) \/ Receipt(t) \/ TtlElapses(t)
  \/ \E s \in Sweeps : Sweep(s)

Next == Running \/ Crash

Spec == Init /\ [][Next]_vars

\* The timer fires for ever, a transaction ends one way or the other, and the
\* control plane is not restarted for ever in the middle of its sweeps.
SweepFairness ==
  /\ \A t \in Transfers : WF_vars(UploadWrite(t) \/ UploadCommit(t) \/ UploadRollback(t))
  /\ \A s \in Sweeps : WF_vars(Sweep(s))
  /\ <>[][Running]_vars

SweepSpec == Spec /\ SweepFairness

-----------------------------------------------------------------------------

\* docs/database-backup-restore.md:61 forbids "exposing a dangling ready
\* transfer": until it expires, a transfer that may be downloaded has its file,
\* although row and file are never written or removed in one step.
NoDanglingTransfer ==
  \A t \in Transfers :
    status[t] \in {"ready", "downloading", "completed"} /\ ~late[t] => file[t]

\* Nobody brings an expired transfer back: not an upload that was under way
\* when the sweep chose it, nor a download that read the row before.
ExpiredIsFinal ==
  [][\A t \in Transfers : status[t] = "expired" => status'[t] = "expired"]_status

\* A receipt that arrives before the deadline counts for ever; only a sweep
\* that chose the row before its receipt came can still take it back.
ReceiptCounts ==
  [][\A t \in Transfers :
       /\ status[t] = "completed"
       /\ \A s \in Sweeps : t \notin sweep[s].todo \cup {sweep[s].deleted}
       => /\ status'[t] = "completed"
          /\ \A s \in Sweeps : t \notin sweep'[s].todo]_<<status, sweep>>

\* Whatever is still open when its deadline passes is completed or expired.
OverdueSettles ==
  \A t \in Transfers :
    late[t] ~> status[t] \in {"completed", "expired"}
=============================================================================
