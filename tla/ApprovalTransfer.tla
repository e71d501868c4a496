-------------------------- MODULE ApprovalTransfer --------------------------
(***************************************************************************)
(* One approval request of the local agent and everything its approval     *)
(* sets off: the decision (PersonalAgentProtocol), the copy into agentic   *)
(* storage, and the upload to the control plane                            *)
(* (ApprovalTransferOrchestrator), as the routes of server.ts call them.   *)
(*                                                                         *)
(* Decisions are synchronous; everything after them is not.  A call that   *)
(* approves runs on through five awaits, other calls interleave at each,   *)
(* and what it knows of the approval is the row as it was at the decision. *)
(* The approval is that of a relayed request, so its task has a relay id.  *)
(***************************************************************************)
EXTENDS Naturals, FiniteSets

CONSTANTS
  Files, Hashes,            \* local files, contents told apart by SHA-256
  Approves,                 \* calls that approve: button, inbox or callback
  Rebinds,                  \* calls of /approvals/:id/rebind-file
  NoFile, NoHash, NoRun,
  CallsFail,                \* I/O and calls to the control plane may fail
  MayCrash                  \* the local agent may stop and start again

ASSUME ApprovalConstants ==
  /\ NoFile \notin Files /\ NoHash \notin Hashes /\ NoRun \notin Approves
  /\ CallsFail \in BOOLEAN /\ MayCrash \in BOOLEAN

VARIABLES
  status,    \* approval_requests.status
  bound,     \* its bound_file_path and bound_sha256
  content,   \* what each local file holds now
  agreed,    \* history: the binding the user approved
  rebind,    \* the file a rebind call is hashing
  staging,   \* the copy into agentic storage
  stored,    \* what was promoted there
  run,       \* each approving call, inside scheduleForApproval
  job,       \* the row of approval_transfer_jobs
  cloud,     \* what the control plane holds of the transfer a call created
  announced  \* the call whose file.transfer.available was relayed

approvalVars == <<status, bound, agreed, content, rebind>>
vars == <<status, bound, agreed, content, rebind,
          staging, stored, run, job, cloud, announced>>

Binding == [file : Files \cup {NoFile}, sha : Hashes \cup {NoHash}]
Unbound == [file |-> NoFile, sha |-> NoHash]

Underway == {"notifying", "hashing", "creating", "uploading", "announcing"}
Idle == [pc |-> "idle", bound |-> Unbound, read |-> NoHash]
NoTransfer == [held |-> "none", file |-> NoFile, sha |-> NoHash]
NoJob == [status |-> "none", transfer |-> NoRun]

Settled == {"completed", "failed"}
JobStatus == {"none", "pending", "hashing", "init_started", "uploading"} \cup Settled

TypeOK ==
  /\ status \in {"pending", "approved", "rejected", "feedback_received"}
  /\ bound \in Binding
  /\ content \in [Files -> Hashes]
  /\ agreed \in Binding
  /\ rebind \in [Rebinds -> Files \cup {NoFile}]
  /\ staging \in {"none", "copying", "done"}
  /\ stored \in Hashes \cup {NoHash}
  /\ run \in [Approves -> [pc : Underway \cup {"idle", "done"}, bound : Binding,
                           read : Hashes \cup {NoHash}]]
  /\ \A k \in Approves : run[k].pc \in Underway => run[k].bound.file # NoFile
  /\ job \in [status : JobStatus, transfer : Approves \cup {NoRun}]
  /\ job.transfer = NoRun => job.status # "completed"
  /\ cloud \in [Approves -> [held : {"none", "created", "uploaded"},
                             file : Files \cup {NoFile}, sha : Hashes \cup {NoHash}]]
  /\ announced \in Approves \cup {NoRun}

\* An offer is created bound; a search that found nothing is not bound yet.
Init ==
  /\ content \in [Files -> Hashes]
  /\ \/ bound = Unbound
     \/ \E f \in Files : bound = [file |-> f, sha |-> content[f]]
  /\ status = "pending"
  /\ agreed = Unbound
  /\ rebind = [r \in Rebinds |-> NoFile]
  /\ staging = "none"
  /\ stored = NoHash
  /\ run = [k \in Approves |-> Idle]
  /\ job = NoJob
  /\ cloud = [k \in Approves |-> NoTransfer]
  /\ announced = NoRun

-----------------------------------------------------------------------------
(* Decisions.  A recorded idempotency key or a decided approval changes    *)
(* nothing, so keys need no state of their own: a key is only ever         *)
(* recorded together with, or after, a decision.  expires_at needs none    *)
(* either: no decision looks at it.                                        *)

Decidable_always(s) == TRUE
Decidable(s) == s = "pending"

\* ON CONFLICT only touches the attempt counter, so an old status stays.
TouchedJob == IF job.status = "none" THEN [job EXCEPT !.status = "pending"] ELSE job

\* What scheduleForApproval asks of the row that the decision returned.
Due_unapproved(s) == bound.file # NoFile /\ job.status \notin {"completed", "uploading"}
Due_unbound(s) == s = "approved" /\ job.status \notin {"completed", "uploading"}
Due(s) ==
  /\ s = "approved"
  /\ bound.file # NoFile
  /\ job.status \notin {"completed", "uploading"}

\* scheduleForApproval up to its first await: skipped, or under way.
Schedule(k, s) ==
  IF Due(s)
  THEN /\ run' = [run EXCEPT ![k] = [pc |-> "notifying", bound |-> bound, read |-> NoHash]]
       /\ job' = TouchedJob
  ELSE /\ run' = [run EXCEPT ![k].pc = "done"]
       /\ UNCHANGED job

\* A replayed approval is scheduled again, like a new one.
Approve(k) ==
  /\ run[k].pc = "idle"
  /\ IF Decidable(status)
     THEN /\ status' = "approved"
          /\ agreed' = bound
          /\ staging' = IF bound = Unbound THEN staging ELSE "copying"
     ELSE UNCHANGED <<status, agreed, staging>>
  /\ Schedule(k, status')
  /\ UNCHANGED <<bound, content, rebind, stored, cloud, announced>>

\* A reject or a feedback call.
Decline ==
  /\ Decidable(status)
  /\ status' \in {"rejected", "feedback_received"}
  /\ UNCHANGED <<bound, content, agreed, rebind>>
  /\ UNCHANGED <<staging, stored, run, job, cloud, announced>>

\* The route checks the status, then awaits the hash of the chosen file ...
RebindStart(r, f) ==
  /\ rebind[r] = NoFile
  /\ status = "pending"
  /\ rebind' = [rebind EXCEPT ![r] = f]
  /\ UNCHANGED <<status, bound, content, agreed>>
  /\ UNCHANGED <<staging, stored, run, job, cloud, announced>>

\* ... and writes the binding WHERE id = ?, whatever the status is by then.
RebindFinish(r) ==
  LET f == rebind[r]
  IN /\ f # NoFile
     /\ bound' \in {[file |-> f, sha |-> content[f]]}
                   \cup (IF CallsFail THEN {bound} ELSE {})
     /\ rebind' = [rebind EXCEPT ![r] = NoFile]
     /\ UNCHANGED <<status, content, agreed>>
     /\ UNCHANGED <<staging, stored, run, job, cloud, announced>>

\* stageFile copies and hashes what the file holds; promoteToApproved keeps it
\* only under the approved hash.
Promotable_unchecked(sha) == TRUE
Promotable(sha) == sha = agreed.sha

StageFinish ==
  /\ staging = "copying"
  /\ staging' = "done"
  /\ LET sha == content[agreed.file]
         kept == IF Promotable(sha) THEN sha ELSE stored
     IN stored' \in {kept} \cup (IF CallsFail THEN {stored} ELSE {})
  /\ UNCHANGED approvalVars
  /\ UNCHANGED <<run, job, cloud, announced>>

-----------------------------------------------------------------------------
(* One approving call inside the try of scheduleForApproval.               *)

At(k, pc) == run[k].pc = pc
Goto(k, pc) == run' = [run EXCEPT ![k].pc = pc]
JobBecomes(s) == job' = [job EXCEPT !.status = s]

\* The best-effort status message is answered, or not.
Notified(k) ==
  /\ At(k, "notifying")
  /\ JobBecomes("hashing")
  /\ Goto(k, "hashing")
  /\ UNCHANGED approvalVars
  /\ UNCHANGED <<staging, stored, cloud, announced>>

HashMatches_unchecked(k, sha) == TRUE
HashMatches(k, sha) == run[k].bound.sha \in {NoHash, sha}

\* The bytes are read once.  The row gets their hash under whatever path it
\* has by then.
Hashed(k) ==
  LET sha == content[run[k].bound.file]
  IN /\ At(k, "hashing")
     /\ HashMatches(k, sha)
     /\ bound' = [bound EXCEPT !.sha = sha]
     /\ JobBecomes("init_started")
     /\ run' = [run EXCEPT ![k].pc = "creating", ![k].read = sha]
     /\ UNCHANGED <<status, content, agreed, rebind>>
     /\ UNCHANGED <<staging, stored, cloud, announced>>

HashRefused(k) ==
  /\ At(k, "hashing")
  /\ ~HashMatches(k, content[run[k].bound.file])
  /\ JobBecomes("failed")
  /\ Goto(k, "done")
  /\ UNCHANGED approvalVars
  /\ UNCHANGED <<staging, stored, cloud, announced>>

Stored(k, held) ==
  cloud' = [cloud EXCEPT ![k] = [held |-> held, file |-> run[k].bound.file, sha |-> run[k].read]]

Created(k) ==
  /\ At(k, "creating")
  /\ Stored(k, "created")
  /\ job' = [status |-> "uploading", transfer |-> k]
  /\ Goto(k, "uploading")
  /\ UNCHANGED approvalVars
  /\ UNCHANGED <<staging, stored, announced>>

Uploaded_announcing_first(k) ==
  /\ At(k, "uploading")
  /\ Goto(k, "announcing")
  /\ announced' = IF announced = NoRun THEN k ELSE announced
  /\ UNCHANGED approvalVars
  /\ UNCHANGED <<staging, stored, job, cloud>>
Uploaded(k) ==
  /\ At(k, "uploading")
  /\ Stored(k, "uploaded")
  /\ Goto(k, "announcing")
  /\ UNCHANGED approvalVars
  /\ UNCHANGED <<staging, stored, job, announced>>

\* The relay keeps the first message sent under transfer-available:<approval>.
Relayed(k) == announced' = IF announced = NoRun THEN k ELSE announced

Announced_keeps_transfer(k) ==
  /\ At(k, "announcing")
  /\ Relayed(k)
  /\ JobBecomes("completed")
  /\ Goto(k, "done")
  /\ UNCHANGED approvalVars
  /\ UNCHANGED <<staging, stored, cloud>>
Announced(k) ==
  /\ At(k, "announcing")
  /\ Relayed(k)
  /\ job' = [status |-> "completed", transfer |-> k]
  /\ Goto(k, "done")
  /\ UNCHANGED approvalVars
  /\ UNCHANGED <<staging, stored, cloud>>

\* The catch block.  A call whose answer was lost may still have taken effect.
Failed_forgets_job(k) ==
  /\ run[k].pc \in Underway
  /\ UNCHANGED <<cloud, announced>>
  /\ Goto(k, "done")
  /\ UNCHANGED approvalVars
  /\ UNCHANGED <<staging, stored, job>>
Failed(k) ==
  /\ CallsFail
  /\ run[k].pc \in Underway
  /\ \/ UNCHANGED <<cloud, announced>>
     \/ At(k, "creating") /\ Stored(k, "created") /\ UNCHANGED announced
     \/ At(k, "uploading") /\ Stored(k, "uploaded") /\ UNCHANGED announced
     \/ At(k, "announcing") /\ Relayed(k) /\ UNCHANGED cloud
  /\ JobBecomes("failed")
  /\ Goto(k, "done")
  /\ UNCHANGED approvalVars
  /\ UNCHANGED <<staging, stored>>

-----------------------------------------------------------------------------

FileChanges(f) ==
  /\ \E sha \in Hashes : content' = [content EXCEPT ![f] = sha]
  /\ UNCHANGED <<status, bound, agreed, rebind>>
  /\ UNCHANGED <<staging, stored, run, job, cloud, announced>>

\* Nothing resumes a call, a copy or a rebind after a restart.
Crash ==
  /\ MayCrash
  /\ rebind' = [r \in Rebinds |-> NoFile]
  /\ staging' = IF staging = "copying" THEN "done" ELSE staging
  /\ run' = [k \in Approves |-> IF run[k].pc \in Underway
                                 THEN [run[k] EXCEPT !.pc = "done"] ELSE run[k]]
  /\ UNCHANGED <<status, bound, content, agreed, stored, job, cloud, announced>>

Upload(k) ==
  \/ Notified(k) \/ Hashed(k) \/ HashRefused(k)
  \/ Created(k) \/ Uploaded(k) \/ Announced(k) \/ Failed(k)

Next ==
  \/ \E k \in Approves : Approve(k) \/ Upload(k)
  \/ \E r \in Rebinds : RebindFinish(r) \/ \E f \in Files : RebindStart(r, f)
  \/ \E f \in Files : FileChanges(f)
  \/ Decline \/ StageFinish \/ Crash

Spec == Init /\ [][Next]_vars

\* Every await of a call is answered, with a value or an error.
FairSpec == Spec /\ \A k \in Approves : WF_vars(Upload(k))

-----------------------------------------------------------------------------

InCloud(k) == cloud[k].held # "none"

\* docs/security-model.md:5 "No file transfer before explicit user approval",
\* and none at all once the answer was no: whatever calls are under way, only
\* an approved request has left a trace on the control plane or in storage.
NothingLeavesUnapproved ==
  (\E k \in Approves : InCloud(k)) \/ stored # NoHash \/ job # NoJob
    => status = "approved"

\* What a call uploads is what the user approved: that file, with the bytes it
\* had then, although the file may change at any time in between.
ApprovedBytesOnly ==
  \A k \in Approves :
    InCloud(k) => /\ cloud[k].file = agreed.file
                  /\ cloud[k].sha = agreed.sha

\* The same for the local copy, which is made outside the call's own checks.
StoredIsApproved == stored # NoHash => stored = agreed.sha

\* The receiver is told of a transfer only once it can be downloaded, also when
\* answers are lost and calls are repeated.
AnnouncedIsUploaded == announced # NoRun => cloud[announced].held = "uploaded"

\* A completed job names an uploaded transfer and its receiver has been told,
\* although overlapping calls write the one row of the job.
CompletedIsDelivered ==
  job.status = "completed" =>
    announced # NoRun /\ cloud[job.transfer].held = "uploaded"

\* README.md:118: "terminal approvals cannot be reversed".
DecisionIsFinal ==
  [][status # "pending" => UNCHANGED <<status, agreed>>]_vars

\* While the agent keeps running, a transfer that was begun is completed or
\* failed in the end.
JobSettles ==
  job.status \notin Settled \cup {"none"} ~> job.status \in Settled

\* docs/security-model.md:11: "Duplicate approve/reject callbacks do not trigger
\* duplicate transfers."
AtMostOneTransfer == Cardinality({k \in Approves : InCloud(k)}) <= 1
=============================================================================
