----------------------- MODULE ApprovalTransferProofs -----------------------
(***************************************************************************)
(* Theorems about ApprovalTransfer, for any files, contents, approving     *)
(* calls and rebinds, whether or not calls fail and the agent restarts.    *)
(***************************************************************************)
EXTENDS ApprovalTransfer, FiniteSetTheorems, TLAPS

\* What is under way was started by an approval.
UnderwayInv ==
  /\ \A k \in Approves : run[k].pc \in Underway => status = "approved"
  /\ staging = "copying" => status = "approved"

\* How far a call is says what the control plane has of its transfer.
UploadedInv ==
  \A k \in Approves :
    /\ run[k].pc = "announcing" => cloud[k].held = "uploaded"
    /\ cloud[k].held = "uploaded" => run[k].pc \in {"announcing", "done"}

ApprovalInv ==
  /\ TypeOK
  /\ UnderwayInv
  /\ NothingLeavesUnapproved
  /\ StoredIsApproved
  /\ UploadedInv
  /\ AnnouncedIsUploaded
  /\ CompletedIsDelivered

-----------------------------------------------------------------------------
(* Types, variable by variable *)

RowType ==
  /\ status \in {"pending", "approved", "rejected", "feedback_received"}
  /\ bound \in Binding
  /\ content \in [Files -> Hashes]
  /\ agreed \in Binding
  /\ rebind \in [Rebinds -> Files \cup {NoFile}]
  /\ staging \in {"none", "copying", "done"}
  /\ stored \in Hashes \cup {NoHash}
  /\ announced \in Approves \cup {NoRun}

RunType ==
  /\ run \in [Approves -> [pc : Underway \cup {"idle", "done"}, bound : Binding,
                           read : Hashes \cup {NoHash}]]
  /\ \A k \in Approves : run[k].pc \in Underway => run[k].bound.file # NoFile

JobType ==
  /\ job \in [status : JobStatus, transfer : Approves \cup {NoRun}]
  /\ job.transfer = NoRun => job.status # "completed"

CloudType ==
  cloud \in [Approves -> [held : {"none", "created", "uploaded"},
                          file : Files \cup {NoFile}, sha : Hashes \cup {NoHash}]]

\* The four parts are TypeOK.
LEMMA TypeParts == TypeOK <=> RowType /\ RunType /\ JobType /\ CloudType
  BY DEF TypeOK, RowType, RunType, JobType, CloudType

\* A fresh approval is well formed, bound or not.
LEMMA InitType == Init => TypeOK
<1> SUFFICES ASSUME Init PROVE TypeOK
  OBVIOUS
<1> USE ApprovalConstants DEF Init
<1>1. Unbound \in Binding /\ bound \in Binding
  BY DEF Unbound, Binding
<1>2. RowType
  BY <1>1 DEF RowType
<1>3. RunType
  BY <1>1 DEF RunType, Idle, Underway
<1>4. JobType
  BY DEF JobType, NoJob, JobStatus
<1>5. CloudType
  BY DEF CloudType, NoTransfer
<1> QED
  BY <1>2, <1>3, <1>4, <1>5, TypeParts

\* What a call under way reads is the content of a file.
LEMMA HashedContent ==
  ASSUME TypeOK, NEW k \in Approves, run[k].pc \in Underway
  PROVE  run[k].bound.file \in Files /\ content[run[k].bound.file] \in Hashes
  BY DEF TypeOK, Binding

\* The approval's own row keeps its types.
LEMMA RowStep == TypeOK /\ [Next]_vars => RowType'
<1> SUFFICES ASSUME TypeOK, [Next]_vars PROVE RowType'
  OBVIOUS
<1> USE ApprovalConstants DEF TypeOK, RowType, approvalVars
<1>1. ASSUME NEW k \in Approves, Approve(k) PROVE RowType'
  BY <1>1 DEF Approve
<1>2. ASSUME NEW k \in Approves, Hashed(k) PROVE RowType'
  BY <1>2, HashedContent DEF Hashed, At, Underway, Binding
<1>3. ASSUME NEW k \in Approves, Upload(k), ~Hashed(k) PROVE RowType'
  BY <1>3 DEF Upload, Notified, HashRefused, Created, Uploaded, Announced, Failed, Relayed
<1>4. ASSUME NEW r \in Rebinds, RebindFinish(r) PROVE RowType'
  BY <1>4 DEF RebindFinish, Binding
<1>5. ASSUME NEW r \in Rebinds, NEW f \in Files, RebindStart(r, f) PROVE RowType'
  BY <1>5 DEF RebindStart
<1>6. ASSUME NEW f \in Files, FileChanges(f) PROVE RowType'
  BY <1>6 DEF FileChanges
<1>7. CASE Decline
  BY <1>7 DEF Decline
<1>8. CASE StageFinish
  BY <1>8 DEF StageFinish, Promotable, Binding
<1>9. CASE Crash
  BY <1>9 DEF Crash
<1>10. CASE UNCHANGED vars
  BY <1>10 DEF vars
<1> QED
  BY <1>1, <1>2, <1>3, <1>4, <1>5, <1>6, <1>7, <1>8, <1>9, <1>10 DEF Next

\* A call under way has a file.
LEMMA RunStep == TypeOK /\ [Next]_vars => RunType'
<1> SUFFICES ASSUME TypeOK, [Next]_vars PROVE RunType'
  OBVIOUS
<1> USE DEF RunType, Underway
<1>1. RunType /\ bound \in Binding
  BY TypeParts DEF RowType
<1>2. ASSUME NEW k \in Approves, Approve(k) PROVE RunType'
  <2>1. CASE Due(status')
    BY <1>1, <1>2, <2>1 DEF Approve, Schedule, Due
  <2>2. CASE ~Due(status')
    BY <1>1, <1>2, <2>2 DEF Approve, Schedule
  <2> QED
    BY <2>1, <2>2
<1>3. ASSUME NEW k \in Approves, Hashed(k) PROVE RunType'
  BY <1>1, <1>3, HashedContent DEF Hashed, At
<1>4. ASSUME NEW k \in Approves, run[k].pc \in Underway,
             NEW pc \in Underway \cup {"done"}, Goto(k, pc)
      PROVE  RunType'
  BY <1>1, <1>4 DEF Goto
<1>5. ASSUME NEW k \in Approves, Upload(k), ~Hashed(k) PROVE RunType'
  <2>1. PICK pc \in Underway \cup {"done"} : Goto(k, pc) /\ run[k].pc \in Underway
    BY <1>5 DEF Upload, Notified, HashRefused, Created, Uploaded, Announced, Failed, At
  <2> QED
    BY <1>4, <2>1
<1>6. CASE Crash
  BY <1>1, <1>6 DEF Crash
<1>7. CASE UNCHANGED run
  BY <1>1, <1>7
<1> QED
  BY <1>2, <1>3, <1>5, <1>6, <1>7
  DEF Next, Decline, RebindStart, RebindFinish, StageFinish, FileChanges, vars

\* A completed job names a transfer.
LEMMA JobStep == TypeOK /\ [Next]_vars => JobType'
<1> SUFFICES ASSUME TypeOK, [Next]_vars PROVE JobType'
  OBVIOUS
<1> USE ApprovalConstants DEF JobType, JobStatus, Settled
<1>1. JobType
  BY TypeParts
<1>2. ASSUME NEW k \in Approves, Schedule(k, status') PROVE JobType'
  BY <1>1, <1>2 DEF Schedule, TouchedJob
<1>3. ASSUME NEW s \in JobStatus \ {"completed"}, JobBecomes(s) PROVE JobType'
  BY <1>1, <1>3 DEF JobBecomes
<1>4. ASSUME NEW k \in Approves, Created(k) PROVE JobType'
  BY <1>4 DEF Created
<1>5. ASSUME NEW k \in Approves, Announced(k) PROVE JobType'
  BY <1>5 DEF Announced
<1>6. CASE UNCHANGED job
  BY <1>1, <1>6
<1> QED
  BY <1>2, <1>3, <1>4, <1>5, <1>6
  DEF Next, Approve, Decline, Upload, Notified, Hashed, HashRefused, Uploaded, Failed,
      RebindStart, RebindFinish, StageFinish, FileChanges, Crash, vars

\* The control plane's record of a transfer keeps its type.
LEMMA CloudStep == TypeOK /\ [Next]_vars => CloudType'
<1> SUFFICES ASSUME TypeOK, [Next]_vars PROVE CloudType'
  OBVIOUS
<1>1. CloudType /\ RunType
  BY TypeParts
<1>2. ASSUME NEW k \in Approves, NEW held \in {"created", "uploaded"}, Stored(k, held)
      PROVE  CloudType'
  BY <1>1, <1>2 DEF Stored, CloudType, RunType, Binding
<1>3. CASE UNCHANGED cloud
  BY <1>1, <1>3 DEF CloudType
<1> QED
  BY <1>2, <1>3
  DEF Next, Approve, Decline, Upload, Notified, Hashed, HashRefused, Created, Uploaded,
      Announced, Failed, RebindStart, RebindFinish, StageFinish, FileChanges, Crash, vars

\* Every step keeps the types.
LEMMA TypeStep == TypeOK /\ [Next]_vars => TypeOK'
<1> SUFFICES ASSUME TypeOK, [Next]_vars PROVE TypeOK'
  OBVIOUS
<1>1. RowType' /\ RunType' /\ JobType' /\ CloudType'
  BY RowStep, RunStep, JobStep, CloudStep
<1> QED
  BY <1>1 DEF TypeOK, RowType, RunType, JobType, CloudType

-----------------------------------------------------------------------------
(* Decisions *)

\* A decision stands, and with it what was agreed: every writer of the status
\* looks at it in the same step.
LEMMA DecisionStep == [Next]_vars => (status # "pending" => UNCHANGED <<status, agreed>>)
  BY DEF Next, Approve, Decidable, Decline, Upload, Notified, Hashed, HashRefused,
         Created, Uploaded, Announced, Failed, RebindStart, RebindFinish,
         StageFinish, FileChanges, Crash, vars, approvalVars

\* A call under way, and a copy under way, were started by an approval.
LEMMA UnderwayStep == TypeOK /\ UnderwayInv /\ [Next]_vars => UnderwayInv'
<1> SUFFICES ASSUME TypeOK, UnderwayInv, [Next]_vars PROVE UnderwayInv'
  OBVIOUS
<1> USE DEF TypeOK, UnderwayInv, Underway, approvalVars
<1>1. status = "approved" => status' = "approved"
  BY DecisionStep
<1>2. ASSUME NEW k \in Approves, Approve(k) PROVE UnderwayInv'
  BY <1>1, <1>2 DEF Approve, Schedule, Due, Decidable
<1>3. ASSUME NEW k \in Approves, Upload(k) PROVE UnderwayInv'
  <2>1. status = "approved"
    BY <1>3 DEF Upload, Notified, Hashed, HashRefused, Created, Uploaded, Announced, Failed, At
  <2> QED
    BY <1>1, <2>1
<1>4. CASE Decline
  BY <1>4 DEF Decline, Decidable
<1>5. CASE StageFinish
  BY <1>5 DEF StageFinish
<1>6. CASE Crash
  BY <1>6 DEF Crash
<1>7. ASSUME UNCHANGED <<status, run, staging>> PROVE UnderwayInv'
  BY <1>7
<1> QED
  BY <1>2, <1>3, <1>4, <1>5, <1>6, <1>7
  DEF Next, RebindStart, RebindFinish, FileChanges, vars

\* Nothing appears outside before an approval, and it keeps its status.
LEMMA UnapprovedStep ==
  TypeOK /\ UnderwayInv /\ NothingLeavesUnapproved /\ [Next]_vars => NothingLeavesUnapproved'
<1> SUFFICES ASSUME TypeOK, UnderwayInv, NothingLeavesUnapproved, [Next]_vars
             PROVE  NothingLeavesUnapproved'
  OBVIOUS
<1> USE DEF NothingLeavesUnapproved
<1>1. status = "approved" => status' = "approved"
  BY DecisionStep
<1>2. ASSUME NEW k \in Approves, Approve(k) PROVE NothingLeavesUnapproved'
  BY <1>1, <1>2 DEF Approve, Schedule, Due, InCloud
<1>3. ASSUME NEW k \in Approves, Upload(k) PROVE status = "approved"
  BY <1>3 DEF UnderwayInv, Underway, Upload, Notified, Hashed, HashRefused, Created, Uploaded,
              Announced, Failed, At
<1>4. ASSUME StageFinish PROVE status = "approved"
  BY <1>4 DEF StageFinish, UnderwayInv
<1>5. CASE Decline
  BY <1>5 DEF Decline, Decidable, InCloud
<1>6. ASSUME UNCHANGED <<status, stored, job, cloud>> PROVE NothingLeavesUnapproved'
  BY <1>6 DEF InCloud
<1> QED
  BY <1>1, <1>2, <1>3, <1>4, <1>5, <1>6
  DEF Next, RebindStart, RebindFinish, FileChanges, Crash, vars

\* The copy in storage is kept only under the agreed hash, which a decision fixes.
LEMMA StoredStep ==
  TypeOK /\ NothingLeavesUnapproved /\ StoredIsApproved /\ [Next]_vars => StoredIsApproved'
<1> SUFFICES ASSUME TypeOK, NothingLeavesUnapproved, StoredIsApproved, [Next]_vars
             PROVE  StoredIsApproved'
  OBVIOUS
<1> USE DEF StoredIsApproved
<1>1. CASE StageFinish
  BY <1>1 DEF StageFinish, Promotable, approvalVars
<1>2. CASE UNCHANGED stored
  BY <1>2, DecisionStep DEF NothingLeavesUnapproved
<1> QED
  BY <1>1, <1>2
  DEF Next, Approve, Decline, Upload, Notified, Hashed, HashRefused, Created, Uploaded,
      Announced, Failed, RebindStart, RebindFinish, FileChanges, Crash, vars

-----------------------------------------------------------------------------
(* Uploads *)

\* A call announces only what it has uploaded, and never uploads twice.
LEMMA UploadedStep == TypeOK /\ UploadedInv /\ [Next]_vars => UploadedInv'
<1> SUFFICES ASSUME TypeOK, UploadedInv, [Next]_vars PROVE UploadedInv'
  OBVIOUS
<1> USE DEF UploadedInv, Underway
<1> RunType /\ CloudType
  BY TypeParts
<1> USE DEF RunType, CloudType
<1>1. ASSUME NEW k \in Approves, Approve(k) PROVE UploadedInv'
  BY <1>1 DEF Approve, Schedule
<1>2. ASSUME NEW k \in Approves, Upload(k) PROVE UploadedInv'
  <2>1. CASE Notified(k) \/ HashRefused(k) \/ Announced(k)
    BY <2>1 DEF Notified, HashRefused, Announced, At, Goto
  <2>2. CASE Hashed(k)
    BY <2>2 DEF Hashed, At
  <2>3. CASE Created(k)
    BY <2>3 DEF Created, Stored, At, Goto
  <2>4. CASE Uploaded(k)
    BY <2>4 DEF Uploaded, Stored, At, Goto
  <2>5. CASE Failed(k)
    BY <2>5 DEF Failed, Stored, At, Goto
  <2> QED
    BY <1>2, <2>1, <2>2, <2>3, <2>4, <2>5 DEF Upload
<1>3. CASE Crash
  BY <1>3 DEF Crash
<1>4. ASSUME UNCHANGED <<run, cloud>> PROVE UploadedInv'
  BY <1>4
<1> QED
  BY <1>1, <1>2, <1>3, <1>4
  DEF Next, Decline, RebindStart, RebindFinish, StageFinish, FileChanges, vars

\* What has been uploaded stays uploaded.
LEMMA UploadedStays ==
  ASSUME TypeOK, UploadedInv, [Next]_vars, NEW k \in Approves, cloud[k].held = "uploaded"
  PROVE  cloud'[k].held = "uploaded"
<1> USE DEF TypeOK
<1>1. ASSUME NEW j \in Approves, Created(j) PROVE cloud'[k].held = "uploaded"
  BY <1>1 DEF Created, Stored, At, UploadedInv
<1>2. ASSUME NEW j \in Approves, Uploaded(j) PROVE cloud'[k].held = "uploaded"
  BY <1>2 DEF Uploaded, Stored
<1>3. ASSUME NEW j \in Approves, Failed(j) PROVE cloud'[k].held = "uploaded"
  BY <1>3 DEF Failed, Stored, At, UploadedInv
<1> QED
  BY <1>1, <1>2, <1>3
  DEF Next, Approve, Decline, Upload, Notified, Hashed, HashRefused, Announced,
      RebindStart, RebindFinish, StageFinish, FileChanges, Crash, vars

\* Only a call that has uploaded is announced, and the first one stays so.
LEMMA AnnouncedStep ==
  TypeOK /\ UploadedInv /\ AnnouncedIsUploaded /\ [Next]_vars =>
    /\ AnnouncedIsUploaded'
    /\ announced # NoRun => announced' = announced
<1> SUFFICES ASSUME TypeOK, UploadedInv, AnnouncedIsUploaded, [Next]_vars
             PROVE  /\ AnnouncedIsUploaded'
                    /\ announced # NoRun => announced' = announced
  OBVIOUS
<1> USE DEF AnnouncedIsUploaded
<1>1. CASE announced' = announced
  BY <1>1, UploadedStays DEF TypeOK
<1>2. CASE announced' # announced
  <2>1. PICK k \in Approves : At(k, "announcing") /\ Relayed(k)
    BY <1>2
    DEF Next, Approve, Decline, Upload, Notified, Hashed, HashRefused, Created, Uploaded,
        Announced, Failed, RebindStart, RebindFinish, StageFinish, FileChanges, Crash, vars
  <2> QED
    BY <1>2, <2>1, UploadedStays DEF At, Relayed, UploadedInv
<1> QED
  BY <1>1, <1>2

\* A job is completed only by a call that has uploaded and announced.
LEMMA CompletedStep == ApprovalInv /\ [Next]_vars => CompletedIsDelivered'
<1> SUFFICES ASSUME ApprovalInv, [Next]_vars, job'.status = "completed"
             PROVE  announced' # NoRun /\ cloud'[job'.transfer].held = "uploaded"
  BY DEF CompletedIsDelivered
<1> USE DEF ApprovalInv
<1>1. CASE job' = job
  <2>1. job.transfer \in Approves
    BY <1>1 DEF TypeOK
  <2> QED
    BY <1>1, <2>1, UploadedStays, AnnouncedStep DEF CompletedIsDelivered
<1>2. CASE job' # job
  <2>1. PICK k \in Approves : Announced(k)
    <3> JobType
      BY TypeParts
    <3> USE DEF JobType
    <3>1. ASSUME NEW j \in Approves, Schedule(j, status') PROVE FALSE
      BY <1>2, <3>1 DEF Schedule, TouchedJob
    <3>2. ASSUME NEW s \in JobStatus \ {"completed"}, JobBecomes(s) PROVE FALSE
      BY <3>2 DEF JobBecomes
    <3>3. ASSUME NEW j \in Approves, Created(j) PROVE FALSE
      BY <3>3 DEF Created
    <3> QED
      BY <1>2, <3>1, <3>2, <3>3
      DEF Next, Approve, Decline, Upload, Notified, Hashed, HashRefused, Uploaded, Failed,
          RebindStart, RebindFinish, StageFinish, FileChanges, Crash, vars,
          JobStatus, Settled
  <2>2. announced' # NoRun
    BY <2>1, ApprovalConstants DEF Announced, Relayed
  <2> QED
    BY <2>1, <2>2 DEF Announced, At, UploadedInv
<1> QED
  BY <1>1, <1>2

-----------------------------------------------------------------------------

\* The inductive invariant holds throughout.
THEOREM Invariance == Spec => []ApprovalInv
<1>1. Init => ApprovalInv
  <2> SUFFICES ASSUME Init PROVE ApprovalInv
    OBVIOUS
  <2>1. /\ UnderwayInv /\ NothingLeavesUnapproved /\ StoredIsApproved
        /\ UploadedInv /\ AnnouncedIsUploaded /\ CompletedIsDelivered
    BY DEF Init, Idle, NoJob, NoTransfer, Underway, UnderwayInv, NothingLeavesUnapproved,
           InCloud, StoredIsApproved, UploadedInv, AnnouncedIsUploaded, CompletedIsDelivered
  <2> QED
    BY <2>1, InitType DEF ApprovalInv
<1>2. ApprovalInv /\ [Next]_vars => ApprovalInv'
  BY TypeStep, UnderwayStep, UnapprovedStep, StoredStep, UploadedStep, AnnouncedStep,
     CompletedStep DEF ApprovalInv
<1> QED
  BY <1>1, <1>2, PTL DEF Spec

\* The approval, its calls, its job and its transfers keep their types.
THEOREM TypeCorrect == Spec => []TypeOK
<1>1. ApprovalInv => TypeOK
  BY DEF ApprovalInv
<1> QED
  BY Invariance, <1>1, PTL

\* Only an approved request leaves a trace on the control plane or in storage.
THEOREM Unapproved == Spec => []NothingLeavesUnapproved
<1>1. ApprovalInv => NothingLeavesUnapproved
  BY DEF ApprovalInv
<1> QED
  BY Invariance, <1>1, PTL

\* The stored copy has the bytes that were approved.
THEOREM StoredCopy == Spec => []StoredIsApproved
<1>1. ApprovalInv => StoredIsApproved
  BY DEF ApprovalInv
<1> QED
  BY Invariance, <1>1, PTL

\* The receiver is told of uploaded transfers only.
THEOREM Announcement == Spec => []AnnouncedIsUploaded
<1>1. ApprovalInv => AnnouncedIsUploaded
  BY DEF ApprovalInv
<1> QED
  BY Invariance, <1>1, PTL

\* A completed job names an uploaded transfer and its receiver has been told.
THEOREM Completion == Spec => []CompletedIsDelivered
<1>1. ApprovalInv => CompletedIsDelivered
  BY DEF ApprovalInv
<1> QED
  BY Invariance, <1>1, PTL

\* A decision and what it agreed to never change.
THEOREM Decision == Spec => DecisionIsFinal
  BY DecisionStep, PTL DEF Spec, DecisionIsFinal

-----------------------------------------------------------------------------
(* An approval that no call rebinds *)

\* The row keeps the agreed binding, and so does every call: the hash a call
\* writes back is the one it was given.
BoundInv ==
  /\ bound.file # NoFile => bound.sha # NoHash
  /\ status = "approved" => bound = agreed
  /\ \A k \in Approves :
       /\ run[k].pc \in Underway => run[k].bound = agreed
       /\ run[k].pc \in {"creating", "uploading", "announcing"} => run[k].read = agreed.sha

\* A hash is computed for the agreed file and refused unless it is the agreed one.
LEMMA HashedStep ==
  ASSUME ApprovalInv, BoundInv, NEW k \in Approves, Hashed(k)
  PROVE  content[run[k].bound.file] = agreed.sha /\ bound' = bound /\ status = "approved"
<1>1. run[k].pc \in Underway
  BY DEF Hashed, At, Underway
<1>2. status = "approved" /\ bound = agreed /\ run[k].bound = agreed
  BY <1>1 DEF ApprovalInv, UnderwayInv, BoundInv
<1>3. agreed.sha # NoHash
  BY <1>1, <1>2 DEF ApprovalInv, TypeOK, BoundInv
<1>4. content[run[k].bound.file] = agreed.sha
  BY <1>2, <1>3 DEF Hashed, HashMatches
<1> QED
  BY <1>2, <1>4 DEF Hashed, ApprovalInv, TypeOK, Binding

\* Without rebinds, no step moves the row or a call away from what was agreed.
LEMMA BoundStep ==
  ASSUME Rebinds = {}, ApprovalInv, BoundInv, [Next]_vars
  PROVE  BoundInv'
<1> RunType /\ TypeOK /\ UnderwayInv
  BY TypeParts DEF ApprovalInv
<1> USE ApprovalConstants DEF BoundInv, RunType, Underway
<1>1. ASSUME NEW k \in Approves, Approve(k) PROVE BoundInv'
  <2>1. CASE status = "pending"
    BY <1>1, <2>1 DEF Approve, Schedule, Decidable, Due, UnderwayInv
  <2>2. CASE status # "pending"
    BY <1>1, <2>2 DEF Approve, Schedule, Decidable, Due
  <2> QED
    BY <2>1, <2>2
<1>2. ASSUME NEW k \in Approves, Hashed(k) PROVE BoundInv'
  <2>1. /\ content[run[k].bound.file] = agreed.sha /\ bound' = bound
        /\ run' = [run EXCEPT ![k].pc = "creating", ![k].read = content[run[k].bound.file]]
        /\ UNCHANGED <<status, agreed>>
        /\ run[k].pc = "hashing"
    BY <1>2, HashedStep DEF Hashed, At
  <2> QED
    BY <2>1
<1>3. ASSUME NEW k \in Approves, NEW pc, Goto(k, pc), UNCHANGED <<status, bound, agreed>>,
             \/ pc \in {"done", "hashing"} /\ run[k].pc \in Underway
             \/ pc \in {"uploading", "announcing"} /\ run[k].pc \in {"creating", "uploading"}
      PROVE  BoundInv'
  BY <1>3 DEF Goto
<1>4. ASSUME NEW k \in Approves, Upload(k), ~Hashed(k) PROVE BoundInv'
  <2>1. \E pc :
          /\ Goto(k, pc)
          /\ UNCHANGED <<status, bound, agreed>>
          /\ \/ pc \in {"done", "hashing"} /\ run[k].pc \in Underway
             \/ pc \in {"uploading", "announcing"} /\ run[k].pc \in {"creating", "uploading"}
    BY <1>4 DEF Upload, Notified, HashRefused, Created, Uploaded, Announced, Failed, At,
                approvalVars
  <2> QED
    BY <1>3, <2>1
<1>5. CASE Decline
  BY <1>5 DEF Decline, Decidable, UnderwayInv
<1>6. CASE Crash
  BY <1>6 DEF Crash
<1>7. ASSUME UNCHANGED <<status, bound, agreed, run>> PROVE BoundInv'
  BY <1>7
<1> QED
  BY <1>1, <1>2, <1>4, <1>5, <1>6, <1>7
  DEF Next, StageFinish, FileChanges, vars, approvalVars

\* Without rebinds, only the agreed file goes out, with the agreed bytes.
LEMMA BytesStep ==
  ASSUME Rebinds = {}, ApprovalInv, BoundInv, ApprovedBytesOnly, [Next]_vars
  PROVE  ApprovedBytesOnly'
<1> TypeOK /\ RunType /\ CloudType
  BY TypeParts DEF ApprovalInv
<1> USE DEF ApprovedBytesOnly, InCloud, CloudType
<1>1. (\E k \in Approves : InCloud(k)) => agreed' = agreed
  BY DecisionStep DEF ApprovalInv, NothingLeavesUnapproved
<1>2. ASSUME NEW k \in Approves, NEW held, Stored(k, held), agreed' = agreed,
             run[k].pc \in {"creating", "uploading"}
      PROVE  ApprovedBytesOnly'
  BY <1>2 DEF Stored, BoundInv, Underway
<1>3. CASE UNCHANGED cloud
  BY <1>1, <1>3
<1>4. ASSUME NEW k \in Approves, Upload(k), cloud' # cloud PROVE ApprovedBytesOnly'
  <2>1. PICK held : Stored(k, held) /\ run[k].pc \in {"creating", "uploading"}
                    /\ agreed' = agreed
    BY <1>4 DEF Upload, Notified, Hashed, HashRefused, Created, Uploaded, Announced, Failed,
                At, approvalVars
  <2> QED
    BY <1>2, <2>1
<1> QED
  BY <1>3, <1>4
  DEF Next, Approve, Decline, RebindStart, RebindFinish, StageFinish, FileChanges,
      Crash, vars

\* What leaves is the approved file with the approved bytes, for every approval
\* that is not rebound after it was created.
THEOREM ApprovedBytes ==
  ASSUME Rebinds = {}
  PROVE  Spec => []ApprovedBytesOnly
<1> DEFINE Inv == BoundInv /\ ApprovedBytesOnly
<1>1. Init => Inv
  BY ApprovalConstants
  DEF Init, Unbound, Idle, NoTransfer, BoundInv, Underway, ApprovedBytesOnly, InCloud
<1>2. ApprovalInv /\ Inv /\ [Next]_vars => Inv'
  BY BoundStep, BytesStep
<1>3. Inv => ApprovedBytesOnly
  OBVIOUS
<1> HIDE DEF Inv
<1> QED
  BY Invariance, <1>1, <1>2, <1>3, PTL DEF Spec

-----------------------------------------------------------------------------
(* Approving calls that do not overlap *)

OneCallAtATime ==
  \A j, k \in Approves : run[j].pc \in Underway /\ run[k].pc \in Underway => j = k

\* A call that uploads has a transfer, which stays its own.
HeldInv == \A k \in Approves : run[k].pc \in {"uploading", "announcing"} => InCloud(k)

\* The one transfer there is keeps the job from being scheduled again, while it is
\* uploaded and when it is completed, and nobody else is under way.
SoleInv ==
  \A k \in Approves : InCloud(k) =>
    /\ run[k].pc \in {"uploading", "announcing", "done"}
    /\ job.status = IF run[k].pc = "done" THEN "completed" ELSE "uploading"
    /\ \A j \in Approves : InCloud(j) \/ run[j].pc \in Underway => j = k

LEMMA HeldStep == ApprovalInv /\ HeldInv /\ [Next]_vars => HeldInv'
<1> SUFFICES ASSUME ApprovalInv, HeldInv, [Next]_vars PROVE HeldInv'
  OBVIOUS
<1> TypeOK /\ RunType /\ CloudType
  BY TypeParts DEF ApprovalInv
<1> USE DEF RunType, CloudType, HeldInv, InCloud
<1>1. ASSUME NEW k \in Approves, Approve(k) PROVE HeldInv'
  BY <1>1 DEF Approve, Schedule
<1>2. ASSUME NEW k \in Approves, UNCHANGED cloud,
             run'[k].pc \notin {"uploading", "announcing"},
             \A j \in Approves \ {k} : run'[j] = run[j]
      PROVE  HeldInv'
  BY <1>2
<1>3. ASSUME NEW k \in Approves, NEW pc, Goto(k, pc), NEW held \in {"created", "uploaded"},
             Stored(k, held)
      PROVE  HeldInv'
  BY <1>3 DEF Goto, Stored
<1>4. ASSUME NEW k \in Approves, Upload(k) PROVE HeldInv'
  <2>1. CASE Notified(k) \/ Hashed(k) \/ HashRefused(k) \/ Announced(k)
    <3>1. /\ cloud' = cloud /\ run'[k].pc \in {"hashing", "creating", "done"}
          /\ \A j \in Approves \ {k} : run'[j] = run[j]
      BY <2>1 DEF Notified, Hashed, HashRefused, Announced, Goto
    <3> QED
      BY <1>2, <3>1
  <2>2. CASE Created(k) \/ Uploaded(k)
    BY <1>3, <2>2 DEF Created, Uploaded
  <2>3. CASE Failed(k)
    <3>1. /\ run'[k].pc = "done"
          /\ \A j \in Approves \ {k} : run'[j] = run[j]
          /\ \A j \in Approves \ {k} : cloud'[j] = cloud[j]
      BY <2>3 DEF Failed, Goto, Stored
    <3> QED
      BY <3>1
  <2> QED
    BY <1>4, <2>1, <2>2, <2>3 DEF Upload
<1>5. CASE Crash
  BY <1>5 DEF Crash
<1>6. CASE UNCHANGED <<run, cloud>>
  BY <1>6
<1> QED
  BY <1>1, <1>4, <1>5, <1>6
  DEF Next, Decline, RebindStart, RebindFinish, StageFinish, FileChanges, vars

\* A step of a call that makes no transfer and leaves the job's row to a transfer
\* that there is.
LEMMA SoleStays ==
  ASSUME SoleInv, UNCHANGED cloud,
         \A k \in Approves : InCloud(k) =>
           /\ run'[k].pc \in {"uploading", "announcing", "done"}
           /\ job'.status = IF run'[k].pc = "done" THEN "completed" ELSE "uploading",
         \A j \in Approves : run'[j].pc \in Underway =>
           run[j].pc \in Underway \/ \A k \in Approves : ~InCloud(k)
  PROVE  SoleInv'
BY DEF SoleInv, InCloud

LEMMA SoleStep ==
  ASSUME ~CallsFail, ~MayCrash, ApprovalInv, HeldInv, SoleInv,
         OneCallAtATime, OneCallAtATime', [Next]_vars
  PROVE  SoleInv'
<1> TypeOK /\ RunType /\ CloudType /\ JobType
  BY TypeParts DEF ApprovalInv
<1> USE DEF RunType, CloudType, JobType
<1>0. ASSUME UNCHANGED <<run, job, cloud>> PROVE SoleInv'
  BY <1>0 DEF SoleInv, InCloud
<1>1. ASSUME NEW k \in Approves, Approve(k) PROVE SoleInv'
  <2>1. run[k].pc = "idle" /\ UNCHANGED cloud /\ Schedule(k, status')
    BY <1>1 DEF Approve
  <2>2. ~InCloud(k)
    BY <2>1 DEF SoleInv
  <2>3. \A j \in Approves \ {k} : run'[j] = run[j]
    BY <2>1 DEF Schedule
  <2>4. CASE Due(status')
    <3>1. \A j \in Approves : ~InCloud(j)
      BY <2>4 DEF Due, SoleInv
    <3> QED
      BY <2>1, <3>1 DEF SoleInv, InCloud
  <2>5. CASE ~Due(status')
    <3>1. run'[k].pc = "done" /\ job' = job
      BY <2>1, <2>5 DEF Schedule
    <3>2. \A j \in Approves : InCloud(j) => run'[j] = run[j]
      BY <2>2, <2>3
    <3>3. \A j \in Approves : run'[j].pc \in Underway => run[j].pc \in Underway
      BY <2>3, <3>1 DEF Underway
    <3>4. \A j \in Approves : InCloud(j) =>
            /\ run'[j].pc \in {"uploading", "announcing", "done"}
            /\ job'.status = IF run'[j].pc = "done" THEN "completed" ELSE "uploading"
      BY <3>1, <3>2 DEF SoleInv
    <3> QED
      BY <2>1, <3>3, <3>4, SoleStays
  <2> QED
    BY <2>4, <2>5
<1>2. ASSUME NEW k \in Approves, Notified(k) \/ Hashed(k) \/ HashRefused(k) PROVE SoleInv'
  <2>1. run[k].pc \in {"notifying", "hashing"} /\ UNCHANGED cloud
    BY <1>2 DEF Notified, Hashed, HashRefused, At
  <2>2. \A j \in Approves : ~InCloud(j)
    BY <2>1 DEF SoleInv, Underway
  <2> QED
    BY <2>1, <2>2 DEF SoleInv, InCloud
<1>3. ASSUME NEW k \in Approves, Created(k) PROVE SoleInv'
  <2>1. run[k].pc = "creating" /\ run'[k].pc = "uploading" /\ job'.status = "uploading"
    BY <1>3 DEF Created, At, Goto
  <2>2. \A j \in Approves : ~InCloud(j)
    BY <2>1 DEF SoleInv, Underway
  <2>3. \A j \in Approves : InCloud(j)' => j = k
    BY <1>3, <2>2 DEF Created, Stored, InCloud
  <2>4. \A j \in Approves : run'[j].pc \in Underway => j = k
    BY <2>1 DEF OneCallAtATime, Underway
  <2> QED
    BY <2>1, <2>3, <2>4 DEF SoleInv
<1>4. ASSUME NEW k \in Approves, Uploaded(k) PROVE SoleInv'
  <2>1. /\ run[k].pc = "uploading" /\ run'[k].pc = "announcing" /\ job' = job
        /\ \A j \in Approves \ {k} : run'[j] = run[j] /\ cloud'[j] = cloud[j]
    BY <1>4 DEF Uploaded, At, Goto, Stored
  <2>2. \A j \in Approves : InCloud(j) => j = k
    BY <2>1 DEF HeldInv, SoleInv
  <2>3. \A j \in Approves : InCloud(j)' => j = k
    BY <2>1, <2>2 DEF InCloud
  <2>4. \A j \in Approves : run'[j].pc \in Underway => j = k
    BY <2>1 DEF OneCallAtATime, Underway
  <2>5. job.status = "uploading"
    BY <2>1 DEF HeldInv, SoleInv
  <2> QED
    BY <2>1, <2>3, <2>4, <2>5 DEF SoleInv
<1>5. ASSUME NEW k \in Approves, Announced(k) PROVE SoleInv'
  <2>1. /\ run[k].pc = "announcing" /\ run'[k].pc = "done" /\ job'.status = "completed"
        /\ cloud' = cloud
    BY <1>5 DEF Announced, At, Goto
  <2>2. \A j \in Approves : InCloud(j) => j = k
    BY <2>1 DEF HeldInv, SoleInv
  <2>3. \A j \in Approves : run'[j].pc \notin Underway
    <3>1. \A j \in Approves \ {k} : run'[j] = run[j] /\ run[j].pc \notin Underway
      BY <1>5, <2>1 DEF Announced, Goto, OneCallAtATime, Underway
    <3> QED
      BY <2>1, <3>1 DEF Underway
  <2> QED
    BY <2>1, <2>2, <2>3 DEF SoleInv, InCloud
<1> QED
  BY <1>0, <1>1, <1>2, <1>3, <1>4, <1>5
  DEF Next, Upload, Failed, Decline, RebindStart, RebindFinish, StageFinish, FileChanges,
      Crash, vars, approvalVars

\* Approvals that are answered one after another, each sent again as often as the user
\* likes, make one transfer: a second one takes an overlap, a failed call or a restart.
THEOREM OneTransferAlone ==
  ASSUME ~CallsFail, ~MayCrash
  PROVE  Spec /\ []OneCallAtATime => []AtMostOneTransfer
<1>1. Init => HeldInv /\ SoleInv
  BY DEF Init, Idle, NoTransfer, HeldInv, SoleInv, InCloud
<1>2. ApprovalInv /\ HeldInv /\ SoleInv /\ OneCallAtATime /\ OneCallAtATime' /\ [Next]_vars
        => HeldInv' /\ SoleInv'
  BY HeldStep, SoleStep
<1>3. SoleInv => AtMostOneTransfer
  <2> DEFINE Made == {k \in Approves : InCloud(k)}
  <2>1. CASE Made = {}
    BY <2>1, FS_EmptySet DEF AtMostOneTransfer
  <2>2. ASSUME SoleInv, Made # {} PROVE AtMostOneTransfer
    <3>1. PICK k \in Approves : InCloud(k)
      BY <2>2
    <3>2. Made = {k}
      BY <2>2, <3>1 DEF SoleInv
    <3> QED
      BY <3>2, FS_Singleton DEF AtMostOneTransfer
  <2> QED
    BY <2>1, <2>2
<1> QED
  BY <1>1, <1>2, <1>3, Invariance, PTL DEF Spec
=============================================================================
