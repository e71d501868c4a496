------------------------ MODULE TimedServicesProofs -------------------------
(***************************************************************************)
(* Theorems about the services a timer drives: FileTransfer, for any sets  *)
(* of transfers and of sweeps that may overlap; Presence, for any number   *)
(* of heartbeats and any thresholds; and that the composition the run      *)
(* TimedServices checks has what is proved of each.                        *)
(***************************************************************************)
EXTENDS MCTimedServices, AgentRunProofs

-----------------------------------------------------------------------------
(* Transfers *)

\* A sweep works on overdue transfers only, although it never looks again.
SweepInv ==
  \A s \in Sweeps, t \in Transfers :
    t \in sweep[s].todo \/ t = sweep[s].deleted => late[t]

\* A file that was written stays until its deadline, committed or not.
WrittenInv == \A t \in Transfers : upload[t] = "written" /\ ~late[t] => file[t]

TransferInv == TypeOK /\ SweepInv /\ WrittenInv /\ NoDanglingTransfer

-----------------------------------------------------------------------------

\* Nothing is stored or under way in the empty table.
LEMMA TransferInitInv == Init => TransferInv
<1> SUFFICES ASSUME Init PROVE TransferInv
  OBVIOUS
<1> USE TransferConstants DEF Init, NotSweeping
<1>1. TypeOK
  BY DEF TypeOK, TransferStatus
<1>2. SweepInv
  BY DEF SweepInv
<1>3. WrittenInv
  BY DEF WrittenInv
<1>4. NoDanglingTransfer
  BY DEF NoDanglingTransfer
<1> QED
  BY <1>1, <1>2, <1>3, <1>4 DEF TransferInv

\* Every step keeps the types, and the row of an upload under way 'initialized':
\* whoever else updates a row waits for the upload that holds it.
LEMMA TransferTypeStep == TypeOK /\ [Next]_vars => TypeOK'
<1> SUFFICES ASSUME TypeOK, [Next]_vars PROVE TypeOK'
  OBVIOUS
<1> USE TransferConstants DEF TypeOK, TransferStatus, Unlocked, NotSweeping
<1>1. ASSUME NEW t \in Transfers, InitTransfer(t) PROVE TypeOK'
  BY <1>1 DEF InitTransfer
<1>2. ASSUME NEW t \in Transfers, Upload(t) PROVE TypeOK'
  <2>1. CASE UploadClaim(t)
    BY <2>1 DEF UploadClaim
  <2>2. CASE UploadWrite(t)
    BY <2>2 DEF UploadWrite
  <2>3. CASE UploadCommit(t)
    BY <2>3 DEF UploadCommit
  <2>4. CASE UploadRollback(t)
    BY <2>4 DEF UploadRollback
  <2> QED
    BY <1>2, <2>1, <2>2, <2>3, <2>4 DEF Upload
<1>3. ASSUME NEW t \in Transfers, Download(t) PROVE TypeOK'
  <2>1. CASE DownloadRead(t)
    BY <2>1 DEF DownloadRead
  <2>2. CASE DownloadDecrypt(t)
    BY <2>2 DEF DownloadDecrypt
  <2>3. CASE DownloadMark(t)
    BY <2>3 DEF DownloadMark
  <2> QED
    BY <1>3, <2>1, <2>2, <2>3 DEF Download
<1>4. ASSUME NEW t \in Transfers, Receipt(t) PROVE TypeOK'
  BY <1>4 DEF Receipt
<1>5. ASSUME NEW t \in Transfers, TtlElapses(t) PROVE TypeOK'
  BY <1>5 DEF TtlElapses
<1>6. ASSUME NEW s \in Sweeps, Sweep(s) PROVE TypeOK'
  <2>1. CASE SweepSelect(s)
    BY <2>1 DEF SweepSelect
  <2>2. ASSUME NEW t \in Transfers, SweepDelete(s, t) PROVE TypeOK'
    BY <2>2 DEF SweepDelete
  <2>3. CASE SweepExpire(s)
    BY <2>3 DEF SweepExpire
  <2> QED
    BY <1>6, <2>1, <2>2, <2>3 DEF Sweep
<1>7. CASE Crash
  BY <1>7 DEF Crash
<1>8. CASE UNCHANGED vars
  BY <1>8 DEF vars
<1> QED
  BY <1>1, <1>2, <1>3, <1>4, <1>5, <1>6, <1>7, <1>8 DEF Next, Running

\* A deadline that has passed stays so.
LEMMA LateStep == TypeOK /\ [Next]_vars => \A t \in Transfers : late[t] => late'[t]
  BY DEF Next, Running, Upload, Download, Sweep, vars, TypeOK,
         InitTransfer, UploadClaim, UploadWrite, UploadCommit, UploadRollback,
         DownloadRead, DownloadDecrypt, DownloadMark, Receipt,
         SweepSelect, SweepDelete, SweepExpire, TtlElapses, Crash

\* A sweep only ever takes up what is overdue.
LEMMA SweepStep == TransferInv /\ [Next]_vars => SweepInv'
<1> SUFFICES ASSUME TransferInv, [Next]_vars PROVE SweepInv'
  OBVIOUS
<1> USE TransferConstants DEF TransferInv, SweepInv
<1>1. \A t \in Transfers : late[t] => late'[t]
  BY LateStep
<1>2. ASSUME UNCHANGED sweep PROVE SweepInv'
  BY <1>1, <1>2
<1>3. ASSUME NEW s \in Sweeps, SweepSelect(s) PROVE SweepInv'
  BY <1>1, <1>3 DEF SweepSelect, Sweepable, NotSweeping, TypeOK
<1>4. ASSUME NEW s \in Sweeps, NEW t \in Transfers, SweepDelete(s, t) PROVE SweepInv'
  BY <1>1, <1>4 DEF SweepDelete, TypeOK
<1>5. ASSUME NEW s \in Sweeps, SweepExpire(s) PROVE SweepInv'
  BY <1>1, <1>5 DEF SweepExpire, TypeOK
<1>6. CASE Crash
  BY <1>6 DEF Crash, NotSweeping
<1> QED
  BY <1>2, <1>3, <1>4, <1>5, <1>6
  DEF Next, Running, Upload, Download, Sweep, vars,
      InitTransfer, UploadClaim, UploadWrite, UploadCommit, UploadRollback,
      DownloadRead, DownloadDecrypt, DownloadMark, Receipt, TtlElapses

\* A file only goes when a sweep deletes it, and then its transfer is overdue.
LEMMA FileStep ==
  TransferInv /\ [Next]_vars => \A t \in Transfers : file[t] => file'[t] \/ late'[t]
<1> SUFFICES ASSUME TransferInv, [Next]_vars
             PROVE  \A t \in Transfers : file[t] => file'[t] \/ late'[t]
  OBVIOUS
<1> USE DEF TransferInv
<1>1. \A t \in Transfers : late[t] => late'[t]
  BY LateStep
<1>2. ASSUME NEW t \in Transfers, UploadWrite(t)
      PROVE  \A u \in Transfers : file[u] => file'[u] \/ late'[u]
  BY <1>2 DEF UploadWrite, TypeOK
<1>3. ASSUME NEW s \in Sweeps, NEW t \in Transfers, SweepDelete(s, t)
      PROVE  \A u \in Transfers : file[u] => file'[u] \/ late'[u]
  BY <1>1, <1>3 DEF SweepDelete, SweepInv, TypeOK
<1> QED
  BY <1>2, <1>3
  DEF Next, Running, Upload, Download, Sweep, vars,
      InitTransfer, UploadClaim, UploadCommit, UploadRollback,
      DownloadRead, DownloadDecrypt, DownloadMark, Receipt,
      SweepSelect, SweepExpire, TtlElapses, Crash

\* What an upload wrote is there, or overdue.
LEMMA WrittenStep == TransferInv /\ [Next]_vars => WrittenInv'
<1> SUFFICES ASSUME TransferInv, [Next]_vars,
                    NEW t \in Transfers, upload'[t] = "written", ~late'[t]
             PROVE  file'[t]
  BY DEF WrittenInv
<1> USE DEF TransferInv, TypeOK
<1>1. ~late[t] /\ (file[t] => file'[t])
  BY LateStep, FileStep
<1>2. CASE upload[t] = "written"
  BY <1>1, <1>2 DEF WrittenInv
<1>3. ASSUME upload[t] # "written" PROVE file'[t]
  <2>1. PICK u \in Transfers : UploadWrite(u)
    BY <1>3
    DEF Next, Running, Upload, Download, Sweep, vars,
        InitTransfer, UploadClaim, UploadCommit, UploadRollback,
        DownloadRead, DownloadDecrypt, DownloadMark, Receipt,
        SweepSelect, SweepDelete, SweepExpire, TtlElapses, Crash
  <2> QED
    BY <1>3, <2>1 DEF UploadWrite
<1> QED
  BY <1>2, <1>3

Downloadable == {"ready", "downloading", "completed"}

\* A transfer becomes downloadable by the commit of its upload and in no other
\* way; a mark or a receipt only moves it on.
LEMMA DownloadableStep ==
  ASSUME TypeOK, [Next]_vars, NEW t \in Transfers,
         status'[t] \in Downloadable, status[t] \notin Downloadable
  PROVE  upload[t] = "written"
<1> USE DEF TypeOK, Downloadable
<1>1. ASSUME NEW u \in Transfers, InitTransfer(u) PROVE FALSE
  BY <1>1 DEF InitTransfer
<1>2. ASSUME NEW u \in Transfers, UploadCommit(u) PROVE upload[t] = "written"
  BY <1>2 DEF UploadCommit
<1>3. ASSUME NEW u \in Transfers, DownloadMark(u) PROVE FALSE
  BY <1>3 DEF DownloadMark, MayMark
<1>4. ASSUME NEW u \in Transfers, Receipt(u) PROVE FALSE
  BY <1>4 DEF Receipt
<1>5. ASSUME NEW s \in Sweeps, SweepExpire(s) PROVE FALSE
  BY <1>5 DEF SweepExpire
<1> QED
  BY <1>1, <1>2, <1>3, <1>4, <1>5
  DEF Next, Running, Upload, Download, Sweep, vars,
      UploadClaim, UploadWrite, UploadRollback, DownloadRead, DownloadDecrypt,
      SweepSelect, SweepDelete, TtlElapses, Crash

\* Row and file stay together.
LEMMA DanglingStep == TransferInv /\ [Next]_vars => NoDanglingTransfer'
<1> SUFFICES ASSUME TransferInv, [Next]_vars, NEW t \in Transfers,
                    status'[t] \in Downloadable, ~late'[t]
             PROVE  file'[t]
  BY DEF NoDanglingTransfer, Downloadable
<1>1. ~late[t] /\ (file[t] => file'[t])
  BY LateStep, FileStep DEF TransferInv
<1>2. CASE status[t] \in Downloadable
  BY <1>1, <1>2 DEF TransferInv, NoDanglingTransfer, Downloadable
<1>3. CASE status[t] \notin Downloadable
  BY <1>1, <1>3, DownloadableStep DEF TransferInv, WrittenInv
<1> QED
  BY <1>2, <1>3

\* The inductive invariant holds throughout.
THEOREM TransferInvariance == Spec => []TransferInv
<1>1. TransferInv /\ [Next]_vars => TransferInv'
  BY TransferTypeStep, SweepStep, WrittenStep, DanglingStep DEF TransferInv
<1> QED
  BY TransferInitInv, <1>1, PTL DEF Spec

-----------------------------------------------------------------------------

\* Rows, files, uploads, downloads and sweeps keep their types.
THEOREM TransferTypeCorrect == Spec => []TypeOK
<1>1. TransferInv => TypeOK
  BY DEF TransferInv
<1> QED
  BY TransferInvariance, <1>1, PTL

\* A transfer that may be downloaded has its file until it expires.
THEOREM NoDangling == Spec => []NoDanglingTransfer
<1>1. TransferInv => NoDanglingTransfer
  BY DEF TransferInv
<1> QED
  BY TransferInvariance, <1>1, PTL

\* Nobody brings an expired transfer back.
THEOREM ExpiryFinality == Spec => ExpiredIsFinal
<1>1. TypeOK /\ [Next]_vars =>
        [\A t \in Transfers : status[t] = "expired" => status'[t] = "expired"]_status
  <2> SUFFICES ASSUME TypeOK, [Next]_vars, NEW t \in Transfers, status[t] = "expired"
               PROVE  status'[t] = "expired"
    OBVIOUS
  <2> USE DEF TypeOK
  <2>1. ASSUME NEW u \in Transfers, InitTransfer(u) PROVE status'[t] = "expired"
    BY <2>1 DEF InitTransfer
  <2>2. ASSUME NEW u \in Transfers, UploadCommit(u) PROVE status'[t] = "expired"
    BY <2>2 DEF UploadCommit
  <2>3. ASSUME NEW u \in Transfers, DownloadMark(u) PROVE status'[t] = "expired"
    BY <2>3 DEF DownloadMark, MayMark
  <2>4. ASSUME NEW u \in Transfers, Receipt(u) PROVE status'[t] = "expired"
    BY <2>4 DEF Receipt
  <2>5. ASSUME NEW s \in Sweeps, SweepExpire(s) PROVE status'[t] = "expired"
    BY <2>5 DEF SweepExpire
  <2> QED
    BY <2>1, <2>2, <2>3, <2>4, <2>5
    DEF Next, Running, Upload, Download, Sweep, vars,
        UploadClaim, UploadWrite, UploadRollback, DownloadRead, DownloadDecrypt,
        SweepSelect, SweepDelete, TtlElapses, Crash
<1> QED
  BY TransferTypeCorrect, <1>1, PTL DEF Spec, ExpiredIsFinal

\* A receipt is taken back by no sweep that had not chosen the transfer before.
THEOREM ReceiptsCount == Spec => ReceiptCounts
<1> DEFINE Free(t) == \A s \in Sweeps : t \notin sweep[s].todo \cup {sweep[s].deleted}
           Kept(t) == status'[t] = "completed" /\ \A s \in Sweeps : t \notin sweep'[s].todo
<1>1. ASSUME TypeOK, [Next]_vars, NEW t \in Transfers, status[t] = "completed", Free(t)
      PROVE  Kept(t)
  <2> USE <1>1 DEF TypeOK
  <2>1. ASSUME UNCHANGED <<status, sweep>> PROVE Kept(t)
    BY <2>1
  <2>2. ASSUME NEW u \in Transfers, InitTransfer(u) PROVE Kept(t)
    BY <2>2 DEF InitTransfer
  <2>3. ASSUME NEW u \in Transfers, UploadCommit(u) PROVE Kept(t)
    BY <2>3 DEF UploadCommit
  <2>4. ASSUME NEW u \in Transfers, DownloadMark(u) PROVE Kept(t)
    BY <2>4 DEF DownloadMark, MayMark
  <2>5. ASSUME NEW u \in Transfers, Receipt(u) PROVE Kept(t)
    BY <2>5 DEF Receipt
  <2>6. ASSUME NEW s \in Sweeps, SweepSelect(s) PROVE Kept(t)
    BY <2>6 DEF SweepSelect, Sweepable
  <2>7. ASSUME NEW s \in Sweeps, NEW u \in Transfers, SweepDelete(s, u) PROVE Kept(t)
    BY <2>7 DEF SweepDelete
  <2>8. ASSUME NEW s \in Sweeps, SweepExpire(s) PROVE Kept(t)
    BY <2>8 DEF SweepExpire
  <2>9. CASE Crash
    BY <2>9 DEF Crash, NotSweeping
  <2> HIDE DEF Kept, Free
  <2> QED
    BY <2>1, <2>2, <2>3, <2>4, <2>5, <2>6, <2>7, <2>8, <2>9
    DEF Next, Running, Upload, Download, Sweep, vars,
        UploadClaim, UploadWrite, UploadRollback, DownloadRead, DownloadDecrypt,
        TtlElapses
<1>2. TypeOK /\ [Next]_vars =>
        [\A t \in Transfers :
           /\ status[t] = "completed"
           /\ \A s \in Sweeps : t \notin sweep[s].todo \cup {sweep[s].deleted}
           => /\ status'[t] = "completed"
              /\ \A s \in Sweeps : t \notin sweep'[s].todo]_<<status, sweep>>
  BY <1>1
<1> HIDE DEF Free, Kept
<1> QED
  BY TransferTypeCorrect, <1>2, PTL DEF Spec, ReceiptCounts

-----------------------------------------------------------------------------
(* Presence *)

\* What a row says of its instance it has been silent for: no sweep marks over a
\* heartbeat that was written after the sweep took the time.
AgedAsSaid ==
  /\ presence.status = "stale" => presence.ago > OnlineFor
  /\ presence.status = "offline" => presence.ago > StaleFor

PresenceInv == PresenceTypeOK /\ AgedAsSaid

PresenceRow ==
  [status : {"none", "online", "stale", "offline", "revoked"}, ago : 0 .. OldAge]
HeartRow == [at : {"idle", "allowed", "timed"}, ago : 0 .. OldAge]

\* A time gets no younger, and stays within what is kept of it.
LEMMA OlderAge ==
  ASSUME NEW age \in 0 .. OldAge
  PROVE  Older(age) \in 0 .. OldAge /\ Older(age) >= age
BY PresenceConstants DEF Older, OldAge

LEMMA PresenceRows ==
  PresenceTypeOK <=>
    /\ instance \in {"none", "active", "disabled", "revoked"}
    /\ presence \in PresenceRow
    /\ heart \in [Hearts -> HeartRow]
    /\ marking \in [left : SUBSET {"online", "stale"}, ago : 0 .. SweepTakes]
BY DEF PresenceTypeOK, PresenceRow, HeartRow

\* A heartbeat moves on, or is over.
LEMMA HeartKeeps ==
  ASSUME PresenceInv, NEW h \in Hearts, HeartStep(h) PROVE PresenceInv'
<1>0. 0 \in 0 .. OldAge
  BY PresenceConstants DEF OldAge
<1>1. heart \in [Hearts -> HeartRow] /\ NoHeart \in HeartRow
  BY <1>0, PresenceRows DEF PresenceInv, NoHeart, HeartRow
<1>2. CASE HeartAllowed(h)
  <2>1. heart' \in [Hearts -> HeartRow]
    BY <1>1, <1>2 DEF HeartAllowed, HeartRow
  <2> QED
    BY <1>2, <2>1, PresenceRows DEF HeartAllowed, PresenceInv, PresenceTypeOK, AgedAsSaid, HeartRow
<1>3. CASE HeartTimed(h)
  <2>1. heart' \in [Hearts -> HeartRow]
    BY <1>0, <1>1, <1>3 DEF HeartTimed, HeartRow
  <2> QED
    BY <1>3, <2>1 DEF HeartTimed, PresenceInv, PresenceTypeOK, AgedAsSaid, HeartRow
<1>4. CASE HeartWrites(h)
  <2>1. heart' \in [Hearts -> HeartRow]
    BY <1>1, <1>4 DEF HeartWrites
  <2>2. presence' \in PresenceRow /\ presence'.status = "online"
    BY <1>1, <1>4 DEF HeartWrites, HeartRow, PresenceRow
  <2> QED
    BY <1>4, <2>1, <2>2 DEF HeartWrites, PresenceInv, PresenceTypeOK, AgedAsSaid, HeartRow,
                            PresenceRow
<1>5. CASE HeartFails(h)
  <2>1. heart' \in [Hearts -> HeartRow]
    BY <1>1, <1>5 DEF HeartFails
  <2> QED
    BY <1>5, <2>1 DEF HeartFails, PresenceInv, PresenceTypeOK, AgedAsSaid, HeartRow
<1> QED
  BY <1>2, <1>3, <1>4, <1>5 DEF HeartStep

\* The sweep marks what is older than its cutoff when it looks, which is older still
\* than the threshold.
LEMMA MarkKeeps ==
  ASSUME PresenceInv, MarkStep PROVE PresenceInv'
<1>0. OnlineFor \in Nat /\ StaleFor \in Nat /\ SweepTakes \in Nat /\ 0 \in 0 .. SweepTakes
  BY PresenceConstants
<1>t. /\ presence \in PresenceRow
      /\ marking \in [left : SUBSET {"online", "stale"}, ago : 0 .. SweepTakes]
  BY PresenceRows DEF PresenceInv
<1>1. CASE MarkStart
  BY <1>0, <1>1 DEF MarkStart, PresenceInv, PresenceTypeOK, AgedAsSaid
<1>2. ASSUME NEW was \in {"online", "stale"}, Mark(was) PROVE PresenceInv'
  <2>1. marking' \in [left : SUBSET {"online", "stale"}, ago : 0 .. SweepTakes]
    BY <1>0, <1>2, <1>t DEF Mark, NotMarking
  <2>2. CASE UNCHANGED presence
    BY <1>2, <2>1, <2>2 DEF Mark, PresenceInv, PresenceTypeOK, AgedAsSaid
  <2>3. CASE /\ presence.ago > AgedOut(was).limit + marking.ago
             /\ presence' = [presence EXCEPT !.status = AgedOut(was).to]
    <3>1. /\ presence' \in PresenceRow /\ presence'.ago = presence.ago
          /\ presence'.status = AgedOut(was).to
      BY <1>t, <2>3 DEF PresenceRow, AgedOut
    <3>2. presence.ago \in Nat /\ marking.ago \in Nat
      BY <1>0, <1>t, PresenceConstants DEF PresenceRow, OldAge
    <3>3. AgedAsSaid'
      BY <1>0, <2>3, <3>1, <3>2 DEF AgedAsSaid, AgedOut
    <3> QED
      BY <1>2, <2>1, <3>1, <3>3 DEF Mark, PresenceInv, PresenceTypeOK, PresenceRow
  <2> QED
    BY <1>2, <2>2, <2>3 DEF Mark
<1> QED
  BY <1>1, <1>2 DEF MarkStep

LEMMA TimeKeeps ==
  ASSUME PresenceInv, TimePasses PROVE PresenceInv'
<1>0. OnlineFor \in Nat /\ StaleFor \in Nat /\ SweepTakes \in Nat
  BY PresenceConstants
<1>t. /\ presence \in PresenceRow /\ heart \in [Hearts -> HeartRow]
      /\ marking \in [left : SUBSET {"online", "stale"}, ago : 0 .. SweepTakes]
  BY PresenceRows DEF PresenceInv
<1>1. presence' = [presence EXCEPT !.ago = Older(presence.ago)]
  BY DEF TimePasses
<1>2. presence.ago \in 0 .. OldAge /\ Older(presence.ago) \in 0 .. OldAge
      /\ Older(presence.ago) >= presence.ago
  BY <1>t, OlderAge DEF PresenceRow
<1>3. /\ presence' \in PresenceRow /\ presence'.status = presence.status
      /\ presence'.ago = Older(presence.ago)
  BY <1>1, <1>2, <1>t DEF PresenceRow
<1>4. AgedAsSaid'
  <2>1. presence.ago \in Nat /\ Older(presence.ago) \in Nat
    BY <1>0, <1>2 DEF OldAge
  <2> QED
    BY <1>0, <1>2, <1>3, <2>1 DEF PresenceInv, AgedAsSaid
<1>5. heart' \in [Hearts -> HeartRow]
  <2>1. ASSUME NEW h \in Hearts PROVE [heart[h] EXCEPT !.ago = Older(heart[h].ago)] \in HeartRow
    BY <1>t, OlderAge DEF HeartRow
  <2> QED
    BY <1>t, <2>1 DEF TimePasses
<1>6. marking' \in [left : SUBSET {"online", "stale"}, ago : 0 .. SweepTakes]
  BY <1>0, <1>t DEF TimePasses
<1> QED
  BY <1>3, <1>4, <1>5, <1>6 DEF TimePasses, PresenceInv, PresenceTypeOK, PresenceRow, HeartRow

\* The inductive invariant of the presence row, its heartbeats and its sweep.
THEOREM PresenceInvariance == PresenceSpec => []PresenceInv
<1>0. 0 \in 0 .. OldAge /\ 0 \in 0 .. SweepTakes
  BY PresenceConstants DEF OldAge
<1>1. PresenceInit => PresenceInv
  BY <1>0 DEF PresenceInit, PresenceInv, PresenceTypeOK, AgedAsSaid, NoHeart, NotMarking
<1>2. PresenceInv /\ [PresenceNext]_presenceVars => PresenceInv'
  <2> SUFFICES ASSUME PresenceInv, [PresenceNext]_presenceVars PROVE PresenceInv'
    OBVIOUS
  <2>1. CASE EnrollInstance
    BY <1>0, <2>1 DEF EnrollInstance, PresenceInv, PresenceTypeOK, AgedAsSaid
  <2>2. ASSUME NEW as \in {"disabled", "revoked"}, Disable(as) PROVE PresenceInv'
    BY <1>0, <2>2 DEF Disable, PresenceInv, PresenceTypeOK, AgedAsSaid
  <2>3. CASE UNCHANGED presenceVars
    BY <2>3 DEF presenceVars, PresenceInv, PresenceTypeOK, AgedAsSaid
  <2> QED
    BY <2>1, <2>2, <2>3, HeartKeeps, MarkKeeps, TimeKeeps DEF PresenceNext
<1> QED
  BY <1>1, <1>2, PTL DEF PresenceSpec

\* The instance, its row, its heartbeats and the sweep keep their types.
THEOREM PresenceTypeCorrect == PresenceSpec => []PresenceTypeOK
BY PresenceInvariance, PTL DEF PresenceInv

\* A row marked stale or offline has heard nothing for as long as the threshold says,
\* whatever heartbeats are written between the sweep's look at the clock and its two
\* statements.
THEOREM NeverMarkedTooSoon == PresenceSpec => []AgedAsSaid
BY PresenceInvariance, PTL DEF PresenceInv

UnderWay == {h \in Hearts : heart[h].at # "idle"}

\* While an instance is not active no heartbeat is let in, and whatever shows it
\* online again has used one up that was let in before.
DisabledGainsNothing ==
  [][instance # "active" /\ instance' # "active" =>
       /\ UnderWay' \subseteq UnderWay
       /\ presence.status # "online" /\ presence'.status = "online" =>
            UnderWay' # UnderWay]_presenceVars

\* The safety half of DisabledFadesOut: an instance the admin has disabled comes back
\* 'online' at most as often as it had requests past requireDeviceAuth.
THEOREM DisabledIsBounded == PresenceSpec => DisabledGainsNothing
<1> DEFINE Kept == /\ UnderWay' \subseteq UnderWay
                   /\ presence.status # "online" /\ presence'.status = "online" =>
                        UnderWay' # UnderWay
<1>1. ASSUME PresenceInv, PresenceNext, instance # "active", instance' # "active" PROVE Kept
  <2>0. /\ presence \in PresenceRow
        /\ heart \in [Hearts -> HeartRow]
    BY <1>1, PresenceRows DEF PresenceInv
  <2>1. CASE EnrollInstance
    BY <1>1, <2>1 DEF EnrollInstance
  <2>2. ASSUME NEW as \in {"disabled", "revoked"}, Disable(as) PROVE Kept
    BY <2>2 DEF Disable, UnderWay
  <2>3. ASSUME NEW h \in Hearts, HeartStep(h) PROVE Kept
    <3>1. ~HeartAllowed(h)
      BY <1>1 DEF HeartAllowed
    <3>2. CASE HeartTimed(h)
      BY <2>0, <3>2 DEF HeartTimed, UnderWay
    <3>3. CASE HeartWrites(h)
      <4>1. h \in UnderWay /\ UnderWay' = UnderWay \ {h}
        BY <2>0, <3>3 DEF HeartWrites, UnderWay, NoHeart
      <4> QED
        BY <4>1
    <3>4. CASE HeartFails(h)
      BY <2>0, <3>4 DEF HeartFails, UnderWay, NoHeart
    <3> QED
      BY <2>3, <3>1, <3>2, <3>3, <3>4 DEF HeartStep
  <2>4. CASE MarkStart
    BY <2>4 DEF MarkStart, UnderWay
  <2>5. ASSUME NEW was \in {"online", "stale"}, Mark(was) PROVE Kept
    <3>1. presence'.status \in {presence.status, "stale", "offline"}
      BY <2>0, <2>5 DEF Mark, AgedOut, PresenceRow
    <3> QED
      BY <2>5, <3>1 DEF Mark, UnderWay
  <2>6. CASE TimePasses
    <3>1. presence'.status = presence.status
      BY <2>0, <2>6 DEF TimePasses, PresenceRow
    <3>2. \A h \in Hearts : heart'[h].at = heart[h].at
      BY <2>0, <2>6 DEF TimePasses, HeartRow
    <3> QED
      BY <3>1, <3>2 DEF UnderWay
  <2> QED
    BY <1>1, <2>1, <2>2, <2>3, <2>4, <2>5, <2>6 DEF PresenceNext, MarkStep
<1>2. PresenceInv /\ [PresenceNext]_presenceVars =>
        [instance # "active" /\ instance' # "active" =>
           /\ UnderWay' \subseteq UnderWay
           /\ presence.status # "online" /\ presence'.status = "online" =>
                UnderWay' # UnderWay]_presenceVars
  BY <1>1
<1> QED
  BY <1>2, PresenceInvariance, PTL DEF PresenceSpec, DisabledGainsNothing

-----------------------------------------------------------------------------
(* The services in one run *)

\* The run TimedServices is of the three services as they are: what is proved of each
\* by itself holds of it.
THEOREM TimedIsEachService == TimedSpec => Spec /\ AgentSpec /\ PresenceSpec
<1>1. TimedInit => Init /\ AgentInit /\ PresenceInit
  BY DEF TimedInit
<1>2. [TimedNext]_timedVars =>
        [Next]_vars /\ [AgentNext]_agentVars /\ [PresenceNext]_presenceVars
  <2>1. TimedNext => [Next]_vars /\ [AgentNext]_agentVars /\ [PresenceNext]_presenceVars
    BY DEF TimedNext
  <2>2. UNCHANGED timedVars => UNCHANGED <<vars, agentVars, presenceVars>>
    BY DEF timedVars
  <2> QED
    BY <2>1, <2>2
<1> QED
  BY <1>1, <1>2, PTL DEF TimedSpec, Spec, AgentSpec, PresenceSpec

\* All three services keep their types together.
THEOREM TimedTypeCorrect == TimedSpec => []TimedTypeOK
BY TimedIsEachService, TransferTypeCorrect, AgentTypeCorrect, PresenceTypeCorrect, PTL
DEF TimedTypeOK

\* What the run checks of the services' safety holds of it for any constants.
THEOREM TimedSafety ==
  TimedSpec => /\ [](NoDanglingTransfer /\ OneOperationAtATime)
               /\ ExpiredIsFinal /\ ReceiptCounts /\ AnswerIsFinal
BY TimedIsEachService, NoDangling, OneAtATime, ExpiryFinality, ReceiptsCount, AnswersStand, PTL
=============================================================================
