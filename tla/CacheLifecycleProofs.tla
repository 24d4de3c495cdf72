------------------------ MODULE CacheLifecycleProofs ------------------------
(***************************************************************************)
(* The safety properties of CacheLifecycle for any number of downloads and *)
(* restores.  The inductive invariant says what the read/write lock, the   *)
(* lock of the restores, the NAS condition of the eviction and the saves   *)
(* from stale copies guarantee at every step.                              *)
(***************************************************************************)
EXTENDS CacheLifecycle, TLAPS

Types ==
  /\ row \in Rows /\ copy \in [Readers -> Rows] /\ known \in [Restorers -> Rows]
  /\ pc \in [Readers -> DownloadSteps] /\ step \in [Restorers -> RestoreSteps]
  /\ lock \in Restorers \cup {NoRestorer}
  /\ disk \in {"absent", "partial", "whole"}
  /\ failures \in Nat /\ expiries \in Nat /\ crashes \in Nat

(* The writer of the file is the restore that is copying, and it excludes   *)
(* every open stream of its process; such a stream keeps its file in place. *)
WriterExcludes ==
  /\ \A w \in Restorers : step[w] = "copying" <=> writing = w
  /\ writing # NoRestorer => writing \in Restorers
  /\ \A r \in Readers :
       ~split /\ pc[r] = "reading" => writing = NoRestorer /\ disk # "absent"

(* Until the NAS has the content nobody but the upload works on the file.   *)
QuietUntilSynced ==
  nas # "AVAILABLE" =>
    /\ disk = "whole" /\ ~queued /\ evictor = "idle"
    /\ \A r \in Readers : pc[r] = "idle"
    /\ \A w \in Restorers : step[w] = "idle"

(* While no lock has expired, the lock admits one restore, and what it read *)
(* of the disk before the copy is still so.                                 *)
RestoreExclusive ==
  expiries = 0 => \A w \in Restorers :
    /\ step[w] # "idle" => lock = w
    /\ step[w] \in {"absent", "open"} => disk = "absent"

PartialIsBeingWritten ==
  failures = 0 /\ crashes = 0 /\ disk = "partial" => writing # NoRestorer

(* No copy that is about to be saved says EVICTING.                         *)
NoEvictingCopy ==
  /\ row.status = "EVICTING" => row.lease = 0
  /\ \A r \in Readers : pc[r] \in {"hit", "leased", "releasing"} =>
       copy[r] # NoRow /\ copy[r].status # "EVICTING"
  /\ EvictingIsTransient

IndInv ==
  /\ Types
  /\ WriterExcludes
  /\ QuietUntilSynced
  /\ RestoreExclusive
  /\ PartialIsBeingWritten
  /\ NoEvictingCopy

(* The invariant holds after an upload.                                     *)
LEMMA InitInd == Init => IndInv
  BY CacheAssumption DEF CacheAssumption, Init, IndInv, Types, DownloadSteps,
     RestoreSteps, WriterExcludes, QuietUntilSynced, RestoreExclusive,
     PartialIsBeingWritten, NoEvictingCopy, EvictingIsTransient, Rows, NoRow

(* Types are kept: every saved row is a copy with a status, or a new row.   *)
LEMMA TypesStep ==
  ASSUME IndInv, Next
  PROVE  Types'
<1>. USE CacheAssumption DEF IndInv, CacheAssumption
<1>1. ASSUME NEW r \in Readers, ReadRow(r)
      PROVE  Types'
  BY <1>1 DEF Types, Rows, NoRow, DownloadSteps, RestoreSteps, ReadRow, Go,
      Keep, nasVars, restoreVars, boundVars
<1>2. ASSUME NEW r \in Readers, FixRow(r)
      PROVE  Types'
  BY <1>2 DEF Types, Rows, NoRow, DownloadSteps, RestoreSteps, FixRow, Go,
      Keep, CanSave, Available, MarkedMissing, Repaired, NewRows, nasVars,
      restoreVars, boundVars
<1>3. ASSUME NEW r \in Readers, AcquireLease(r)
      PROVE  Types'
  <2>1. copy[r] # NoRow /\ copy[r] \in Rows
    BY <1>3 DEF AcquireLease, Go, Types, NoEvictingCopy
  <2>2. [copy[r] EXCEPT !.lease = @ + 1] \in Rows
    BY <2>1 DEF Rows
  <2>. QED BY <1>3, <2>2 DEF Types, DownloadSteps, AcquireLease, Go, Keep,
         nasVars, restoreVars, boundVars
<1>4. ASSUME NEW r \in Readers, ReleaseCacheLease(r)
      PROVE  Types'
  <2>1. copy[r] # NoRow /\ copy[r] \in Rows
    BY <1>4 DEF ReleaseCacheLease, Go, Types, NoEvictingCopy
  <2>2. [copy[r] EXCEPT !.lease = Returned(@)] \in Rows
    BY <2>1 DEF Rows, Returned
  <2>3. NoRow \in Rows
    BY DEF Rows
  <2>. QED BY <1>4, <2>2, <2>3 DEF Types, DownloadSteps, ReleaseCacheLease, Go, Keep,
         nasVars, restoreVars, boundVars
<1>5. ASSUME NEW r \in Readers, ReadNas(r) \/ CheckFile(r) \/ SaveRefused(r)
            \/ OpenStream(r) \/ OpenFails(r) \/ AcquireNasLease(r) \/
            OpenNasStream(r) \/ WantRestore(r) \/ QueueRestore(r) \/
            CloseStream(r) \/ AbandonStream(r) \/ ReadCacheLease(r) \/
            ReadNasLease(r) \/ ReleaseNasLease(r)
      PROVE  Types'
  BY <1>5 DEF Types, Rows, NoRow, DownloadSteps, RestoreSteps, ReadNas, Go,
      KeepNas, CheckFile, Available, SaveRefused, Keep, CanSave, OpenStream,
      OpenFails, AcquireNasLease, OpenNasStream, WantRestore, QueueRestore,
      CloseStream, AbandonStream, ReadCacheLease, ReadNasLease,
      ReleaseNasLease, Returned, nasVars, restoreVars, boundVars
<1>6. ASSUME NEW w \in Restorers, ReadRecord(w)
      PROVE  Types'
  BY <1>6 DEF Types, Rows, NoRow, DownloadSteps, RestoreSteps, ReadRecord,
      Step, Finish, Available, Unlock, nasVars, readVars, boundVars
<1>7. ASSUME NEW w \in Restorers, MarkMissing(w)
      PROVE  Types'
  BY <1>7 DEF Types, Rows, NoRow, DownloadSteps, RestoreSteps, MarkMissing,
      Finish, CanSave, MarkedMissing, Step, Unlock, nasVars, readVars,
      boundVars
<1>8. ASSUME NEW w \in Restorers, SaveRecord(w)
      PROVE  Types'
  <2>1. row' \in Rows
    <3>1. CASE row' \in Repaired(known[w])
      <4>1. known[w] \in Rows
        BY DEF Types
      <4>2. CASE known[w] = NoRow
        BY <3>1, <4>2 DEF Repaired, NewRows, Rows
      <4>3. CASE known[w] # NoRow
        BY <3>1, <4>1, <4>3 DEF Repaired, Rows
      <4>. QED BY <4>2, <4>3
    <3>2. CASE UNCHANGED row
      BY <3>2 DEF Types
    <3>. QED BY <1>8, <3>1, <3>2 DEF SaveRecord
  <2>. QED BY <1>8, <2>1 DEF Types, RestoreSteps, Rows, NoRow, SaveRecord, Finish,
         Step, Unlock, nasVars, readVars, boundVars
<1>9. ASSUME NEW w \in Restorers, BeginRestore(w) \/ CheckCacheFile(w) \/
            OpenCopy(w) \/ OpenCopyFails(w) \/ EndCopy(w) \/ CopyFails(w) \/
            CheckPartial(w) \/ DeletePartial(w) \/ CheckSize(w) \/
            DeleteBadSize(w)
      PROVE  Types'
  BY <1>9 DEF Types, Rows, NoRow, DownloadSteps, RestoreSteps, BeginRestore,
      Step, CheckCacheFile, OpenCopy, WriteLockFree, OpenCopyFails, EndCopy,
      CopyFails, CheckPartial, DeletePartial, CheckSize, DeleteBadSize,
      nasVars, readVars, boundVars
<1>10. ASSUME MarkEvicting
      PROVE  Types'
  BY <1>10 DEF Types, Rows, NoRow, DownloadSteps, RestoreSteps, MarkEvicting,
      Available, nasVars, readVars, restoreVars, boundVars
<1>11. ASSUME FindCandidate \/ NothingToEvict \/ DeleteCacheFile \/
            DeleteCacheRow
      PROVE  Types'
  BY <1>11 DEF Types, Rows, NoRow, DownloadSteps, RestoreSteps, FindCandidate,
      Candidate, Available, NothingToEvict, DeleteCacheFile, WriteLockFree,
      DeleteCacheRow, nasVars, readVars, restoreVars, boundVars, vars
<1>12. ASSUME SyncToNas \/ GiveUpOnLock \/ ExpireLock \/ Crash
      PROVE  Types'
  BY <1>12 DEF Types, Rows, NoRow, DownloadSteps, RestoreSteps, SyncToNas,
      GiveUpOnLock, ExpireLock, Crash,
        DownloadsDie, JobsDie, readVars, restoreVars, boundVars,
      nasVars
<1>. QED BY <1>1, <1>2, <1>3, <1>4, <1>5, <1>6, <1>7, <1>8, <1>9, <1>10,
    <1>11, <1>12 DEF Next, Download, Restore, Evict

(* A copy starts only when no stream is open, and a stream opens only when  *)
(* nobody writes; files are unlinked only when neither is the case.         *)
LEMMA WriterExcludesStep ==
  ASSUME IndInv, Next
  PROVE  WriterExcludes'
<1>. USE CacheAssumption DEF IndInv, CacheAssumption
<1>0. split' = split
  BY DEF Next
<1>1. ASSUME NEW r \in Readers, OpenStream(r)
      PROVE  WriterExcludes'
  BY <1>0, <1>1 DEF WriterExcludes, Types, OpenStream, ReadLockFree, Go, Keep, KeepNas,
      nasVars, restoreVars, boundVars
<1>2. ASSUME NEW r \in Readers, ReadNas(r) \/ ReadRow(r) \/ CheckFile(r) \/
            FixRow(r) \/ SaveRefused(r) \/ AcquireLease(r) \/ OpenFails(r) \/
            AcquireNasLease(r) \/ OpenNasStream(r) \/ WantRestore(r) \/
            QueueRestore(r) \/ CloseStream(r) \/ AbandonStream(r) \/
            ReadCacheLease(r) \/ ReadNasLease(r) \/ ReleaseCacheLease(r) \/
            ReleaseNasLease(r)
      PROVE  WriterExcludes'
  BY <1>0, <1>2 DEF WriterExcludes, Types, ReadNas, Go, KeepNas, ReadRow, Keep,
      CheckFile, Available, FixRow, CanSave, MarkedMissing, Repaired, NewRows,
      SaveRefused, AcquireLease, OpenFails, AcquireNasLease, OpenNasStream,
      WantRestore, QueueRestore, CloseStream, AbandonStream, ReadCacheLease,
      ReadNasLease, ReleaseCacheLease, Returned, ReleaseNasLease, nasVars,
      restoreVars, boundVars
<1>3. ASSUME NEW w \in Restorers, OpenCopy(w)
      PROVE  WriterExcludes'
  BY <1>0, <1>3 DEF WriterExcludes, Types, OpenCopy, Step, WriteLockFree, nasVars,
      readVars, boundVars
<1>4. ASSUME NEW w \in Restorers, EndCopy(w)
      PROVE  WriterExcludes'
  BY <1>0, <1>4 DEF WriterExcludes, Types, EndCopy, Step, nasVars, readVars,
      boundVars
<1>5. ASSUME NEW w \in Restorers, CopyFails(w)
      PROVE  WriterExcludes'
  BY <1>0, <1>5 DEF WriterExcludes, Types, CopyFails, Step, nasVars, readVars
<1>6. ASSUME NEW w \in Restorers, DeletePartial(w)
      PROVE  WriterExcludes'
  BY <1>0, <1>6 DEF WriterExcludes, Types, DeletePartial, Step, WriteLockFree,
      nasVars, readVars, boundVars
<1>7. ASSUME NEW w \in Restorers, DeleteBadSize(w)
      PROVE  WriterExcludes'
  BY <1>0, <1>7 DEF WriterExcludes, Types, DeleteBadSize, Step, WriteLockFree,
      nasVars, readVars, boundVars
<1>8. ASSUME NEW w \in Restorers, BeginRestore(w) \/ CheckCacheFile(w) \/
            ReadRecord(w) \/ OpenCopyFails(w) \/ CheckPartial(w) \/
            MarkMissing(w) \/ CheckSize(w) \/ SaveRecord(w)
      PROVE  WriterExcludes'
  BY <1>0, <1>8 DEF WriterExcludes, Types, BeginRestore, Step, CheckCacheFile,
      ReadRecord, Finish, Available, Unlock, OpenCopyFails, WriteLockFree,
      CheckPartial, MarkMissing, CanSave, MarkedMissing, CheckSize,
      SaveRecord, Repaired, NewRows, nasVars, readVars, boundVars
<1>9. ASSUME DeleteCacheFile
      PROVE  WriterExcludes'
  BY <1>0, <1>9 DEF WriterExcludes, Types, DeleteCacheFile, WriteLockFree, nasVars,
      readVars, restoreVars, boundVars
<1>10. ASSUME FindCandidate \/ NothingToEvict \/ MarkEvicting \/
            DeleteCacheRow
      PROVE  WriterExcludes'
  BY <1>0, <1>10 DEF WriterExcludes, Types, FindCandidate, Candidate, Available,
      NothingToEvict, MarkEvicting, DeleteCacheRow, nasVars, readVars,
      restoreVars, boundVars, vars
<1>11. ASSUME Crash
      PROVE  WriterExcludes'
  BY <1>0, <1>11 DEF WriterExcludes, Types, Crash,
      DownloadsDie, JobsDie, nasVars, readVars, restoreVars
<1>12. ASSUME SyncToNas \/ GiveUpOnLock \/ ExpireLock
      PROVE  WriterExcludes'
  BY <1>0, <1>12 DEF WriterExcludes, Types, SyncToNas, GiveUpOnLock, ExpireLock,
      readVars, restoreVars, boundVars, nasVars
<1>. QED BY <1>1, <1>2, <1>3, <1>4, <1>5, <1>6, <1>7, <1>8, <1>9, <1>10,
    <1>11, <1>12 DEF Next, Download, Restore, Evict

(* Downloads, restores and evictions start only when the NAS is AVAILABLE.  *)
LEMMA QuietUntilSyncedStep ==
  ASSUME IndInv, Next
  PROVE  QuietUntilSynced'
<1>. USE CacheAssumption DEF IndInv, CacheAssumption
<1>1. ASSUME NEW r \in Readers, ReadNas(r)
      PROVE  QuietUntilSynced'
  BY <1>1 DEF QuietUntilSynced, ReadNas, Go, KeepNas, nasVars, restoreVars,
      boundVars
<1>2. ASSUME NEW r \in Readers, QueueRestore(r)
      PROVE  QuietUntilSynced'
  BY <1>2 DEF QuietUntilSynced, QueueRestore, Go, nasVars, boundVars
<1>3. ASSUME NEW r \in Readers, ReadRow(r) \/ CheckFile(r) \/ FixRow(r) \/
            SaveRefused(r) \/ AcquireLease(r) \/ OpenStream(r) \/ OpenFails(r)
            \/ AcquireNasLease(r) \/ OpenNasStream(r) \/ WantRestore(r) \/
            CloseStream(r) \/ AbandonStream(r) \/ ReadCacheLease(r) \/
            ReadNasLease(r) \/ ReleaseCacheLease(r) \/ ReleaseNasLease(r)
      PROVE  QuietUntilSynced'
  BY <1>3 DEF QuietUntilSynced, ReadRow, Go, Keep, CheckFile, Available,
      FixRow, CanSave, MarkedMissing, Repaired, NewRows, SaveRefused, KeepNas,
      AcquireLease, OpenStream, OpenFails, AcquireNasLease, OpenNasStream,
      WantRestore, CloseStream, AbandonStream, ReadCacheLease, ReadNasLease,
      ReleaseCacheLease, Returned, ReleaseNasLease, nasVars, restoreVars,
      boundVars
<1>4. ASSUME NEW w \in Restorers, BeginRestore(w)
      PROVE  QuietUntilSynced'
  BY <1>4 DEF QuietUntilSynced, BeginRestore, Step, nasVars, readVars,
      boundVars
<1>5. ASSUME NEW w \in Restorers, MarkMissing(w)
      PROVE  QuietUntilSynced'
  BY <1>5 DEF QuietUntilSynced, MarkMissing, Finish, CanSave, MarkedMissing,
      Step, Unlock, nasVars, readVars, boundVars
<1>6. ASSUME NEW w \in Restorers, SaveRecord(w)
      PROVE  QuietUntilSynced'
  BY <1>6 DEF QuietUntilSynced, SaveRecord, Finish, CanSave, Repaired,
      NewRows, Step, Unlock, nasVars, readVars, boundVars
<1>7. ASSUME NEW w \in Restorers, CheckCacheFile(w) \/ ReadRecord(w) \/
            OpenCopy(w) \/ OpenCopyFails(w) \/ EndCopy(w) \/ CopyFails(w) \/
            CheckPartial(w) \/ DeletePartial(w) \/ CheckSize(w) \/
            DeleteBadSize(w)
      PROVE  QuietUntilSynced'
  BY <1>7 DEF QuietUntilSynced, CheckCacheFile, Step, ReadRecord, Finish,
      Available, Unlock, OpenCopy, WriteLockFree, OpenCopyFails, EndCopy,
      CopyFails, CheckPartial, DeletePartial, CheckSize, DeleteBadSize,
      nasVars, readVars, boundVars
<1>8. ASSUME FindCandidate
      PROVE  QuietUntilSynced'
  BY <1>8 DEF QuietUntilSynced, FindCandidate, Candidate, Available, nasVars,
      readVars, restoreVars, boundVars
<1>9. ASSUME NothingToEvict \/ MarkEvicting \/ DeleteCacheFile \/
            DeleteCacheRow
      PROVE  QuietUntilSynced'
  BY <1>9 DEF QuietUntilSynced, NothingToEvict, Candidate, Available,
      MarkEvicting, DeleteCacheFile, WriteLockFree, DeleteCacheRow, vars,
      nasVars, readVars, restoreVars, boundVars
<1>10. ASSUME SyncToNas
      PROVE  QuietUntilSynced'
  BY <1>10 DEF QuietUntilSynced, SyncToNas, readVars, restoreVars, boundVars
<1>11. ASSUME Crash
      PROVE  QuietUntilSynced'
  BY <1>11 DEF QuietUntilSynced, Crash, DownloadsDie, JobsDie, nasVars,
      readVars, restoreVars
<1>12. ASSUME GiveUpOnLock \/ ExpireLock
      PROVE  QuietUntilSynced'
  BY <1>12 DEF QuietUntilSynced, GiveUpOnLock, ExpireLock, nasVars, readVars,
      boundVars
<1>. QED BY <1>1, <1>2, <1>3, <1>4, <1>5, <1>6, <1>7, <1>8, <1>9, <1>10,
    <1>11, <1>12 DEF Next, Download, Restore, Evict

(* A restore starts by taking the lock, and only it makes the file appear.  *)
LEMMA RestoreExclusiveStep ==
  ASSUME IndInv, Next
  PROVE  RestoreExclusive'
<1>. USE CacheAssumption DEF IndInv, CacheAssumption
<1>1. ASSUME NEW r \in Readers, ReadNas(r) \/ ReadRow(r) \/ CheckFile(r) \/
            FixRow(r) \/ SaveRefused(r) \/ AcquireLease(r) \/ OpenStream(r) \/
            OpenFails(r) \/ AcquireNasLease(r) \/ OpenNasStream(r) \/
            WantRestore(r) \/ QueueRestore(r) \/ CloseStream(r) \/
            AbandonStream(r) \/ ReadCacheLease(r) \/ ReadNasLease(r) \/
            ReleaseCacheLease(r) \/ ReleaseNasLease(r)
      PROVE  RestoreExclusive'
  BY <1>1 DEF RestoreExclusive, Types, ReadNas, Go, KeepNas, ReadRow, Keep,
      CheckFile, Available, FixRow, CanSave, MarkedMissing, Repaired, NewRows,
      SaveRefused, AcquireLease, OpenStream, OpenFails, AcquireNasLease,
      OpenNasStream, WantRestore, QueueRestore, CloseStream, AbandonStream,
      ReadCacheLease, ReadNasLease, ReleaseCacheLease, Returned,
      ReleaseNasLease, nasVars, restoreVars, boundVars
<1>2. ASSUME NEW w \in Restorers, BeginRestore(w)
      PROVE  RestoreExclusive'
  BY <1>2 DEF RestoreExclusive, Types, BeginRestore, Step, nasVars, readVars,
      boundVars
<1>3. ASSUME NEW w \in Restorers, CheckCacheFile(w)
      PROVE  RestoreExclusive'
  BY <1>3 DEF RestoreExclusive, Types, CheckCacheFile, Step, nasVars,
      readVars, boundVars
<1>4. ASSUME NEW w \in Restorers, ReadRecord(w)
      PROVE  RestoreExclusive'
  BY <1>4 DEF RestoreExclusive, Types, ReadRecord, Step, Finish, Available,
      Unlock, nasVars, readVars, boundVars
<1>5. ASSUME NEW w \in Restorers, OpenCopy(w)
      PROVE  RestoreExclusive'
  BY <1>5 DEF RestoreExclusive, Types, OpenCopy, Step, WriteLockFree, nasVars,
      readVars, boundVars
<1>6. ASSUME NEW w \in Restorers, EndCopy(w)
      PROVE  RestoreExclusive'
  BY <1>6 DEF RestoreExclusive, Types, EndCopy, Step, nasVars, readVars,
      boundVars
<1>7. ASSUME NEW w \in Restorers, MarkMissing(w)
      PROVE  RestoreExclusive'
  BY <1>7 DEF RestoreExclusive, Types, MarkMissing, Finish, CanSave,
      MarkedMissing, Step, Unlock, nasVars, readVars, boundVars
<1>8. ASSUME NEW w \in Restorers, SaveRecord(w)
      PROVE  RestoreExclusive'
  BY <1>8 DEF RestoreExclusive, Types, SaveRecord, Finish, CanSave, Repaired,
      NewRows, Step, Unlock, nasVars, readVars, boundVars
<1>9. ASSUME NEW w \in Restorers, OpenCopyFails(w) \/ CopyFails(w) \/
            CheckPartial(w) \/ DeletePartial(w) \/ CheckSize(w) \/
            DeleteBadSize(w)
      PROVE  RestoreExclusive'
  BY <1>9 DEF RestoreExclusive, Types, OpenCopyFails, Step, WriteLockFree,
      CopyFails, CheckPartial, DeletePartial, CheckSize, DeleteBadSize,
      nasVars, readVars, boundVars
<1>10. ASSUME FindCandidate \/ NothingToEvict \/ MarkEvicting \/
            DeleteCacheFile \/ DeleteCacheRow
      PROVE  RestoreExclusive'
  BY <1>10 DEF RestoreExclusive, Types, FindCandidate, Candidate, Available,
      NothingToEvict, MarkEvicting, DeleteCacheFile, WriteLockFree,
      DeleteCacheRow, nasVars, readVars, restoreVars, boundVars, vars
<1>11. ASSUME ExpireLock
      PROVE  RestoreExclusive'
  BY <1>11 DEF RestoreExclusive, Types, ExpireLock, nasVars, readVars
<1>12. ASSUME Crash
      PROVE  RestoreExclusive'
  BY <1>12 DEF RestoreExclusive, Types, Crash,
      DownloadsDie, JobsDie, nasVars, readVars, restoreVars
<1>13. ASSUME SyncToNas \/ GiveUpOnLock
      PROVE  RestoreExclusive'
  BY <1>13 DEF RestoreExclusive, Types, SyncToNas, GiveUpOnLock, readVars,
      restoreVars, boundVars, nasVars
<1>. QED BY <1>1, <1>2, <1>3, <1>4, <1>5, <1>6, <1>7, <1>8, <1>9, <1>10,
    <1>11, <1>12, <1>13 DEF Next, Download, Restore, Evict

(* A partial file is left behind only by a failure or a crash.              *)
LEMMA PartialIsBeingWrittenStep ==
  ASSUME IndInv, Next
  PROVE  PartialIsBeingWritten'
<1>. USE CacheAssumption DEF IndInv, CacheAssumption
<1>1. ASSUME NEW r \in Readers, ReadNas(r) \/ ReadRow(r) \/ CheckFile(r) \/
            FixRow(r) \/ SaveRefused(r) \/ AcquireLease(r) \/ OpenStream(r) \/
            OpenFails(r) \/ AcquireNasLease(r) \/ OpenNasStream(r) \/
            WantRestore(r) \/ QueueRestore(r) \/ CloseStream(r) \/
            AbandonStream(r) \/ ReadCacheLease(r) \/ ReadNasLease(r) \/
            ReleaseCacheLease(r) \/ ReleaseNasLease(r)
      PROVE  PartialIsBeingWritten'
  BY <1>1 DEF PartialIsBeingWritten, WriterExcludes, Types, ReadNas, Go,
      KeepNas, ReadRow, Keep, CheckFile, Available, FixRow, CanSave,
      MarkedMissing, Repaired, NewRows, SaveRefused, AcquireLease, OpenStream,
      OpenFails, AcquireNasLease, OpenNasStream, WantRestore, QueueRestore,
      CloseStream, AbandonStream, ReadCacheLease, ReadNasLease,
      ReleaseCacheLease, Returned, ReleaseNasLease, nasVars, restoreVars,
      boundVars
<1>2. ASSUME NEW w \in Restorers, OpenCopy(w)
      PROVE  PartialIsBeingWritten'
  BY <1>2 DEF PartialIsBeingWritten, WriterExcludes, Types, OpenCopy, Step,
      WriteLockFree, nasVars, readVars, boundVars
<1>3. ASSUME NEW w \in Restorers, OpenCopyFails(w)
      PROVE  PartialIsBeingWritten'
  BY <1>3 DEF PartialIsBeingWritten, WriterExcludes, Types, OpenCopyFails,
      Step, WriteLockFree, nasVars, readVars
<1>4. ASSUME NEW w \in Restorers, EndCopy(w)
      PROVE  PartialIsBeingWritten'
  BY <1>4 DEF PartialIsBeingWritten, WriterExcludes, Types, EndCopy, Step,
      nasVars, readVars, boundVars
<1>5. ASSUME NEW w \in Restorers, CopyFails(w)
      PROVE  PartialIsBeingWritten'
  BY <1>5 DEF PartialIsBeingWritten, WriterExcludes, Types, CopyFails, Step,
      nasVars, readVars
<1>6. ASSUME NEW w \in Restorers, BeginRestore(w) \/ CheckCacheFile(w) \/
            ReadRecord(w) \/ CheckPartial(w) \/ DeletePartial(w) \/
            MarkMissing(w) \/ DeleteBadSize(w) \/ SaveRecord(w)
      PROVE  PartialIsBeingWritten'
  BY <1>6 DEF PartialIsBeingWritten, WriterExcludes, Types, BeginRestore,
      Step, CheckCacheFile, ReadRecord, Finish, Available, Unlock,
      CheckPartial, DeletePartial, WriteLockFree, MarkMissing, CanSave,
      MarkedMissing, DeleteBadSize, SaveRecord, Repaired, NewRows,
      nasVars, readVars, boundVars
<1>7. ASSUME NEW w \in Restorers, CheckSize(w)
      PROVE  PartialIsBeingWritten'
  BY <1>7 DEF PartialIsBeingWritten, WriterExcludes, Types, CheckSize, Step,
      MoreTrouble, nasVars, readVars
<1>8. ASSUME FindCandidate \/ NothingToEvict \/ MarkEvicting \/
            DeleteCacheFile \/ DeleteCacheRow
      PROVE  PartialIsBeingWritten'
  BY <1>8 DEF PartialIsBeingWritten, WriterExcludes, Types, FindCandidate,
      Candidate, Available, NothingToEvict, MarkEvicting, DeleteCacheFile,
      WriteLockFree, DeleteCacheRow, nasVars, readVars, restoreVars,
      boundVars, vars
<1>9. ASSUME Crash
      PROVE  PartialIsBeingWritten'
  BY <1>9 DEF PartialIsBeingWritten, WriterExcludes, Types, Crash,
      DownloadsDie, JobsDie, nasVars, readVars, restoreVars
<1>10. ASSUME SyncToNas \/ GiveUpOnLock \/ ExpireLock
      PROVE  PartialIsBeingWritten'
  BY <1>10 DEF PartialIsBeingWritten, WriterExcludes, Types, SyncToNas,
      GiveUpOnLock, ExpireLock, readVars, restoreVars, boundVars, nasVars
<1>. QED BY <1>1, <1>2, <1>3, <1>4, <1>5, <1>6, <1>7, <1>8, <1>9, <1>10
    DEF Next, Download, Restore, Evict

(* Copies are repaired, or read with a lease, before they are saved.        *)
LEMMA NoEvictingCopyStep ==
  ASSUME IndInv, Next
  PROVE  NoEvictingCopy'
<1>. USE CacheAssumption DEF IndInv, CacheAssumption
<1>1. ASSUME NEW r \in Readers, CheckFile(r)
      PROVE  NoEvictingCopy'
  BY <1>1 DEF NoEvictingCopy, EvictingIsTransient, Types, Rows, NoRow,
      CheckFile, Go, Available, nasVars, restoreVars, boundVars
<1>2. ASSUME NEW r \in Readers, FixRow(r)
      PROVE  NoEvictingCopy'
  BY <1>2 DEF NoEvictingCopy, EvictingIsTransient, Types, Rows, NoRow, FixRow,
      Go, Keep, CanSave, Available, MarkedMissing, Repaired, NewRows, nasVars,
      restoreVars, boundVars
<1>3. ASSUME NEW r \in Readers, AcquireLease(r)
      PROVE  NoEvictingCopy'
  BY <1>3 DEF NoEvictingCopy, EvictingIsTransient, Types, Rows, NoRow,
      AcquireLease, Go, Keep, CanSave, nasVars, restoreVars, boundVars
<1>4. ASSUME NEW r \in Readers, OpenFails(r)
      PROVE  NoEvictingCopy'
  BY <1>4 DEF NoEvictingCopy, EvictingIsTransient, Types, Rows, NoRow,
      OpenFails, Go, nasVars, restoreVars, boundVars
<1>5. ASSUME NEW r \in Readers, ReadCacheLease(r)
      PROVE  NoEvictingCopy'
  BY <1>5 DEF NoEvictingCopy, EvictingIsTransient, Types, Rows, NoRow,
      ReadCacheLease, Go, Keep, nasVars, restoreVars, boundVars
<1>6. ASSUME NEW r \in Readers, ReleaseCacheLease(r)
      PROVE  NoEvictingCopy'
  BY <1>6 DEF NoEvictingCopy, EvictingIsTransient, Types, Rows, NoRow,
      ReleaseCacheLease, Go, Keep, KeepNas, CanSave, Returned, nasVars,
      restoreVars, boundVars
<1>7. ASSUME NEW r \in Readers, ReadNas(r) \/ ReadRow(r) \/ SaveRefused(r) \/
            OpenStream(r) \/ AcquireNasLease(r) \/ OpenNasStream(r) \/
            WantRestore(r) \/ QueueRestore(r) \/ CloseStream(r) \/
            AbandonStream(r) \/ ReadNasLease(r) \/ ReleaseNasLease(r)
      PROVE  NoEvictingCopy'
  BY <1>7 DEF NoEvictingCopy, EvictingIsTransient, Types, Rows, NoRow,
      ReadNas, Go, KeepNas, ReadRow, Keep, SaveRefused, CanSave, OpenStream,
      AcquireNasLease, OpenNasStream, WantRestore, QueueRestore, CloseStream,
      AbandonStream, ReadNasLease, ReleaseNasLease, Returned, nasVars,
      restoreVars, boundVars
<1>8. ASSUME NEW w \in Restorers, MarkMissing(w)
      PROVE  NoEvictingCopy'
  BY <1>8 DEF NoEvictingCopy, EvictingIsTransient, Types, Rows, NoRow,
      MarkMissing, Finish, CanSave, MarkedMissing, Step, Unlock, nasVars,
      readVars, boundVars
<1>9. ASSUME NEW w \in Restorers, SaveRecord(w)
      PROVE  NoEvictingCopy'
  BY <1>9 DEF NoEvictingCopy, EvictingIsTransient, Types, Rows, NoRow,
      SaveRecord, Finish, CanSave, Repaired, NewRows, Step, Unlock, nasVars,
      readVars, boundVars
<1>10. ASSUME NEW w \in Restorers, BeginRestore(w) \/ CheckCacheFile(w) \/
            ReadRecord(w) \/ OpenCopy(w) \/ OpenCopyFails(w) \/ EndCopy(w) \/
            CopyFails(w) \/ CheckPartial(w) \/ DeletePartial(w) \/
            CheckSize(w) \/ DeleteBadSize(w)
      PROVE  NoEvictingCopy'
  BY <1>10 DEF NoEvictingCopy, EvictingIsTransient, Types, Rows, NoRow,
      BeginRestore, Step, CheckCacheFile, ReadRecord, Finish, Available,
      Unlock, OpenCopy, WriteLockFree, OpenCopyFails, EndCopy, CopyFails,
      CheckPartial, DeletePartial, CheckSize, DeleteBadSize, nasVars,
      readVars, boundVars
<1>11. ASSUME MarkEvicting
      PROVE  NoEvictingCopy'
  BY <1>11 DEF NoEvictingCopy, EvictingIsTransient, Types, Rows, NoRow,
      MarkEvicting, Available, nasVars, readVars, restoreVars, boundVars
<1>12. ASSUME DeleteCacheFile
      PROVE  NoEvictingCopy'
  BY <1>12 DEF NoEvictingCopy, EvictingIsTransient, Types, Rows, NoRow,
      DeleteCacheFile, WriteLockFree, nasVars, readVars, restoreVars,
      boundVars
<1>13. ASSUME DeleteCacheRow
      PROVE  NoEvictingCopy'
  BY <1>13 DEF NoEvictingCopy, EvictingIsTransient, Types, Rows, NoRow,
      DeleteCacheRow, nasVars, readVars, restoreVars
<1>14. ASSUME FindCandidate \/ NothingToEvict
      PROVE  NoEvictingCopy'
  BY <1>14 DEF NoEvictingCopy, EvictingIsTransient, Types, Rows, NoRow,
      FindCandidate, Candidate, Available, NothingToEvict, nasVars, readVars,
      restoreVars, boundVars, vars
<1>15. ASSUME Crash
      PROVE  NoEvictingCopy'
  BY <1>15 DEF NoEvictingCopy, EvictingIsTransient, Types, Rows, NoRow, Crash,
      DownloadsDie, JobsDie, nasVars, readVars, restoreVars
<1>16. ASSUME SyncToNas \/ GiveUpOnLock \/ ExpireLock
      PROVE  NoEvictingCopy'
  BY <1>16 DEF NoEvictingCopy, EvictingIsTransient, Types, Rows, NoRow,
      SyncToNas, GiveUpOnLock, ExpireLock, readVars, restoreVars, boundVars,
      nasVars
<1>. QED BY <1>1, <1>2, <1>3, <1>4, <1>5, <1>6, <1>7, <1>8, <1>9, <1>10,
    <1>11, <1>12, <1>13, <1>14, <1>15, <1>16 DEF Next, Download, Restore,
    Evict

-----------------------------------------------------------------------------

(* The invariant holds in every reachable state.                            *)
THEOREM InductiveInvariant == Spec => []IndInv
<1>1. IndInv /\ UNCHANGED vars => IndInv'
  BY DEF vars, IndInv, Types, WriterExcludes, QuietUntilSynced, RestoreExclusive,
     PartialIsBeingWritten, NoEvictingCopy, EvictingIsTransient
<1>2. IndInv /\ Next => IndInv'
  BY TypesStep, WriterExcludesStep, QuietUntilSyncedStep, RestoreExclusiveStep,
     PartialIsBeingWrittenStep, NoEvictingCopyStep DEF IndInv
<1>. QED BY InitInd, <1>1, <1>2, PTL DEF Spec

(* Whatever is evicted, restored or interrupted, the NAS has the content or *)
(* the cached file is whole.                                                *)
THEOREM ContentIsKept == Spec => []ContentNeverLost
<1>1. IndInv => ContentNeverLost
  BY DEF IndInv, QuietUntilSynced, ContentNeverLost
<1>. QED BY InductiveInvariant, <1>1, PTL

(* Where jobs and downloads share a process, no download streams a partial  *)
(* file without a failed copy or a crash.                                   *)
THEOREM StreamsAreWhole == Spec => []NoPartialRead
<1>1. IndInv => NoPartialRead
  BY DEF IndInv, Types, WriterExcludes, PartialIsBeingWritten, NoPartialRead
<1>. QED BY InductiveInvariant, <1>1, PTL

(* A row says EVICTING only while it is being evicted, unless the eviction  *)
(* failed or died.                                                          *)
THEOREM EvictingEnds == Spec => []EvictingIsTransient
<1>1. IndInv => EvictingIsTransient
  BY DEF IndInv, NoEvictingCopy
<1>. QED BY InductiveInvariant, <1>1, PTL

(* Where jobs and downloads share a process, an open stream keeps its file: *)
(* nobody truncates, replaces or unlinks it, for any number of downloads    *)
(* and restores and however wrong rows and leases have become.              *)
THEOREM OpenFilesAreKept == Spec => StreamsUndisturbed
<1> DEFINE Undisturbed ==
      ~split => \A r \in Readers :
                  pc[r] = "reading" /\ pc'[r] = "reading" => disk' = disk
<1>1. IndInv /\ Next => Undisturbed
  <2> SUFFICES ASSUME IndInv, Next, ~split, NEW q \in Readers,
                      pc[q] = "reading", pc'[q] = "reading"
               PROVE  disk' = disk
    OBVIOUS
  <2>1. ~WriteLockFree /\ \A w \in Restorers : step[w] # "copying"
    BY CacheAssumption DEF CacheAssumption, WriteLockFree, IndInv, WriterExcludes
  <2>2. ASSUME NEW r \in Readers, Download(r) PROVE disk' = disk
    BY <2>2 DEF ReadNas, ReadRow, CheckFile, FixRow, SaveRefused,
        AcquireLease, OpenStream, OpenFails, AcquireNasLease, OpenNasStream,
        WantRestore, QueueRestore, CloseStream, AbandonStream, ReadCacheLease,
        ReadNasLease, ReleaseCacheLease, ReleaseNasLease, Download, nasVars,
        restoreVars, boundVars
  <2>3. ASSUME NEW w \in Restorers, Restore(w) PROVE disk' = disk
    BY <2>1, <2>3 DEF BeginRestore, CheckCacheFile, ReadRecord, OpenCopy,
        OpenCopyFails, EndCopy, CopyFails, CheckPartial, DeletePartial,
        MarkMissing, CheckSize, DeleteBadSize, SaveRecord, Restore, nasVars,
        readVars, boundVars, Step
  <2>4. CASE Evict
    BY <2>1, <2>4 DEF FindCandidate, NothingToEvict, MarkEvicting,
        DeleteCacheFile, DeleteCacheRow, Evict, nasVars, readVars,
        restoreVars, boundVars, vars
  <2>5. CASE SyncToNas \/ GiveUpOnLock \/ ExpireLock \/ Crash
    BY <2>5 DEF SyncToNas, GiveUpOnLock, ExpireLock, Crash,
        DownloadsDie, JobsDie, readVars,
        restoreVars, boundVars, nasVars
  <2>. QED BY <2>2, <2>3, <2>4, <2>5 DEF Next
<1>2. UNCHANGED vars => Undisturbed
  BY DEF vars
<1>. QED BY InductiveInvariant, <1>1, <1>2, PTL DEF Spec, StreamsUndisturbed

(* While no lock has expired, a whole cached file is not copied over again. *)
THEOREM WholeFileIsKept == Spec => WholeFileKept
<1> DEFINE Kept == disk = "whole" /\ disk' = "partial" => expiries > 0
<1>1. IndInv /\ Next => Kept
  <2> SUFFICES ASSUME IndInv, Next, disk = "whole", disk' = "partial"
               PROVE  expiries > 0
    OBVIOUS
  <2>1. ASSUME NEW r \in Readers, Download(r) PROVE FALSE
    BY <2>1 DEF ReadNas, ReadRow, CheckFile, FixRow, SaveRefused,
        AcquireLease, OpenStream, OpenFails, AcquireNasLease, OpenNasStream,
        WantRestore, QueueRestore, CloseStream, AbandonStream, ReadCacheLease,
        ReadNasLease, ReleaseCacheLease, ReleaseNasLease, Download, nasVars,
        restoreVars, boundVars
  <2>2. ASSUME NEW w \in Restorers, Restore(w) PROVE expiries > 0
    <3>1. OpenCopy(w)
      BY <2>2 DEF BeginRestore, CheckCacheFile, ReadRecord, OpenCopy,
        WriteLockFree, OpenCopyFails, EndCopy, CopyFails, CheckPartial,
        DeletePartial, MarkMissing, CheckSize, DeleteBadSize, SaveRecord,
        Restore, nasVars, readVars, boundVars
    <3>. QED BY <3>1 DEF OpenCopy, Step, IndInv, RestoreExclusive, Types
  <2>3. CASE Evict
    BY <2>3 DEF FindCandidate, NothingToEvict, MarkEvicting, DeleteCacheFile,
        WriteLockFree, DeleteCacheRow, Evict, nasVars, readVars, restoreVars,
        boundVars, vars
  <2>4. CASE SyncToNas \/ GiveUpOnLock \/ ExpireLock \/ Crash
    BY <2>4 DEF SyncToNas, GiveUpOnLock, ExpireLock, Crash,
        DownloadsDie, JobsDie, readVars,
        restoreVars, boundVars, nasVars
  <2>. QED BY <2>1, <2>2, <2>3, <2>4 DEF Next
<1>2. UNCHANGED vars => Kept
  BY DEF vars
<1>. QED BY InductiveInvariant, <1>1, <1>2, PTL DEF Spec, WholeFileKept

-----------------------------------------------------------------------------
(* The bounds: TypeOK says of every lease and every counted trouble that it *)
(* stays within its range.  A lease is read below MaxLease and saved one    *)
(* higher at most, however long the save comes after the read.              *)

Shape ==
  /\ split \in BOOLEAN
  /\ nas \in {"SYNCING", "AVAILABLE"} /\ queued \in BOOLEAN
  /\ evictor \in {"idle", "candidate", "marked", "deleted"}

(* A copy that is still to take a lease was read below the bound.           *)
LeasesBounded ==
  /\ nasLease \in 0..MaxLease /\ row.lease <= MaxLease
  /\ nasCopy \in [Readers -> 0..MaxLease]
  /\ \A r \in Readers : copy[r].lease <= MaxLease
  /\ \A w \in Restorers : known[w].lease <= MaxLease
  /\ \A r \in Readers :
       /\ pc[r] \in {"nasRead", "rowRead", "fix", "miss"} => nasCopy[r] < MaxLease
       /\ pc[r] \in {"rowRead", "fix", "hit"} => copy[r].lease < MaxLease

TroublesBounded ==
  abandoned \in Nat /\ failures + abandoned + expiries + crashes <= MaxTroubles

RangesInv == Shape /\ LeasesBounded /\ TroublesBounded

(* The ranges hold after an upload.                                         *)
LEMMA InitRanges == Init => RangesInv
<1>. SUFFICES ASSUME Init PROVE RangesInv
  OBVIOUS
<1>1. row.lease = 0 /\ NoRow.lease = 0
  BY DEF Init, NoRow
<1>2. LeasesBounded
  BY <1>1, CacheAssumption DEF CacheAssumption, Init, LeasesBounded
<1>3. Shape
  BY DEF Init, Shape
<1>4. failures = 0 /\ abandoned = 0 /\ expiries = 0 /\ crashes = 0
  BY DEF Init
<1>5. TroublesBounded
  BY <1>4, CacheAssumption DEF CacheAssumption, TroublesBounded
<1>. QED BY <1>2, <1>3, <1>5 DEF RangesInv

(* The words stay words: no step writes any other.                          *)
LEMMA ShapeStep ==
  ASSUME IndInv, Shape, Next
  PROVE  Shape'
<1>0. split' = split
  BY DEF Next
<1>1. ASSUME NEW r \in Readers, Download(r) PROVE Shape'
  BY <1>0, <1>1 DEF Shape, ReadNas, ReadRow, CheckFile, FixRow, SaveRefused,
      AcquireLease, OpenStream, OpenFails, AcquireNasLease, OpenNasStream,
      WantRestore, QueueRestore, CloseStream, AbandonStream, ReadCacheLease,
      ReadNasLease, ReleaseCacheLease, ReleaseNasLease, Download, nasVars,
      restoreVars, boundVars
<1>2. ASSUME NEW w \in Restorers, Restore(w) PROVE Shape'
  BY <1>0, <1>2 DEF Shape, BeginRestore, CheckCacheFile, ReadRecord, OpenCopy,
      OpenCopyFails, EndCopy, CopyFails, CheckPartial, DeletePartial,
      MarkMissing, CheckSize, DeleteBadSize, SaveRecord, Restore, nasVars,
      readVars, boundVars
<1>3. CASE Evict
  BY <1>0, <1>3 DEF Shape, FindCandidate, NothingToEvict, MarkEvicting,
      DeleteCacheFile, DeleteCacheRow, Evict, nasVars, restoreVars, vars
<1>4. CASE SyncToNas \/ GiveUpOnLock \/ ExpireLock \/ Crash
  BY <1>0, <1>4 DEF Shape, SyncToNas, GiveUpOnLock, ExpireLock, Crash,
      DownloadsDie, JobsDie, readVars, restoreVars,
      nasVars
<1>. QED BY <1>1, <1>2, <1>3, <1>4 DEF Next

(* A failed read or delete, an abandoned stream, an expired lock and a      *)
(* crash are each counted, below the bound; a crash closes what streams are *)
(* abandoned.                                                               *)
LEMMA TroublesStep ==
  ASSUME IndInv, TroublesBounded, Next
  PROVE  TroublesBounded'
<1>. USE CacheAssumption DEF CacheAssumption, MoreTrouble
<1>1. failures \in Nat /\ expiries \in Nat /\ crashes \in Nat /\ abandoned \in Nat
  BY DEF IndInv, Types, TroublesBounded
<1>2. ASSUME NEW r \in Readers, Download(r) PROVE TroublesBounded'
  BY <1>1, <1>2 DEF TroublesBounded, ReadNas, ReadRow, CheckFile, FixRow,
      SaveRefused, AcquireLease, OpenStream, OpenFails, AcquireNasLease,
      OpenNasStream, WantRestore, QueueRestore, CloseStream, AbandonStream,
      ReadCacheLease, ReadNasLease, ReleaseCacheLease, ReleaseNasLease,
      Download, boundVars
<1>3. ASSUME NEW w \in Restorers, Restore(w) PROVE TroublesBounded'
  <2>1. CASE OpenCopyFails(w) \/ CopyFails(w) \/ CheckSize(w)
    BY <1>1, <2>1 DEF TroublesBounded, OpenCopyFails, CopyFails, CheckSize, boundVars
  <2>2. CASE ~(OpenCopyFails(w) \/ CopyFails(w) \/ CheckSize(w))
    BY <1>3, <2>2 DEF TroublesBounded, BeginRestore, CheckCacheFile, ReadRecord,
        OpenCopy, EndCopy, CheckPartial, DeletePartial, MarkMissing,
        DeleteBadSize, SaveRecord, Restore, boundVars
  <2>. QED BY <2>1, <2>2
<1>4. CASE Evict
  BY <1>1, <1>4 DEF TroublesBounded, FindCandidate, NothingToEvict, MarkEvicting,
      DeleteCacheFile, DeleteCacheRow, Evict, boundVars, vars
<1>5. CASE SyncToNas \/ GiveUpOnLock \/ ExpireLock \/ Crash
  BY <1>1, <1>5 DEF TroublesBounded, SyncToNas, GiveUpOnLock, ExpireLock, Crash,
      DownloadsDie, JobsDie,
      boundVars
<1>. QED BY <1>2, <1>3, <1>4, <1>5 DEF Next

(* Lowering a lease keeps it in its range.                                  *)
LEMMA ReturnedInRange ==
  ASSUME NEW n \in 0..MaxLease
  PROVE  Returned(n) \in 0..MaxLease
  BY CacheAssumption DEF CacheAssumption, Returned

(* Leases: every copy is read within the bound, and below it when a lease   *)
(* is to be taken.                                                          *)
LEMMA LeasesStep ==
  ASSUME IndInv, LeasesBounded, Next
  PROVE  LeasesBounded'
<1>. USE CacheAssumption DEF CacheAssumption
<1>0. Types
  BY DEF IndInv
<1>1. ASSUME NEW r \in Readers, ReadNas(r) PROVE LeasesBounded'
  BY <1>0, <1>1 DEF Types, LeasesBounded, ReadNas, Go, KeepNas, nasVars, restoreVars
<1>2. ASSUME NEW r \in Readers, ReadRow(r) PROVE LeasesBounded'
  BY <1>0, <1>2 DEF Types, LeasesBounded, ReadRow, Go, Keep, nasVars, restoreVars
<1>3. ASSUME NEW r \in Readers, FixRow(r) PROVE LeasesBounded'
  <2>0. copy[r] \in Rows /\ pc[r] = "fix"
    BY <1>0, <1>3 DEF Types, FixRow, Go
  <2>1. copy[r].lease < MaxLease
    BY <1>3, <2>0 DEF LeasesBounded
  <2>2. ASSUME NEW c, c = MarkedMissing(copy[r]) \/ c \in Repaired(copy[r])
        PROVE  c.lease < MaxLease
    <3>1. CASE copy[r] = NoRow
      BY <2>1, <2>2, <3>1 DEF MarkedMissing, Repaired, NewRows, NoRow
    <3>2. CASE copy[r] # NoRow
      BY <2>0, <2>1, <2>2, <3>2 DEF MarkedMissing, Repaired, Rows
    <3>. QED BY <3>1, <3>2
  <2>3. row'.lease < MaxLease
    BY <1>3, <2>2 DEF FixRow
  <2>4. \/ copy' = [copy EXCEPT ![r] = NoRow] /\ pc' = [pc EXCEPT ![r] = "miss"]
        \/ copy' = [copy EXCEPT ![r] = row'] /\ pc' = [pc EXCEPT ![r] = "hit"]
    <3>1. CASE Available(copy[r])
      BY <1>3, <3>1 DEF FixRow, Go, Keep
    <3>2. CASE ~Available(copy[r])
      BY <1>3, <3>2 DEF FixRow, Go, Keep
    <3>. QED BY <3>1, <3>2
  <2>5. NoRow.lease = 0
    BY DEF NoRow
  <2>6. row' \in Rows
    BY TypesStep DEF Types
  <2>7. row'.lease \in Nat
    BY <2>6 DEF Rows, NoRow
  <2>. QED BY <1>0, <1>3, <2>0, <2>3, <2>4, <2>5, <2>7 DEF Types, LeasesBounded,
         FixRow, nasVars, restoreVars
<1>4. ASSUME NEW r \in Readers, AcquireLease(r) PROVE LeasesBounded'
  <2>1. copy[r] \in Rows /\ pc[r] = "hit" /\ copy[r].lease < MaxLease
    BY <1>0, <1>4 DEF Types, LeasesBounded, AcquireLease, Go
  <2>2. copy[r].lease \in Nat
    BY <2>1 DEF Rows, NoRow
  <2>3. [copy[r] EXCEPT !.lease = @ + 1].lease = copy[r].lease + 1
    BY <2>1 DEF Rows, NoRow
  <2>4. row'.lease <= MaxLease /\ row'.lease \in Nat
    BY <1>4, <2>1, <2>2, <2>3 DEF AcquireLease
  <2>5. copy' = [copy EXCEPT ![r] = row'] /\ pc' = [pc EXCEPT ![r] = "leased"]
    BY <1>4 DEF AcquireLease, Go, Keep
  <2>. QED BY <1>0, <1>4, <2>4, <2>5 DEF Types, LeasesBounded, AcquireLease,
         nasVars, restoreVars
<1>5. ASSUME NEW r \in Readers, ReleaseCacheLease(r) PROVE LeasesBounded'
  <2>1. copy[r] \in Rows /\ copy[r].lease <= MaxLease
    BY <1>0, <1>5 DEF Types, LeasesBounded
  <2>2. copy[r].lease \in 0..MaxLease
    BY <2>1 DEF Rows, NoRow
  <2>3. [copy[r] EXCEPT !.lease = Returned(@)].lease = Returned(copy[r].lease)
    BY <2>1 DEF Rows, NoRow
  <2>4. row'.lease \in 0..MaxLease
    BY <1>5, <2>2, <2>3, ReturnedInRange DEF ReleaseCacheLease
  <2>5. /\ copy' = [copy EXCEPT ![r] = NoRow] /\ nasCopy' = [nasCopy EXCEPT ![r] = 0]
        /\ pc' = [pc EXCEPT ![r] = "idle"]
    BY <1>5 DEF ReleaseCacheLease, Go, Keep, KeepNas
  <2>6. NoRow.lease = 0
    BY DEF NoRow
  <2>. QED BY <1>0, <1>5, <2>4, <2>5, <2>6 DEF Types, LeasesBounded,
         ReleaseCacheLease, nasVars, restoreVars
<1>6. ASSUME NEW r \in Readers, SaveRefused(r) \/ OpenStream(r) PROVE LeasesBounded'
  BY <1>0, <1>6 DEF Types, LeasesBounded, SaveRefused, OpenStream, Go, Keep, KeepNas,
      NoRow, nasVars, restoreVars
<1>7. ASSUME NEW r \in Readers, AcquireNasLease(r) PROVE LeasesBounded'
  BY <1>0, <1>7 DEF Types, LeasesBounded, AcquireNasLease, Go, Keep, KeepNas, NoRow,
      restoreVars
<1>8. ASSUME NEW r \in Readers, ReleaseNasLease(r) PROVE LeasesBounded'
  <2>1. nasCopy[r] \in 0..MaxLease
    BY <1>8 DEF LeasesBounded
  <2>2. nasLease' \in 0..MaxLease
    BY <1>8, <2>1, ReturnedInRange DEF ReleaseNasLease
  <2>. QED BY <1>0, <1>8, <2>2 DEF Types, LeasesBounded, ReleaseNasLease, Go, KeepNas,
         restoreVars
<1>9. ASSUME NEW r \in Readers, ReadCacheLease(r) PROVE LeasesBounded'
  BY <1>0, <1>9 DEF Types, LeasesBounded, ReadCacheLease, Go, Keep, NoRow, nasVars,
      restoreVars
<1>10. ASSUME NEW r \in Readers, ReadNasLease(r) \/ WantRestore(r) PROVE LeasesBounded'
  BY <1>0, <1>10 DEF Types, LeasesBounded, ReadNasLease, WantRestore, Go, KeepNas,
      nasVars, restoreVars
<1>11. ASSUME NEW r \in Readers, CheckFile(r) PROVE LeasesBounded'
  BY <1>0, <1>11 DEF Types, LeasesBounded, CheckFile, Go, nasVars, restoreVars
<1>12. ASSUME NEW r \in Readers, OpenFails(r) \/ OpenNasStream(r) \/ QueueRestore(r)
              \/ CloseStream(r) \/ AbandonStream(r)
       PROVE  LeasesBounded'
  BY <1>0, <1>12 DEF Types, LeasesBounded, OpenFails, OpenNasStream, QueueRestore,
      CloseStream, AbandonStream, Go, nasVars, restoreVars
<1>13. ASSUME NEW w \in Restorers, ReadRecord(w) PROVE LeasesBounded'
  BY <1>0, <1>13 DEF Types, LeasesBounded, ReadRecord, Finish, Step, NoRow, nasVars,
      readVars
<1>14. ASSUME NEW w \in Restorers, MarkMissing(w) PROVE LeasesBounded'
  <2>1. known[w] \in Rows /\ known[w].lease <= MaxLease
    BY <1>0 DEF Types, LeasesBounded
  <2>2. MarkedMissing(known[w]).lease = known[w].lease
    BY <2>1 DEF MarkedMissing, Rows, NoRow
  <2>3. row'.lease <= MaxLease
    BY <1>14, <2>1, <2>2 DEF MarkMissing, LeasesBounded
  <2>4. known' = [known EXCEPT ![w] = NoRow]
    BY <1>14 DEF MarkMissing, Finish
  <2>5. NoRow.lease = 0
    BY DEF NoRow
  <2>. QED BY <1>0, <1>14, <2>3, <2>4, <2>5 DEF Types, LeasesBounded, MarkMissing,
         nasVars, readVars
<1>15. ASSUME NEW w \in Restorers, SaveRecord(w) PROVE LeasesBounded'
  <2>1. known[w] \in Rows /\ known[w].lease <= MaxLease
    BY <1>0 DEF Types, LeasesBounded
  <2>2. ASSUME NEW c \in Repaired(known[w]) PROVE c.lease <= MaxLease
    BY <2>1, <2>2 DEF Repaired, NewRows, Rows, NoRow
  <2>3. row'.lease <= MaxLease
    BY <1>15, <2>2 DEF SaveRecord, LeasesBounded
  <2>4. known' = [known EXCEPT ![w] = NoRow]
    BY <1>15 DEF SaveRecord, Finish
  <2>5. NoRow.lease = 0
    BY DEF NoRow
  <2>. QED BY <1>0, <1>15, <2>3, <2>4, <2>5 DEF Types, LeasesBounded, SaveRecord,
         nasVars, readVars
<1>16. ASSUME NEW w \in Restorers, BeginRestore(w) \/ CheckCacheFile(w) \/ OpenCopy(w)
              \/ OpenCopyFails(w) \/ EndCopy(w) \/ CopyFails(w) \/ CheckPartial(w)
              \/ DeletePartial(w) \/ CheckSize(w) \/ DeleteBadSize(w)
       PROVE  LeasesBounded'
  BY <1>16 DEF LeasesBounded, BeginRestore, CheckCacheFile, OpenCopy, OpenCopyFails,
      EndCopy, CopyFails, CheckPartial, DeletePartial, CheckSize, DeleteBadSize,
      nasVars, readVars
<1>17. CASE MarkEvicting
  <2>1. row \in Rows
    BY <1>0 DEF Types
  <2>2. [row EXCEPT !.status = "EVICTING"].lease = row.lease
    BY <2>1 DEF Rows, NoRow
  <2>. QED BY <1>17, <2>2 DEF LeasesBounded, MarkEvicting, nasVars, readVars,
         restoreVars
<1>18. CASE FindCandidate \/ NothingToEvict \/ DeleteCacheFile \/ DeleteCacheRow
  BY <1>18 DEF LeasesBounded, FindCandidate, NothingToEvict, DeleteCacheFile,
      DeleteCacheRow, NoRow, nasVars, readVars, restoreVars, vars
<1>19. CASE SyncToNas \/ GiveUpOnLock \/ ExpireLock
  BY <1>19 DEF LeasesBounded, SyncToNas, GiveUpOnLock, ExpireLock, nasVars, readVars,
      restoreVars
<1>20. CASE Crash
  BY <1>20 DEF LeasesBounded, Crash, DownloadsDie, JobsDie, NoRow, nasVars,
      readVars, restoreVars
<1>. QED BY <1>1, <1>2, <1>3, <1>4, <1>5, <1>6, <1>7, <1>8, <1>9, <1>10, <1>11,
       <1>12, <1>13, <1>14, <1>15, <1>16, <1>17, <1>18, <1>19, <1>20
       DEF Next, Download, Restore, Evict

(* TypeOK in full: with the ranges of the leases and of the counters.       *)
THEOREM TypeCorrect == Spec => []TypeOK
<1>1. IndInv /\ RangesInv /\ [Next]_vars => RangesInv'
  <2>1. CASE IndInv /\ RangesInv /\ Next
    BY <2>1, ShapeStep, LeasesStep, TroublesStep DEF RangesInv
  <2>2. CASE RangesInv /\ UNCHANGED vars
    BY <2>2 DEF RangesInv, Shape, LeasesBounded, TroublesBounded, vars
  <2>. QED BY <2>1, <2>2
<1>2. IndInv /\ RangesInv => TypeOK
  BY CacheAssumption DEF CacheAssumption, IndInv, Types, WriterExcludes, RangesInv,
     Shape, LeasesBounded, TroublesBounded, TypeOK
<1>. QED BY InductiveInvariant, InitRanges, <1>1, <1>2, PTL DEF Spec

=============================================================================
