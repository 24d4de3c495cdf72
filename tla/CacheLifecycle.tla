--------------------------- MODULE CacheLifecycle ---------------------------
(***************************************************************************)
(* The cached copy of one file: downloads that repair its row, take a      *)
(* lease and stream it, the eviction that removes it, and the jobs that    *)
(* copy it back from the NAS.                                              *)
(*                                                                         *)
(* Nothing ties the row to the file on disk.  Each party reads the row,    *)
(* looks at the disk, and saves the whole row from its copy: an upsert by  *)
(* id, which puts a deleted row back, and which the unique index on        *)
(* (fileId, storageType) refuses if another row has taken its place.  Only *)
(* the eviction's mark is one atomic UPDATE.  The read/write lock of the   *)
(* cache adapter covers a stream, a copy or an unlink, not an existence    *)
(* check, and it is in the memory of one process.  The server runs as one  *)
(* process, or as two: one serves the downloads, the other runs the jobs   *)
(* and the eviction, and neither sees the other's locks.  The eviction an  *)
(* administrator starts by hand runs in the first; here it is the other's. *)
(***************************************************************************)
EXTENDS Integers, FiniteSets

CONSTANTS
  Readers,       \* downloads that may be under way at a time (bound)
  Restorers,     \* CACHE_RESTORE jobs that may run at a time
  NoRestorer,    \* nobody has the lock
  RowIds,        \* ids for cache rows, as many as there are parties
  MaxLease,      \* no download goes on that reads this leaseCount (bound)
  MaxTroubles    \* bound on failing NAS reads and deletes, abandoned streams,
                 \* expired locks and crashes, counted together

ASSUME CacheAssumption ==
  /\ NoRestorer \notin Restorers
  /\ 0 \notin RowIds
  /\ MaxLease \in Nat /\ MaxTroubles \in Nat

VARIABLES
  split,      \* jobs and eviction run in a process of their own
  nas,        \* availabilityStatus of the NAS row
  nasLease,   \* its leaseCount
  row,        \* the CACHE row: id, status and leaseCount, or NoRow
  disk,       \* the cached file: absent, partial or whole
  pc,         \* where each download is
  copy,       \* the cache row as that download read and changed it
  nasCopy,    \* leaseCount of its copy of the NAS row
  step,       \* where each restore is
  known,      \* the cache row as that restore read it
  queued,     \* a CACHE_RESTORE job waits in the queue
  lock,       \* who has the lock cache-restore:<fileId>
  writing,    \* the restore that holds the write lock of the file
  abandoned,  \* read locks of streams nobody reads or closes
  evictor,    \* where performEviction is with this file
  failures, expiries, crashes

nasVars     == <<nas, nasLease>>
readVars    == <<pc, copy, nasCopy>>
restoreVars == <<step, known, queued, lock, writing>>
boundVars   == <<failures, expiries, crashes>>
vars == <<split, nas, nasLease, row, disk, pc, copy, nasCopy, step, known, queued,
          lock, writing, abandoned, evictor, failures, expiries, crashes>>

NoRow == [id |-> 0, status |-> "NONE", lease |-> 0]
Rows == [id : RowIds, status : {"AVAILABLE", "MISSING", "EVICTING"}, lease : Nat]
          \cup {NoRow}

Available(c) == c.status = "AVAILABLE"
MarkedMissing(c) == [c EXCEPT !.status = "MISSING"]
Returned(n) == IF n = 0 THEN 0 ELSE n - 1

(* repository.save: update by id, or insert unless the file has a row.  A    *)
(* copy that is NoRow stands for a row about to be created.                 *)
CanSave(c) == row.id \in {0, c.id}

MoreTrouble == failures + abandoned + expiries + crashes < MaxTroubles

UsedIds ==
  {row.id} \cup {copy[r].id : r \in Readers} \cup {known[w].id : w \in Restorers}
NewRows == [id : RowIds \ UsedIds, status : {"AVAILABLE"}, lease : {0}]

(* The copy with its status repaired, or a new row when there was none.     *)
Repaired(c) == IF c = NoRow THEN NewRows ELSE {[c EXCEPT !.status = "AVAILABLE"]}

(* Mutant: the write lock does not wait for open streams.                   *)
WriteLockIgnoringStreams == writing = NoRestorer

(* The lock of a file as a restore or the eviction sees it, and as a        *)
(* download does.                                                           *)
WriteLockFree ==
  /\ writing = NoRestorer
  /\ split \/ (abandoned = 0 /\ \A r \in Readers : pc[r] # "reading")

ReadLockFree == split \/ writing = NoRestorer

DownloadSteps ==
  {"idle", "nasRead", "rowRead", "fix", "hit", "leased", "reading", "miss",
   "nasLeased", "nasOpened", "queueing", "nasReading", "closing", "closingNas",
   "releasing", "nasReleasing"}

RestoreSteps ==
  {"idle", "start", "exists", "absent", "open", "copying", "cleanup", "deleting",
   "missing", "sizing", "badSize", "record"}

TypeOK ==
  /\ split \in BOOLEAN
  /\ nas \in {"SYNCING", "AVAILABLE"}
  /\ nasLease \in 0..MaxLease
  /\ row \in Rows /\ row.lease <= MaxLease
  /\ disk \in {"absent", "partial", "whole"}
  /\ pc \in [Readers -> DownloadSteps]
  /\ copy \in [Readers -> Rows]
  /\ nasCopy \in [Readers -> 0..MaxLease]
  /\ step \in [Restorers -> RestoreSteps]
  /\ known \in [Restorers -> Rows]
  /\ queued \in BOOLEAN
  /\ lock \in Restorers \cup {NoRestorer}
  /\ writing \in Restorers \cup {NoRestorer}
  /\ evictor \in {"idle", "candidate", "marked", "deleted"}
  /\ abandoned \in 0..MaxTroubles
  /\ failures \in 0..MaxTroubles /\ expiries \in 0..MaxTroubles
  /\ crashes \in 0..MaxTroubles

(* An upload has stored the content and both rows; the NAS has nothing yet. *)
Init ==
  /\ split \in BOOLEAN
  /\ nas = "SYNCING" /\ nasLease = 0
  /\ row \in [id : RowIds, status : {"AVAILABLE"}, lease : {0}]
  /\ disk = "whole"
  /\ pc = [r \in Readers |-> "idle"]
  /\ copy = [r \in Readers |-> NoRow]
  /\ nasCopy = [r \in Readers |-> 0]
  /\ step = [w \in Restorers |-> "idle"]
  /\ known = [w \in Restorers |-> NoRow]
  /\ queued = FALSE
  /\ lock = NoRestorer /\ writing = NoRestorer
  /\ abandoned = 0
  /\ evictor = "idle"
  /\ failures = 0 /\ expiries = 0 /\ crashes = 0

(* The upload handler copies the cached file to the NAS.                    *)
SyncToNas ==
  /\ nas = "SYNCING" /\ disk = "whole"
  /\ nas' = "AVAILABLE"
  /\ UNCHANGED <<nasLease, row, disk, readVars, restoreVars, abandoned, evictor,
                 boundVars>>

-----------------------------------------------------------------------------
(* download and downloadWithRange.  A SYNCING file is refused.              *)

Go(r, from, to) == pc[r] = from /\ pc' = [pc EXCEPT ![r] = to]
Keep(r, c) == copy' = [copy EXCEPT ![r] = c]
KeepNas(r, n) == nasCopy' = [nasCopy EXCEPT ![r] = n]

ReadNas(r) ==
  /\ nas = "AVAILABLE" /\ nasLease < MaxLease
  /\ Go(r, "idle", "nasRead") /\ KeepNas(r, nasLease)
  /\ UNCHANGED <<nasVars, row, disk, copy, restoreVars, abandoned, evictor, boundVars>>

ReadRow(r) ==
  /\ row.lease < MaxLease
  /\ Go(r, "nasRead", "rowRead") /\ Keep(r, row)
  /\ UNCHANGED <<nasVars, row, disk, nasCopy, restoreVars, abandoned, evictor,
                 boundVars>>

(* The existence check: hit, miss, or a row that disagrees with the disk.   *)
CheckFile(r) ==
  /\ \/ Available(copy[r]) /\ disk # "absent" /\ Go(r, "rowRead", "hit")
     \/ ~Available(copy[r]) /\ disk = "absent" /\ Go(r, "rowRead", "miss")
     \/ Available(copy[r]) # (disk # "absent") /\ Go(r, "rowRead", "fix")
  /\ UNCHANGED <<nasVars, row, disk, copy, nasCopy, restoreVars, abandoned,
                 evictor, boundVars>>

(* Case 1, the file was gone: MISSING.  Case 2, it was there: AVAILABLE.    *)
FixRow(r) ==
  /\ CanSave(copy[r])
  /\ IF Available(copy[r])
       THEN /\ row' = MarkedMissing(copy[r])
            /\ Go(r, "fix", "miss") /\ Keep(r, NoRow)
       ELSE /\ row' \in Repaired(copy[r])
            /\ Go(r, "fix", "hit") /\ Keep(r, row')
  /\ UNCHANGED <<nasVars, disk, nasCopy, restoreVars, abandoned, evictor, boundVars>>

(* acquireLease on the copy, saved as a whole row.                          *)
AcquireLease(r) ==
  LET leased == [copy[r] EXCEPT !.lease = @ + 1]
  IN  /\ CanSave(leased)
      /\ row' = leased /\ Keep(r, leased)
      /\ Go(r, "hit", "leased")
      /\ UNCHANGED <<nasVars, disk, nasCopy, restoreVars, abandoned, evictor,
                     boundVars>>

(* The unique index refuses a save: the request ends in an error.           *)
SaveRefused(r) ==
  /\ pc[r] \in {"fix", "hit", "releasing"}
  /\ ~CanSave(copy[r])
  /\ Go(r, pc[r], "idle") /\ Keep(r, NoRow) /\ KeepNas(r, 0)
  /\ UNCHANGED <<nasVars, row, disk, restoreVars, abandoned, evictor, boundVars>>

(* Mutant: the stream is opened without the read lock.                      *)
OpenStreamUnlocked(r) ==
  /\ disk # "absent"
  /\ Go(r, "leased", "reading") /\ Keep(r, NoRow) /\ KeepNas(r, 0)
  /\ UNCHANGED <<nasVars, row, disk, restoreVars, abandoned, evictor, boundVars>>

OpenStream(r) ==
  /\ ReadLockFree /\ disk # "absent"
  /\ Go(r, "leased", "reading") /\ Keep(r, NoRow) /\ KeepNas(r, 0)
  /\ UNCHANGED <<nasVars, row, disk, restoreVars, abandoned, evictor, boundVars>>

(* No file, or the wait for the read lock timed out: CACHE_READ_FAILED,     *)
(* after giving the lease back on the copy.                                 *)
OpenFails(r) ==
  /\ disk = "absent" \/ ~ReadLockFree
  /\ Go(r, "leased", "releasing")
  /\ UNCHANGED <<nasVars, row, disk, copy, nasCopy, restoreVars, abandoned,
                 evictor, boundVars>>

(* A miss: the lease is taken on the copy of the NAS row.                   *)
AcquireNasLease(r) ==
  /\ nasLease' = nasCopy[r] + 1 /\ KeepNas(r, nasLease')
  /\ Go(r, "miss", "nasLeased") /\ Keep(r, NoRow)
  /\ UNCHANGED <<nas, row, disk, restoreVars, abandoned, evictor, boundVars>>

OpenNasStream(r) ==
  /\ Go(r, "nasLeased", "nasOpened") \/ Go(r, "nasLeased", "nasReleasing")
  /\ UNCHANGED <<nasVars, row, disk, copy, nasCopy, restoreVars, abandoned,
                 evictor, boundVars>>

(* The cache row is read again: a restore is registered if it is missing.   *)
WantRestore(r) ==
  /\ KeepNas(r, 0)
  /\ Go(r, "nasOpened",
        IF row = NoRow \/ row.status = "MISSING" THEN "queueing" ELSE "nasReading")
  /\ UNCHANGED <<nasVars, row, disk, copy, restoreVars, abandoned, evictor,
                 boundVars>>

QueueRestore(r) ==
  /\ Go(r, "queueing", "nasReading")
  /\ queued' = TRUE
  /\ UNCHANGED <<nasVars, row, disk, copy, nasCopy, step, known, lock, writing,
                 abandoned, evictor, boundVars>>

CloseStream(r) ==
  /\ Go(r, "reading", "closing") \/ Go(r, "nasReading", "closing")
  /\ UNCHANGED <<nasVars, row, disk, copy, nasCopy, restoreVars, abandoned,
                 evictor, boundVars>>

(* A range that does not parse is answered 416 after the stream was opened: *)
(* nobody closes it or gives the lease back.                                *)
AbandonStream(r) ==
  /\ \/ Go(r, "reading", "idle") /\ MoreTrouble /\ abandoned' = abandoned + 1
     \/ Go(r, "nasReading", "idle") /\ UNCHANGED abandoned
  /\ UNCHANGED <<nasVars, row, disk, copy, nasCopy, restoreVars, evictor, boundVars>>

(* Mutant: the row is saved even when it holds no lease.                    *)
ReadCacheLeaseUnchecked(r) ==
  /\ row # NoRow /\ Keep(r, row)
  /\ Go(r, "closing", "releasing")
  /\ UNCHANGED <<nasVars, row, disk, nasCopy, restoreVars, abandoned, evictor,
                 boundVars>>

(* releaseLease without a storage type: the cache row first, then the NAS.  *)
ReadCacheLease(r) ==
  /\ Keep(r, IF row.lease > 0 THEN row ELSE NoRow)
  /\ Go(r, "closing", IF row.lease > 0 THEN "releasing" ELSE "closingNas")
  /\ UNCHANGED <<nasVars, row, disk, nasCopy, restoreVars, abandoned, evictor,
                 boundVars>>

ReadNasLease(r) ==
  /\ KeepNas(r, nasLease)
  /\ Go(r, "closingNas", IF nasLease > 0 THEN "nasReleasing" ELSE "idle")
  /\ UNCHANGED <<nasVars, row, disk, copy, restoreVars, abandoned, evictor,
                 boundVars>>

ReleaseCacheLease(r) ==
  LET released == [copy[r] EXCEPT !.lease = Returned(@)]
  IN  /\ CanSave(released)
      /\ row' = released /\ Keep(r, NoRow) /\ KeepNas(r, 0)
      /\ Go(r, "releasing", "idle")
      /\ UNCHANGED <<nasVars, disk, restoreVars, abandoned, evictor, boundVars>>

ReleaseNasLease(r) ==
  /\ nasLease' = Returned(nasCopy[r]) /\ KeepNas(r, 0)
  /\ Go(r, "nasReleasing", "idle")
  /\ UNCHANGED <<nas, row, disk, copy, restoreVars, abandoned, evictor, boundVars>>

-----------------------------------------------------------------------------
(* processCacheRestoreJob, under the lock of the file.  A restore that ends *)
(* in an error leaves its job to the queue, to be retried or given up.      *)

Step(w, from, to) == step[w] = from /\ step' = [step EXCEPT ![w] = to]
Unlock(w) == lock' = IF lock = w THEN NoRestorer ELSE lock

Finish(w, from) ==
  /\ Step(w, from, "idle") /\ Unlock(w)
  /\ known' = [known EXCEPT ![w] = NoRow]

(* Mutant: a restore goes on when it does not get the lock.                 *)
BeginRestoreUnlocked(w) ==
  /\ queued
  /\ queued' = FALSE /\ lock' = w
  /\ Step(w, "idle", "start")
  /\ UNCHANGED <<nasVars, row, disk, readVars, known, writing, abandoned, evictor,
                 boundVars>>

BeginRestore(w) ==
  /\ queued /\ lock = NoRestorer
  /\ queued' = FALSE /\ lock' = w
  /\ Step(w, "idle", "start")
  /\ UNCHANGED <<nasVars, row, disk, readVars, known, writing, abandoned, evictor,
                 boundVars>>

(* Five seconds without the lock, in the last attempt of the job.           *)
GiveUpOnLock ==
  /\ queued /\ lock # NoRestorer
  /\ queued' = FALSE
  /\ UNCHANGED <<nasVars, row, disk, readVars, step, known, lock, writing,
                 abandoned, evictor, boundVars>>

(* The lock is taken for 120 seconds and never renewed.                     *)
ExpireLock ==
  /\ MoreTrouble /\ lock # NoRestorer
  /\ expiries' = expiries + 1 /\ lock' = NoRestorer
  /\ UNCHANGED <<nasVars, row, disk, readVars, step, known, queued, writing,
                 abandoned, evictor, failures, crashes>>

CheckCacheFile(w) ==
  /\ Step(w, "start", IF disk = "absent" THEN "absent" ELSE "exists")
  /\ UNCHANGED <<nasVars, row, disk, readVars, known, queued, lock, writing,
                 abandoned, evictor, boundVars>>

(* With the file in place only the row is repaired, if it needs to be.      *)
ReadRecord(w) ==
  /\ \/ /\ Available(row) /\ Finish(w, "exists")
     \/ /\ ~Available(row) /\ Step(w, "exists", "record")
        /\ known' = [known EXCEPT ![w] = row] /\ UNCHANGED lock
     \/ /\ Step(w, "absent", "open")
        /\ known' = [known EXCEPT ![w] = row] /\ UNCHANGED lock
  /\ UNCHANGED <<nasVars, row, disk, readVars, queued, writing, abandoned, evictor,
                 boundVars>>

(* createWriteStream truncates the file at its final path.                  *)
OpenCopy(w) ==
  /\ WriteLockFree
  /\ writing' = w /\ disk' = "partial"
  /\ Step(w, "open", "copying")
  /\ UNCHANGED <<nasVars, row, readVars, known, queued, lock, abandoned, evictor,
                 boundVars>>

(* The NAS cannot be read, or the write lock is not free for 30 seconds.    *)
OpenCopyFails(w) ==
  /\ \/ ~WriteLockFree /\ UNCHANGED failures
     \/ MoreTrouble /\ failures' = failures + 1
  /\ Step(w, "open", "cleanup")
  /\ UNCHANGED <<nasVars, row, disk, readVars, known, queued, lock, writing,
                 abandoned, evictor, expiries, crashes>>

EndCopy(w) ==
  /\ Step(w, "copying", "sizing")
  /\ disk' = "whole" /\ writing' = NoRestorer
  /\ UNCHANGED <<nasVars, row, readVars, known, queued, lock, abandoned, evictor,
                 boundVars>>

(* The lock is released before the partial file is cleaned up.              *)
CopyFails(w) ==
  /\ MoreTrouble /\ failures' = failures + 1
  /\ Step(w, "copying", "cleanup")
  /\ writing' = NoRestorer
  /\ UNCHANGED <<nasVars, row, disk, readVars, known, queued, lock, abandoned,
                 evictor, expiries, crashes>>

CheckPartial(w) ==
  /\ Step(w, "cleanup", IF disk = "absent" THEN "missing" ELSE "deleting")
  /\ UNCHANGED <<nasVars, row, disk, readVars, known, queued, lock, writing,
                 abandoned, evictor, boundVars>>

(* The unlink; without the write lock it throws, which is only logged.      *)
DeletePartial(w) ==
  /\ disk' = IF WriteLockFree THEN "absent" ELSE disk
  /\ Step(w, "deleting", "missing")
  /\ UNCHANGED <<nasVars, row, readVars, known, queued, lock, writing, abandoned,
                 evictor, boundVars>>

(* A copy of the row, if there was one, is saved as MISSING; then it throws.*)
MarkMissing(w) ==
  /\ row' = IF known[w] # NoRow /\ CanSave(known[w])
              THEN MarkedMissing(known[w]) ELSE row
  /\ Finish(w, "missing")
  /\ queued' \in {queued, TRUE}
  /\ UNCHANGED <<nasVars, disk, readVars, writing, abandoned, evictor, boundVars>>

(* Sizes are compared without a lock.  The check is skipped when either     *)
(* size cannot be read: the file is gone, or the NAS does not answer.       *)
CheckSize(w) ==
  /\ \/ /\ Step(w, "sizing", IF disk = "partial" THEN "badSize" ELSE "record")
        /\ UNCHANGED failures
     \/ /\ MoreTrouble /\ failures' = failures + 1
        /\ Step(w, "sizing", "record")
  /\ UNCHANGED <<nasVars, row, disk, readVars, known, queued, lock, writing,
                 abandoned, evictor, expiries, crashes>>

(* Deleting it without the write lock throws, and that error is taken for   *)
(* one of reading the sizes: the restore goes on.                           *)
DeleteBadSize(w) ==
  /\ \/ WriteLockFree /\ disk' = "absent" /\ Step(w, "badSize", "missing")
     \/ ~WriteLockFree /\ UNCHANGED disk /\ Step(w, "badSize", "record")
  /\ UNCHANGED <<nasVars, row, readVars, known, queued, lock, writing, abandoned,
                 evictor, boundVars>>

(* The row becomes AVAILABLE; a refused save throws.                        *)
SaveRecord(w) ==
  /\ Finish(w, "record")
  /\ \/ CanSave(known[w]) /\ row' \in Repaired(known[w]) /\ UNCHANGED queued
     \/ ~CanSave(known[w]) /\ UNCHANGED row /\ queued' \in {queued, TRUE}
  /\ UNCHANGED <<nasVars, disk, readVars, writing, abandoned, evictor, boundVars>>

-----------------------------------------------------------------------------
(* performEviction; isRunning lets one run at a time.                       *)

(* Mutant: files that are not on the NAS yet are candidates too.            *)
CandidateUnsynced == Available(row) /\ row.lease = 0

Candidate == Available(row) /\ row.lease = 0 /\ nas = "AVAILABLE"

FindCandidate ==
  /\ evictor = "idle" /\ Candidate
  /\ evictor' = "candidate"
  /\ UNCHANGED <<nasVars, row, disk, readVars, restoreVars, abandoned, boundVars>>

NothingToEvict ==
  /\ evictor = "idle" /\ ~Candidate
  /\ UNCHANGED vars

(* tryMarkEvicting: one conditional UPDATE; no row affected, and the file   *)
(* is skipped.                                                              *)
MarkEvicting ==
  /\ evictor = "candidate"
  /\ IF Available(row) /\ row.lease = 0
       THEN row' = [row EXCEPT !.status = "EVICTING"] /\ evictor' = "marked"
       ELSE UNCHANGED row /\ evictor' = "idle"
  /\ UNCHANGED <<nasVars, disk, readVars, restoreVars, abandoned, boundVars>>

(* An unlink that times out on the lock is only logged.                     *)
DeleteCacheFile ==
  /\ evictor = "marked"
  /\ disk' = IF WriteLockFree THEN "absent" ELSE disk
  /\ evictor' = "deleted"
  /\ UNCHANGED <<nasVars, row, readVars, restoreVars, abandoned, boundVars>>

(* Whatever CACHE row the file has by now is deleted.                       *)
DeleteCacheRow ==
  /\ evictor = "deleted"
  /\ \/ row' = NoRow /\ UNCHANGED failures
     \/ /\ MoreTrouble /\ failures' = failures + 1
        /\ UNCHANGED row
  /\ evictor' = "idle"
  /\ UNCHANGED <<nasVars, disk, readVars, restoreVars, abandoned, expiries, crashes>>

-----------------------------------------------------------------------------

(* A process dies with its locks and streams; the rows, the file and the    *)
(* queue stay, and an interrupted job is waiting again.  The lock of a      *)
(* restore dies with it or, kept in Redis, stays until it expires.          *)
DownloadsDie ==
  /\ pc' = [r \in Readers |-> "idle"]
  /\ copy' = [r \in Readers |-> NoRow]
  /\ nasCopy' = [r \in Readers |-> 0]
  /\ abandoned' = 0

JobsDie ==
  /\ queued' = (queued \/ \E w \in Restorers : step[w] # "idle")
  /\ step' = [w \in Restorers |-> "idle"]
  /\ known' = [w \in Restorers |-> NoRow]
  /\ lock' \in {lock, NoRestorer} /\ writing' = NoRestorer
  /\ evictor' = "idle"

Crash ==
  /\ MoreTrouble /\ crashes' = crashes + 1
  /\ \/ ~split /\ DownloadsDie /\ JobsDie
     \/ split /\ DownloadsDie /\ UNCHANGED <<restoreVars, evictor>>
     \/ split /\ JobsDie /\ UNCHANGED <<readVars, abandoned>>
  /\ UNCHANGED <<nasVars, row, disk, failures, expiries>>

Download(r) ==
  \/ ReadNas(r) \/ ReadRow(r) \/ CheckFile(r) \/ FixRow(r) \/ SaveRefused(r)
  \/ AcquireLease(r) \/ OpenStream(r) \/ OpenFails(r)
  \/ AcquireNasLease(r) \/ OpenNasStream(r) \/ WantRestore(r) \/ QueueRestore(r)
  \/ CloseStream(r) \/ AbandonStream(r)
  \/ ReadCacheLease(r) \/ ReadNasLease(r)
  \/ ReleaseCacheLease(r) \/ ReleaseNasLease(r)

Restore(w) ==
  \/ BeginRestore(w) \/ CheckCacheFile(w) \/ ReadRecord(w)
  \/ OpenCopy(w) \/ OpenCopyFails(w) \/ EndCopy(w) \/ CopyFails(w)
  \/ CheckPartial(w) \/ DeletePartial(w) \/ MarkMissing(w)
  \/ CheckSize(w) \/ DeleteBadSize(w) \/ SaveRecord(w)

Evict ==
  FindCandidate \/ NothingToEvict \/ MarkEvicting \/ DeleteCacheFile \/ DeleteCacheRow

Next ==
  /\ \/ SyncToNas
     \/ \E r \in Readers : Download(r)
     \/ \E w \in Restorers : Restore(w)
     \/ GiveUpOnLock \/ ExpireLock
     \/ Evict
     \/ Crash
  /\ UNCHANGED split

Spec == Init /\ [][Next]_vars

-----------------------------------------------------------------------------

(* The eviction never removes the only copy of the content: whatever        *)
(* downloads, restores, evictions and crashes do, either the NAS has it or  *)
(* the cached file is whole (the NAS condition of the candidate query).     *)
ContentNeverLost == nas = "AVAILABLE" \/ disk = "whole"

(* A file that a download is streaming is not truncated, replaced or        *)
(* unlinked under it, however wrong the leases are by then: the read lock   *)
(* of the stream holds until it is closed.  With two processes nothing      *)
(* protects a stream.                                                       *)
StreamsUndisturbed ==
  [][~split => \A r \in Readers : pc[r] = "reading" /\ pc'[r] = "reading"
                                     => disk' = disk]_vars

(* A restore exposes the file at its final path while it is being written,  *)
(* and downloads repair the row of a file they find there; yet no download  *)
(* of the same process streams a partial file unless a copy failed or the   *)
(* process died.                                                            *)
NoPartialRead ==
  ~split /\ failures = 0 /\ crashes = 0 =>
    \A r \in Readers : pc[r] = "reading" => disk = "whole"

(* A row says EVICTING only while the eviction is at work on it: no stale   *)
(* copy of another party brings the status back.  A failed delete or a      *)
(* crash may leave it.                                                      *)
EvictingIsTransient ==
  failures = 0 /\ crashes = 0 /\ row.status = "EVICTING"
    => evictor \in {"marked", "deleted"}

(* A whole cached file is copied over again only when a restore outlived    *)
(* its lock, although jobs may be registered twice and the existence check  *)
(* is made long before the copy.                                            *)
WholeFileKept ==
  [][disk = "whole" /\ disk' = "partial" => expiries > 0]_vars

=============================================================================
