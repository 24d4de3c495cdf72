---------------------------- MODULE NasFileSync ----------------------------
(***************************************************************************)
(* One file on the NAS, the rows that say where it is, and the handlers of *)
(* NAS_FILE_SYNC jobs that move it: rename, move, trash, restore, purge.   *)
(*                                                                         *)
(* A request changes rows and registers a job; jobs of the file run one at *)
(* a time (SyncOutbox shows that) but in any order, again after an error   *)
(* or a crash, and twice when the recovery registers them twice.  A        *)
(* handler works on copies of the rows.  The NAS adapter refuses to move   *)
(* or delete a file that is not there: its NotFoundException has no code,  *)
(* so the handlers' test for ENOENT and EEXIST never succeeds.             *)
(***************************************************************************)
EXTENDS Integers, Sequences

CONSTANTS
  Folders,        \* folders a file can be in
  Home,           \* the folder of the upload
  Names,          \* file names
  FirstName,      \* the name of the upload
  MaxAttempts,    \* attempts option of a job
  MaxRequests,    \* bound on accepted requests and downloads
  MaxDuplicates,  \* bound on jobs registered twice
  MaxTroubles     \* bound on crashes and input/output errors

ASSUME NasAssumption ==
  /\ Home \in Folders /\ FirstName \in Names
  /\ MaxAttempts \in Nat /\ MaxRequests \in Nat /\ MaxDuplicates \in Nat
  /\ MaxTroubles \in Nat

VARIABLES
  file,         \* state, folder and name of the files row
  row,          \* key, status and leaseCount of the NAS row, or NoRow
  at,           \* where the content is on the NAS, or Gone
  metas,        \* the trash_metadata rows of the file
  active,       \* folders that are not deleted
  jobs,         \* every job ever registered, with its state
  run,          \* the job being handled, 0 for none
  pc,           \* where its handler is
  nasCopy,      \* the NAS row as the handler read it
  fileCopy,     \* the files row as the handler read it
  purging,      \* metadata of a purge that has not registered its job, or 0
  purgeCopy,    \* the files row as that request holds it
  download, leaseCopy,   \* a download from the NAS and its copy of the row
  requests, duplicates, troubles,
  stale,        \* a download saved a copy of the row that was out of date
  interrupted,  \* a handler ended between changing the NAS and its row
  late          \* a job started after the job of a later request

rowVars      == <<file, row, at, metas, active>>
copyVars     == <<nasCopy, fileCopy>>
purgeVars    == <<purging, purgeCopy>>
downloadVars == <<download, leaseCopy>>
boundVars    == <<requests, duplicates, troubles>>
historyVars  == <<stale, interrupted, late>>
vars == <<rowVars, jobs, run, pc, copyVars, purgeVars, downloadVars, boundVars,
          historyVars>>

-----------------------------------------------------------------------------
(* Keys: <dir>/<prefix>__<name>.  The prefix is a list: Stamp, the time of  *)
(* the upload; in the trash the id of the metadata before it.               *)

Stamp == 0
NullStamp == -1
Key(d, p, n) == [dir |-> d, prefix |-> p, name |-> n]
UploadKey == Key(Home, <<Stamp>>, FirstName)

(* `${timestamp}__${finalName}`, where the timestamp is taken from the text *)
(* of a whole path and therefore always null.                               *)
NewObjectKey(n) == Key("none", <<NullStamp>>, n)

RenameTarget(k, n) ==
  Key(k.dir, SubSeq(k.prefix, 1, IF k.prefix = <<>> THEN 0 ELSE 1), n)
MoveTarget(k, d) == Key(d, k.prefix, k.name)
TrashPath(k, m) == Key("trash", <<m>> \o k.prefix, k.name)
RestorePath(k, d) ==
  Key(d, IF k.prefix = <<>> THEN <<>> ELSE Tail(k.prefix), k.name)

Gone == Key("gone", <<>>, FirstName)
Row(k, s, l) == [key |-> k, status |-> s, lease |-> l]
NoRow == Row(Gone, "NONE", 0)
Available(r) == r.status = "AVAILABLE"

Keys == [dir : Folders \cup {"none", "trash", "gone"}, prefix : Seq(Int),
         name : Names]
Rows == [key : Keys, status : {"AVAILABLE", "SYNCING"}, lease : 0..MaxRequests]
          \cup {NoRow}
Files == [state : {"ACTIVE", "TRASHED", "DELETED"}, dir : Folders, name : Names]
Kinds == {"rename", "move", "trash", "restore", "purge"}
Steps == {"idle", "meta", "file", "row", "folder", "move", "save", "revert",
          "revertFile", "revertRow", "saveFile", "deleteMeta", "delete",
          "deleteRow", "permanent"}

JobRecords ==
  [kind : Kinds, src : Keys, dst : Keys, from : Folders, to : Folders,
   meta : 0..MaxRequests, asked : 1..MaxRequests,
   state : {"waiting", "active", "done", "failed"}, throws : 0..MaxAttempts + 1]

TypeOK ==
  /\ file \in Files /\ row \in Rows /\ at \in Keys
  /\ metas \subseteq 1..MaxRequests /\ active \subseteq Folders
  /\ jobs \in Seq(JobRecords)
  /\ run \in 0..Len(jobs) /\ pc \in Steps /\ (run = 0 <=> pc = "idle")
  /\ nasCopy \in Rows /\ fileCopy \in Files
  /\ purging \in 0..MaxRequests /\ purgeCopy \in Files
  /\ download \in {"idle", "reading", "leased", "closing"} /\ leaseCopy \in Rows
  /\ requests \in 0..MaxRequests /\ duplicates \in 0..MaxDuplicates
  /\ troubles \in 0..MaxTroubles
  /\ stale \in BOOLEAN /\ interrupted \in BOOLEAN /\ late \in BOOLEAN

(* The file has been uploaded and synchronised.                             *)
Init ==
  /\ file = [state |-> "ACTIVE", dir |-> Home, name |-> FirstName]
  /\ row = Row(UploadKey, "AVAILABLE", 0) /\ at = UploadKey
  /\ metas = {} /\ active = Folders
  /\ jobs = <<>> /\ run = 0 /\ pc = "idle"
  /\ nasCopy = NoRow /\ fileCopy = file
  /\ purging = 0 /\ purgeCopy = file
  /\ download = "idle" /\ leaseCopy = NoRow
  /\ requests = 0 /\ duplicates = 0 /\ troubles = 0
  /\ stale = FALSE /\ interrupted = FALSE /\ late = FALSE

-----------------------------------------------------------------------------
(* Requests.  rename, move and delete lock both rows in one transaction and *)
(* refuse a SYNCING file (409).  Left out: a purged file that a late        *)
(* restore made ACTIVE again, which has no NAS row to change.               *)

Accept == requests < MaxRequests /\ requests' = requests + 1
Editable == file.state = "ACTIVE" /\ Available(row)

Enqueue(kind, src, dst, to, m) ==
  jobs' = Append(jobs, [kind |-> kind, src |-> src, dst |-> dst,
                        from |-> file.dir, to |-> to, meta |-> m,
                        asked |-> requests', state |-> "waiting", throws |-> 0])

RequestRename(n) ==
  /\ Accept /\ Editable /\ n # file.name
  /\ file' = [file EXCEPT !.name = n]
  /\ row' = Row(NewObjectKey(n), "SYNCING", row.lease)
  /\ Enqueue("rename", row.key, NewObjectKey(n), file.dir, 0)
  /\ UNCHANGED <<at, metas, active, run, pc, copyVars, purgeVars, downloadVars,
                 duplicates, troubles, historyVars>>

(* The target folder was looked up before the transaction and may have been *)
(* deleted since.                                                           *)
RequestMove(d) ==
  /\ Accept /\ Editable /\ d # file.dir
  /\ file' = [file EXCEPT !.dir = d]
  /\ row' = [row EXCEPT !.status = "SYNCING"]
  /\ Enqueue("move", row.key, MoveTarget(row.key, d), d, 0)
  /\ UNCHANGED <<at, metas, active, run, pc, copyVars, purgeVars, downloadVars,
                 duplicates, troubles, historyVars>>

RequestDelete ==
  /\ Accept /\ Editable /\ row.lease = 0
  /\ file' = [file EXCEPT !.state = "TRASHED"]
  /\ metas' = metas \cup {requests'}
  /\ row' = [row EXCEPT !.status = "SYNCING"]
  /\ Enqueue("trash", row.key, TrashPath(row.key, requests'), file.dir, 0)
  /\ UNCHANGED <<at, active, run, pc, copyVars, purgeVars, downloadVars,
                 duplicates, troubles, historyVars>>

(* executeRestore: neither the NAS row nor other jobs are looked at, and a  *)
(* folder the user names need not be active.                                *)
RequestRestore(m, d) ==
  /\ Accept /\ m \in metas /\ file.state = "TRASHED"
  /\ Enqueue("restore", Gone, Gone, d, m)
  /\ UNCHANGED <<rowVars, run, pc, copyVars, purgeVars, downloadVars, duplicates,
                 troubles, historyVars>>

(* purge: the file is read, it is saved as DELETED, its metadata goes, and  *)
(* the job is registered, without an event the recovery could find.         *)
RequestPurge(m) ==
  /\ Accept /\ m \in metas /\ file.state = "TRASHED" /\ purging = 0
  /\ purging' = m /\ purgeCopy' = file
  /\ UNCHANGED <<rowVars, jobs, run, pc, copyVars, downloadVars, duplicates,
                 troubles, historyVars>>

SavePurged ==
  /\ purging # 0 /\ purgeCopy.state = "TRASHED"
  /\ purgeCopy' = [purgeCopy EXCEPT !.state = "DELETED"]
  /\ file' = purgeCopy'
  /\ UNCHANGED <<row, at, metas, active, jobs, run, pc, copyVars, purging,
                 downloadVars, boundVars, historyVars>>

QueuePurge ==
  /\ purging # 0 /\ purgeCopy.state = "DELETED"
  /\ metas' = metas \ {purging} /\ purging' = 0
  /\ UNCHANGED boundVars
  /\ Enqueue("purge", Gone, Gone, file.dir, purging)
  /\ UNCHANGED <<file, row, at, active, run, pc, copyVars, purgeCopy,
                 downloadVars, historyVars>>

(* Only an empty folder can be deleted.                                     *)
TrashFolder(d) ==
  /\ d \in active /\ ~(file.state = "ACTIVE" /\ file.dir = d)
  /\ active' = active \ {d}
  /\ UNCHANGED <<file, row, at, metas, jobs, run, pc, copyVars, purgeVars,
                 downloadVars, boundVars, historyVars>>

-----------------------------------------------------------------------------
(* A download of the NAS copy: the lease is saved with the whole row.       *)

DownloadRead ==
  /\ Accept /\ download = "idle" /\ Editable
  /\ download' = "reading" /\ leaseCopy' = row
  /\ UNCHANGED <<rowVars, jobs, run, pc, copyVars, purgeVars, duplicates, troubles,
                 historyVars>>

DownloadLease ==
  /\ download = "reading"
  /\ row' = [leaseCopy EXCEPT !.lease = @ + 1]
  /\ stale' = (stale \/ row # leaseCopy)
  /\ download' = "leased" /\ leaseCopy' = NoRow
  /\ UNCHANGED <<file, at, metas, active, jobs, run, pc, copyVars, purgeVars,
                 boundVars, interrupted, late>>

DownloadEnd ==
  /\ download = "leased"
  /\ IF row.lease > 0 THEN download' = "closing" /\ leaseCopy' = row
                      ELSE download' = "idle" /\ UNCHANGED leaseCopy
  /\ UNCHANGED <<rowVars, jobs, run, pc, copyVars, purgeVars, boundVars, historyVars>>

DownloadReturn ==
  /\ download = "closing"
  /\ row' = [leaseCopy EXCEPT !.lease = @ - 1]
  /\ stale' = (stale \/ row # leaseCopy)
  /\ download' = "idle" /\ leaseCopy' = NoRow
  /\ UNCHANGED <<file, at, metas, active, jobs, run, pc, copyVars, purgeVars,
                 boundVars, interrupted, late>>

-----------------------------------------------------------------------------
(* The handlers, from the lock on.                                          *)

Job == jobs[run]
At(step) == pc = step
GoTo(step) == pc' = step /\ UNCHANGED <<jobs, run>>
SetState(i, s) == jobs' = [jobs EXCEPT ![i].state = s]

Finish ==
  /\ SetState(run, "done")
  /\ run' = 0 /\ pc' = "idle"

(* handleRetry and rethrow: LocalFileQueueAdapter tries again while         *)
(* attemptsMade <= maxAttempts.                                             *)
Throw ==
  LET n == Job.throws + 1
  IN  /\ jobs' = [jobs EXCEPT ![run].throws = n,
                    ![run].state = IF n <= MaxAttempts
                                     THEN "waiting" ELSE "failed"]
      /\ run' = 0 /\ pc' = "idle"

StartJob(i) ==
  /\ run = 0 /\ jobs[i].state = "waiting"
  /\ SetState(i, "active") /\ run' = i
  /\ pc' = IF jobs[i].kind = "restore" THEN "meta"
           ELSE IF jobs[i].kind = "purge" THEN "file" ELSE "row"
  /\ late' = (late \/ \E j \in DOMAIN jobs :
                        jobs[j].asked > jobs[i].asked /\ jobs[j].state # "waiting")
  /\ UNCHANGED <<rowVars, copyVars, purgeVars, downloadVars, boundVars, stale,
                 interrupted>>

(* restore: without its metadata, or with its folder gone, the event is     *)
(* marked FAILED and the job is over.                                       *)
ReadMeta ==
  /\ At("meta")
  /\ IF Job.meta \in metas THEN GoTo("file") ELSE Finish
  /\ UNCHANGED <<rowVars, copyVars, purgeVars, downloadVars, boundVars, historyVars>>

ReadFile ==
  /\ At("file")
  /\ fileCopy' = file
  /\ GoTo(IF Job.kind = "restore" THEN "folder" ELSE "row")
  /\ UNCHANGED <<rowVars, nasCopy, purgeVars, downloadVars, boundVars, historyVars>>

CheckFolder ==
  /\ At("folder")
  /\ \/ Job.to \in active /\ GoTo(IF Job.kind = "move" THEN "move" ELSE "row")
     \/ Job.to \notin active /\ Job.kind = "move" /\ GoTo("revert")
     \/ Job.to \notin active /\ Job.kind = "restore" /\ Finish
  /\ UNCHANGED <<rowVars, copyVars, purgeVars, downloadVars, boundVars, historyVars>>

AlreadyThere == Available(row) /\ row.key = Job.dst

(* What a handler does with the row it reads.                               *)
ReadRow ==
  /\ At("row") /\ nasCopy' = row
  /\ \/ Job.kind = "restore" /\ GoTo(IF row = NoRow THEN "saveFile" ELSE "move")
     \/ Job.kind = "purge" /\ GoTo(IF row = NoRow THEN "permanent" ELSE "delete")
     \/ /\ Job.kind \in {"rename", "move", "trash"}
        /\ \/ (row = NoRow \/ AlreadyThere) /\ Finish
           \/ /\ row # NoRow /\ ~AlreadyThere
              /\ \/ Job.kind = "move" /\ GoTo("folder")
                 \/ Job.kind = "trash" /\ row.lease > 0 /\ Throw
                 \/ Job.kind = "trash" /\ row.lease = 0 /\ GoTo("move")
                 \/ Job.kind = "rename" /\ GoTo("move")
  /\ UNCHANGED <<rowVars, fileCopy, purgeVars, downloadVars, boundVars, historyVars>>

Source == IF Job.kind = "restore" THEN nasCopy.key ELSE Job.src
Target ==
  IF Job.kind = "rename" THEN RenameTarget(Job.src, Job.dst.name)
  ELSE IF Job.kind = "restore" THEN RestorePath(nasCopy.key, Job.to)
  ELSE Job.dst

(* Mutant: a source that is missing is taken for a move already made.       *)
MoveSwallowing ==
  /\ At("move")
  /\ at' = IF at = Source THEN Target ELSE at
  /\ GoTo("save")
  /\ UNCHANGED <<file, row, metas, active, copyVars, purgeVars, downloadVars,
                 boundVars, historyVars>>

(* The adapter write-locks both keys, one after the other: a move onto its  *)
(* own key waits for itself and throws when the lock times out.             *)
Move ==
  /\ At("move")
  /\ \/ at = Source /\ Source # Target /\ at' = Target /\ GoTo("save")
     \/ (at # Source \/ Source = Target) /\ UNCHANGED at /\ Throw
  /\ UNCHANGED <<file, row, metas, active, copyVars, purgeVars, downloadVars,
                 boundVars, historyVars>>

AfterSave == IF Job.kind = "restore" THEN GoTo("saveFile") ELSE Finish

(* Mutant: the row keeps its status.                                        *)
SaveKeyOnly ==
  /\ At("save")
  /\ row' = [nasCopy EXCEPT !.key = Target]
  /\ AfterSave
  /\ UNCHANGED <<file, at, metas, active, copyVars, purgeVars, downloadVars,
                 boundVars, historyVars>>

SaveRow ==
  /\ At("save")
  /\ row' = [nasCopy EXCEPT !.key = Target, !.status = "AVAILABLE"]
  /\ AfterSave
  /\ UNCHANGED <<file, at, metas, active, copyVars, purgeVars, downloadVars,
                 boundVars, historyVars>>

(* move into a folder that was deleted: the file goes back where it was.    *)
ReadMovedFile ==
  /\ At("revert")
  /\ fileCopy' = file
  /\ IF file.state = "ACTIVE" THEN GoTo("revertFile") ELSE Throw
  /\ UNCHANGED <<rowVars, nasCopy, purgeVars, downloadVars, boundVars, historyVars>>

(* Mutant: only the NAS row is reverted.                                    *)
RevertNothing ==
  /\ At("revertFile") /\ GoTo("revertRow")
  /\ UNCHANGED <<rowVars, copyVars, purgeVars, downloadVars, boundVars, historyVars>>

RevertFile ==
  /\ At("revertFile") /\ GoTo("revertRow")
  /\ file' = [fileCopy EXCEPT !.dir = Job.from]
  /\ UNCHANGED <<row, at, metas, active, copyVars, purgeVars, downloadVars,
                 boundVars, historyVars>>

RevertRow ==
  /\ At("revertRow") /\ Finish
  /\ row' = [nasCopy EXCEPT !.status = "AVAILABLE"]
  /\ UNCHANGED <<file, at, metas, active, copyVars, purgeVars, downloadVars,
                 boundVars, historyVars>>

SaveFile ==
  /\ At("saveFile") /\ GoTo("deleteMeta")
  /\ file' = IF fileCopy.state = "TRASHED"
               THEN [fileCopy EXCEPT !.state = "ACTIVE", !.dir = Job.to] ELSE file
  /\ UNCHANGED <<row, at, metas, active, copyVars, purgeVars, downloadVars,
                 boundVars, historyVars>>

DeleteMeta ==
  /\ At("deleteMeta") /\ Finish
  /\ metas' = metas \ {Job.meta}
  /\ UNCHANGED <<file, row, at, active, copyVars, purgeVars, downloadVars,
                 boundVars, historyVars>>

DeleteContent ==
  /\ At("delete")
  /\ \/ at = nasCopy.key /\ at' = Gone /\ GoTo("deleteRow")
     \/ at # nasCopy.key /\ UNCHANGED at /\ Throw
  /\ UNCHANGED <<file, row, metas, active, copyVars, purgeVars, downloadVars,
                 boundVars, historyVars>>

DeleteRow ==
  /\ At("deleteRow") /\ GoTo("permanent")
  /\ row' = NoRow
  /\ UNCHANGED <<file, at, metas, active, copyVars, purgeVars, downloadVars,
                 boundVars, historyVars>>

(* permanentDelete throws unless the file is TRASHED; the request has made  *)
(* it DELETED.                                                              *)
PermanentDelete ==
  /\ At("permanent")
  /\ IF fileCopy.state = "TRASHED"
       THEN file' = [fileCopy EXCEPT !.state = "DELETED"] /\ GoTo("deleteMeta")
       ELSE UNCHANGED file /\ Throw
  /\ UNCHANGED <<row, at, metas, active, copyVars, purgeVars, downloadVars,
                 boundVars, historyVars>>

Handle ==
  \/ ReadMeta \/ ReadFile \/ CheckFolder \/ ReadRow \/ Move \/ SaveRow
  \/ ReadMovedFile \/ RevertFile \/ RevertRow
  \/ SaveFile \/ DeleteMeta
  \/ DeleteContent \/ DeleteRow \/ PermanentDelete

-----------------------------------------------------------------------------
(* The environment.                                                         *)

Trouble == troubles < MaxTroubles /\ troubles' = troubles + 1
Interrupt == interrupted' = (interrupted \/ pc \in {"save", "deleteRow"})

(* An error of the NAS or the database inside a handler.                    *)
Fail ==
  /\ Trouble /\ run # 0
  /\ Throw /\ Interrupt
  /\ UNCHANGED <<rowVars, copyVars, purgeVars, downloadVars, requests, duplicates,
                 stale, late>>

(* Mutant: the job that was running counts as failed after the restart.     *)
CrashGivesUp ==
  /\ Trouble
  /\ jobs' = [i \in DOMAIN jobs |->
                IF i = run THEN [jobs[i] EXCEPT !.state = "failed"] ELSE jobs[i]]
  /\ run' = 0 /\ pc' = "idle"
  /\ purging' = 0 /\ download' = "idle" /\ leaseCopy' = NoRow
  /\ Interrupt
  /\ UNCHANGED <<rowVars, copyVars, purgeCopy, requests, duplicates,
                 stale, late>>

(* The process dies: the job goes back to waiting, the rest is forgotten.   *)
Crash ==
  /\ Trouble
  /\ jobs' = [i \in DOMAIN jobs |->
                IF i = run THEN [jobs[i] EXCEPT !.state = "waiting"] ELSE jobs[i]]
  /\ run' = 0 /\ pc' = "idle"
  /\ purging' = 0 /\ download' = "idle" /\ leaseCopy' = NoRow
  /\ Interrupt
  /\ UNCHANGED <<rowVars, copyVars, purgeCopy, requests, duplicates,
                 stale, late>>

(* The recovery cron registers the job of an event it read as PENDING.  The *)
(* copy may wait until the job is over.  A purge has no event.              *)
Duplicate(i) ==
  /\ duplicates < MaxDuplicates
  /\ jobs[i].state = "waiting" /\ jobs[i].kind # "purge"
  /\ duplicates' = duplicates + 1
  /\ jobs' = Append(jobs, [jobs[i] EXCEPT !.throws = 0])
  /\ UNCHANGED <<rowVars, run, pc, copyVars, purgeVars, downloadVars, requests,
                 troubles, historyVars>>

Request ==
  \/ \E n \in Names : RequestRename(n)
  \/ \E d \in Folders : RequestMove(d)
  \/ RequestDelete
  \/ \E m \in metas, d \in Folders : RequestRestore(m, d)
  \/ \E m \in metas : RequestPurge(m)
  \/ SavePurged \/ QueuePurge
  \/ \E d \in Folders : TrashFolder(d)

Download == DownloadRead \/ DownloadLease \/ DownloadEnd \/ DownloadReturn

Next ==
  \/ Request
  \/ Download
  \/ \E i \in DOMAIN jobs : StartJob(i) \/ Duplicate(i)
  \/ Handle
  \/ Fail \/ Crash

Spec == Init /\ [][Next]_vars

-----------------------------------------------------------------------------

(* Every job that may ever be registered.                                   *)
JobNumbers == 1..(MaxRequests + MaxDuplicates)

QueueState(i) ==
  IF i \notin DOMAIN jobs THEN "new"
  ELSE IF jobs[i].state \in {"waiting", "active"} THEN "pending"
  ELSE IF jobs[i].state = "done" THEN "done" ELSE "dead"

Queue == INSTANCE JobQueue WITH
  Jobs <- JobNumbers,
  state <- [i \in JobNumbers |-> QueueState(i)],
  ok <- {i \in JobNumbers : QueueState(i) = "done"},
  errs <- [i \in JobNumbers |-> IF i \in DOMAIN jobs THEN jobs[i].throws ELSE 0]

(* The jobs of a file live and end as the queue promises: none disappears,  *)
(* comes back after its end or is given up before its handler has thrown    *)
(* more than maxAttempts times, whatever crashes and duplicates come.       *)
ImplementsJobQueue == Queue!Spec

Settled ==
  run = 0 /\ purging = 0 /\ \A i \in DOMAIN jobs : jobs[i].state # "waiting"

(* An AVAILABLE row names the key its content has, except while a handler   *)
(* is between the two: jobs that run late, again or twice, and requests     *)
(* accepted meanwhile, do not part them.  Excluded are a lease saved from   *)
(* an old copy, a handler interrupted right there, and a move turned back   *)
(* because its folder was deleted.                                          *)
AvailableMeansThere ==
  /\ ~stale /\ ~interrupted /\ Available(row)
  /\ active = Folders
  /\ pc \notin {"save", "deleteRow"}
  => at = row.key

(* What the rest takes for granted: nothing failed, no lease was saved from *)
(* an old copy, the jobs of the file started in the order of the requests,  *)
(* and no job ran twice while a folder was deleted.                         *)
Quiet ==
  /\ troubles = 0 /\ ~stale /\ ~late
  /\ duplicates = 0 \/ active = Folders

(* With no job left, no file is left SYNCING, a state in which it can       *)
(* neither be read nor changed.                                             *)
NobodyLeftSyncing == Quiet /\ Settled => row.status # "SYNCING"

(* With no job left, an ACTIVE file is on the NAS in the folder and under   *)
(* the name the user sees.                                                  *)
ActiveFileInPlace ==
  Quiet /\ Settled /\ file.state = "ACTIVE" /\ row # NoRow
    => at = row.key /\ row.key.dir = file.dir /\ row.key.name = file.name

=============================================================================
