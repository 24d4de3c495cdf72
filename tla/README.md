# Verification of the file server

TLA+ specifications of the file server in `src/`: the modules that model its
core, the TLC configurations that check them on small instances, and proofs
checked by TLAPS.  Paths below are relative to `src/src/` unless they start
with `docs/`.

Reproduce a run with `tlc -config <cfg> <module>` and the proofs with
`tlapm <Module>Proofs.tla`.  `PROJECT.json` lists the runs, the mutants that
show that each property can fail, the source lines of every definition, the
findings, the hazards and the theorems.

## 1. The system

Users' files live on a NAS.  The server keeps rows about them in a database,
a local cache of their contents, and a job queue through which every change of
the NAS is made in the background.

| component | state | operations | talks to |
|---|---|---|---|
| file and folder requests (`business/file`, `business/folder`, `business/trash`) | `files`, `folders`, `file_storage_objects`, `sync_events`, `trash_metadata` rows | rename, move, delete, upload, mkdir, restore, purge: rows and a PENDING event, then a job, then the event saved as QUEUED | database, queue |
| sync-event recovery (`business/sync-event/scheduler`) | none | every five minutes: register PENDING events older than five minutes again | database, queue |
| job queue (`infra/queue/local`, `infra/queue/redis`) | one JSON file per job in `waiting/ active/ delayed/ completed/ failed/`, `activeJobsCount` | add, poll, promote, process, retry, clean up, recover after a restart | workers |
| distributed lock (`infra/queue/local/in-memory-lock.adapter.ts`, Redis) | key to owner and TTL | acquire with timeout, renew, release | workers |
| NAS sync workers (`business/worker`) | in-memory copy of the event and of rows | per job: read event, PROCESSING, NAS operation, rows, DONE / RETRYING / FAILED | queue, lock, NAS, database |
| NAS health (`infra/storage/nas/nas-status-cache.service.ts`, `nas-health-check*`) | healthy / degraded / unhealthy | health check each minute, `markUnhealthy` by a worker | workers |
| downloads and cache (`business/file/file-download.service.ts`, `business/worker/cache-restore.worker.ts`, `business/admin/cache-management.service.ts`) | cache row with status and `leaseCount`, cache file | download with lease, restore from NAS, LRU eviction | queue, lock, cache storage |
| cache storage (`infra/storage/cache/local`, `infra/storage/file-lock.manager.ts`) | files, reader / writer locks per key | read, write, delete | disk |
| multipart upload (`business/file/multipart-upload.service.ts`, orphan cleanup) | upload session, parts | initiate, upload part, complete, abort, expire | cache storage, queue |
| upload queue (`business/file/upload-queue.service.ts`) | tickets in memory, capacity | enqueue, promote, expire | multipart upload |
| shares and requests (`business/external-share`, `business/share-request`, `business/file-action-request`) | shares with limits, requests with a decision, one-time tokens | access, approve, reject, cancel | downloads, file requests |
| authentication (`business/auth`, `business/role`) | refresh-token families, roles | rotate, revoke, decide a permission | database |
| audit (`business/audit`) | buffer of entries | enqueue, flush | database |
| the rest (users, departments, favourites, search, admin reports, SSO, import, controllers) | rows | queries and plain updates | database |

How the parts interact.  Nothing is shared in memory between a request and a
worker (with Redis they are even separate processes, `main-worker.ts`); they
meet in the rows and in the queue.  Every repository `save` writes the whole
row from an entity read earlier, so the last writer wins with whatever it had
read.  The queue is at-least-once.  Locks protect a file among workers, not
between workers and requests; requests use row locks and the SYNCING status.

What is hard.

* Stale saves: two actors hold a copy of one row and both save it.
* Crashes between two writes that belong together: rows and job, job and row,
  new file and old file, content and row.
* Redelivery: a job runs again after its effect, after a newer job, or twice.
* Two retry counters that do not agree (the job's and the event's).
* Polls, crons and TTLs that fire while the last occurrence is still running.
* Leases against eviction, restores against downloads.

What makes each component correct.

* requests, recovery, workers: an accepted operation is carried out or visibly
  refused; DONE and FAILED mean what they say; one handler per file at a time.
* queue: an accepted job is never lost, runs until it succeeds or its attempts
  are used up, never on more slots than configured, once unless a crash
  interfered.
* cache: the only copy of a file is never deleted; a reader never sees half a
  file; a leased file is not evicted; what the row says is on the disk.
* NAS handlers: run again at any time, in any order with newer jobs, they leave
  rows and NAS agreeing.
* uploads: no part forgotten, one completion, no orphan left for ever, limits
  kept, no ticket waiting for ever.
* shares, requests, tokens: limits and single use hold under concurrency; a
  decision is taken once; a revoked family has no live token.

## 2. What is modelled

### SyncOutbox

The path of a file sync event.  `status` and `retryCount` are the row,
`api` the request that created it, `batch` / `readded` the recovery pass,
`jobState` / `attempts` the job, `pc` / `copyRetry` the worker's run and its
copy of the row, `lock` the `file-sync:<fileId>` lock, `nasUp` the health flag,
`gone` says that the target folder or a row the handler needs has been deleted,
`effect` and `turnedBack` what the handlers did.

One action per step between two awaits that another actor can see: the request
(`SaveEvent`, `CommitRequest`, `RollbackRequest`, `RegisterJob`, `SaveQueued`,
`AbandonRequest`), the cron (`RecoverScan`, `RecoverAddJob`, `RecoverSave`,
`RecoverFails`), the run of a job (`StartJob` ... `FailJob`, in the order of
`processFileSyncJob`, the handlers and the lifecycle helper), the environment
(`Age`, `PromoteDelayed`, `WorkerCrash`, `LockExpires`, `HealthCheck`,
`LoseTarget`).
`SaveRow` is the full-row save: every actor saves the values of its own copy.

Abstracted: what a handler does to the NAS and to the other rows is one step,
after which the event is in `effect`, whether the handler does the work or finds
it done (`ApplyToNas`).  A handler that finds no files row or no NAS row, or a move
whose target folder has been deleted, leaves the NAS alone and ends with DONE all
the same (`TurnBack`); a restore that misses its metadata, file or folder ends with
FAILED (`Reject`).  A run that finds the work done and throws instead is among the
errors (`HandlerThrows`), and what the handlers really do is the subject of
`NasFileSync`.  The queue is the directory each job is in, which implements
`JobQueue`; the places where `LocalFileQueueAdapter` falls short of that are the
subject of `LocalFileQueue`.  The request of a purge saves no event and is not here.  The
attempt rule is the local queue's.

### LocalFileQueue and JobQueue

`LocalFileQueueAdapter` on its files.  `file[d][j]` is absent, torn (truncated
by `writeFile` and not yet written) or holds `attemptsMade`.  Every write is
two steps and every move a write and an unlink, each of which another poll, a
crash or the recovery can see.  A write may fail after truncating, which leaves the
file torn, or before the file is opened, which leaves nothing; so may the recovery's
(`RecoverFails`), whose catch block leaves the job in `active/`, where only the next
restart looks.  An unlink does not fail.  Two polls may be under way.  `SlowDisk` says
whether a scan may still be reading directories when the interval timer starts
the next, and the move of a job to `delayed/` outlast the backoff, after which
the job is due; it is FALSE in the runs, which assume that a scan ends within the
three seconds of the interval and a move within the backoff (section 6 says what
happens when they do not).  `Transient` jobs have `removeOnComplete` / `removeOnFail`.  A restart
recovers `active/` before polling starts.

`JobQueue` is what the callers of `addJob` rely on: a job is pending until the
processor has returned for it or thrown more than `maxAttempts` times, and is
then over for good.  `LocalFileQueue` implements it under the mapping
`QueueState` (property `ImplementsJobQueue`).  So do `SyncOutbox` and
`NasFileSync`, which have no more of a queue than a state for each job: what they
assume of it is what the files of the adapter keep, but for the cases of section
6.  In them the answer of the processor and the end of the job are one step
(`Complete`, `GiveUp`).

Left out: pausing, `removeJob` and `cleanQueue`, which nothing in `src/` calls;
adding an id that is already in the queue; a second process on the same
directory.

### CacheLifecycle

The cached copy of one file, from the upload that made it on: downloads
(`download`, `downloadWithRange`, `releaseLease`), restores
(`processCacheRestoreJob`) and the eviction (`performEviction`).  `row` is the
CACHE row (its id, `availabilityStatus`, `leaseCount`) or `NoRow`, `nas` and
`nasLease` the NAS row, `disk` the file, `queued` the job
`cache-restore:<fileId>`, `lock` its distributed lock, and `writing`, the
readers in `"reading"` and `abandoned` the read/write lock of the cache adapter.
`copy`, `nasCopy` and `known` are the entities a download or a restore has read.

The read/write lock is kept in the memory of a process (`FileLockManager`), and the
server runs as one process or as API and worker (`main-worker.ts`), which know
nothing of each other's locks.  `split`, chosen once, says which: with it
`ReadLockFree` and `WriteLockFree` look at the locks of their own side only, and the
sides crash apart (`DownloadsDie`, `JobsDie`).  Downloads are the API's, jobs and the
eviction cron the worker's.  The eviction an administrator starts runs in the API
process; the model has it on the side of the jobs, so that with `split` it covers less
there.

One action per step between two awaits.  A save is an upsert of the whole row by
id from the copy of the caller: it undoes what others saved since, it puts a row
back that the eviction has deleted, and it is refused by the unique index on
`(fileId, storageType)` when another row has taken the place (`CanSave`).  Ids
are taken afresh (`NewRows`) from `RowIds`, so a stale copy never meets a new
row of its own id.  The mark of the eviction is the one atomic UPDATE.  A copy
to the cache truncates the file at its final path, and readers and restores look
at the disk without a lock.

Abstracted: LRU order, sizes and access counts; `download` and
`downloadWithRange` differ only in the range and are one; the loop over
candidates is this file's part of it.  The statement pair of TypeORM's save
(select by id, then update) is one step.  Left out: the second round of an
If-Range mismatch, downloads put together from multipart parts, and jobs that
make the NAS row SYNCING again.

### NasFileSync

One file, from its first synchronisation on: the `files` row (`file`), the NAS
row (`row`: key, SYNCING or AVAILABLE, leases), where the content really is
(`at`), the trash metadata (`metas`), the folders that are not deleted
(`active`) and the jobs of the file with what their data says.  A request
(`RequestRename`, `RequestMove`, `RequestDelete`, `RequestRestore`,
`RequestPurge`, `TrashFolder`) changes rows as the service does and registers a
job; the purge is three steps, because it saves outside a transaction.  Jobs
run one at a time, which is `OneHandlerPerFile` of SyncOutbox, in any order, and
end as `JobQueue` says; a job that is registered again is a job of its own.
A handler goes from step to step (`pc`), one for each await that reads or writes
something of the file, on the copies it has read (`nasCopy`, `fileCopy`); the
steps of the five handlers that do the same are one action.  A download saves
its lease with the whole row it read earlier.

A key is its directory, its prefix and its name, which is what the helpers that
compute keys take apart and put together: the rename target keeps the first
part of the prefix of the old key, the trash adds the id of the metadata and the
restore takes the first part off.  The adapter refuses to move or delete what is
not there, and a move onto its own key, for which it waits for its own lock.

Abstracted: rows of an event (SyncOutbox), retries' waiting times, and several
files (keys of two files differ in their timestamps).  Left out: the upload
handler, the cached copy a purge deletes, a target name that is taken, a file
of another user at the target, and requests on a file without a NAS row.
`MaxRequests` bounds requests and downloads together.

### DistributedLock

One key of `IDistributedLockPort`.  `owner` and `left` are the stored value and
what is left of its TTL, `pc` where each call of `withLock` is, `timer` its
stopwatch (since it asked, or since its lease or interval began), `late` the
calls that have missed a deadline.  `Acquire`, `GiveUp`, `Renew` and `Finish` are
the rounds of `acquire`, the interval of `withLock`, and `release`; `Elapse` is
time, `Stall` a call whose timers or work come too late.  Both adapters run this
protocol; in memory the value dies with the process (`CrashAll`), in Redis it
outlives it (`ProcessDies`).  `Lag` is how late a timer may fire in a call that still
counts as timely.  Left out: the length of the polling interval and errors of
the connection.

### MultipartUpload

One session from its parts to the file on the NAS.  `session` is its row,
`partRows` and `partFile` the rows and files of the parts, `up`, `com`, `abort`
the requests under way with the copy of the session each has read, `cleanup` the
orphan cleanup, `nas` the file that each complete request creates (NAS row,
content, cached copy), `job` its upload job.  Every request saves the whole
session from its copy.  `JobRun`, `JobConcat`, `JobClose`, `JobSweep` are the
handler for multipart uploads; `Recover` is the recovery cron, which registers a
plain upload because the event does not keep the id of the session.  A crash
ends the requests and delivers running jobs again; `UploadTorn` is a stream that
breaks after the file was truncated.

Abstracted: the content of a part is absent, torn or whole, of a file short or
whole.  Left out: several sessions at once (`UploadQueue` counts them), the
`uploadPart` that buffers (nothing calls it), sizes and checksums.

### UploadQueue

Admission.  `sessions` is what the statistics of the database see of a session;
`status` and `waiting` are `ticketMap` and `waitingOrder`, in memory; `asked`
and `promoter` are the requests and the promotions under way.  `checkCapacity`
and the creation of the session are separate steps, and so are the two checks of
`promoteNext`.  `overlap` is history: how many admissions were between check and
creation at once.  A part that arrives late saves a closed session as UPLOADING
(`LatePart`); a restart forgets the tickets.  Left out: the semaphore of the
streams, the estimated waiting times, the TTLs as times (a ticket may expire at
any time).

### Sharing

`request` and `share` are the rows of share requests and public shares, `call`
the commands with what is left to do and the copy of the share read.  The
services open a transaction but hand its query runner to none of their saves, so
each save is an action of its own, and `Fail` takes nothing back.  `CheckShares`
and `CheckPending` are `checkDuplicates` per pair of file and person;
`CreatePublicShare` is a turn of the loop, `SaveRequest` the save after it.
`ReadShare` / `SaveShare` are revoke, block, unblock and access, `BlockAll` the bulk
UPDATEs.  History: `served`, `revoked`, `stale` (saved over a newer row),
`disturbed` (pairs on which two commands overlapped, one stopped half way, or
a share became active again).  Left out: `createPublicShare`, a second way to make
shares with a check of its own, which nothing in `src/` calls; tokens, permissions,
dates and view counts, which only refuse.

### FileActionRequests

Requests about one file.  `request` are their rows, `file` what the service and
the worker do with the file, `call` the commands.  `Create`, `CheckDuplicate`,
`Approve`, `ReadRequest`, `Validate`, `Execute`, `SaveRequest` are the awaits of
the command service; `Execute` is one step because `FileManageService` does it
in a transaction with a row lock.  `ExecuteUnqueued` is an operation that is
committed and whose job cannot be registered.  Others move, trash, restore and
purge the file at any time.  History: `done`, `undone`, `crossed`.  Left out:
permissions and approvers, names taken in the target folder except the file
itself.

### FolderSync

A tree of folders.  `row` and `key` are `folders` and `folder_storage_objects`,
`dirs` the directories of the NAS, `call` the commands, `job` the jobs.  A
command locks the row of its folder when it begins (`BeginRename`, `LockMove`,
`BeginTrash`); the parent and equal names are read before or beside the
transaction.  `Update` stands for its statements: from then on it holds the rows
that the UPDATE of the paths changes, too (`hit`), and the storage row if there is
one (`keyed`), and its event may be saved, on a connection of its own.  `Commit` and
`CommitTrash` make all of it visible.  `CommandFails` and `Crash` before the commit
roll the rows back, but not the event, which stays PENDING and has its job
registered by the recovery (`EventJob`).

`Relocate` is that UPDATE: `REPLACE(path, old, new)` on every row whose path begins
with the old one, the folder's own, saved before, included.  There is no slash behind
the old path, so a sibling whose name begins with the folder's name is hit (`Like`).
The worker moves the directory (`NasStep`), saves the storage row (`SaveKey`) and
updates those below (`SaveKeysBelow`), with a slash in the WHERE (`Under`) and none in
the REPLACE; an error of that is swallowed (`KeysNotSaved`).  What both do depends on
the letters of the names, and a path is therefore a sequence of characters.

History: `torn` (a command used what it had read after it had changed, or a job turned
back a move that was not the last one), `crossed` (a command was accepted next to an
unfinished job or creation, or a failure separated steps that belong together, as when
an event outlives its transaction), `mangled` (REPLACE hit more than the prefix of a
path, or a path that is not below the folder).

Left out: files in folders, restore and purge of a folder (no request registers
their jobs), validity of names, of which only that they have no slash is used
(`IsName`, in the assumption about names and the tree at the beginning).

## 3. Runs

| run | module, cfg | shows |
|---|---|---|
| outbox | MCSyncOutbox | one restore event, two jobs of it (request and cron), one retry, one crash, its folder or rows deleted at any time: the five safety properties; every committed operation settles; refinement of JobQueue |
| queue_one | MCLocalFileQueue, One | one job, two crashes, one failing write, fair: nothing lost, attempts counted, refinement of JobQueue, every accepted job settles unless the queue is jammed or the job stranded |
| queue_two | MCLocalFileQueue, Two | two jobs, one crash, one failing write: slots, active count, single delivery |
| cache | MCCacheLifecycle | one download at a time, two restores, the eviction, one trouble (failed copy, size query or delete, abandoned stream, expired lock, crash), in one process and in two: three invariants, two action properties |
| nas_sync | MCNasFileSync | three requests or downloads of one file with two folders and two names, jobs in any order, one registered twice, one crash or error: three invariants; refinement of JobQueue |
| uploads | MCMultipartUpload | one session of two parts, parts sent in parallel and again, two complete requests, an abort, the recovery and the cleanup, two breaks: two invariants; the session settles |
| upload_queue | MCUploadQueue | three requests of two users for one slot, two promotions under way: two invariants; waiting tickets are served |
| sharing | MCSharing | two share requests with a pair in common, four commands or accesses, one failure: three invariants |
| file_actions | MCFileActionRequests | two requests about one file, four commands, another user, one failure: two invariants |
| folders | MCFolderSync | one folder and one to be created, beside it or in it, three commands, jobs in any order with retries, one failure, rollback or crash: two invariants |
| folder_replace | MCFolderSync, MCFolderReplace.cfg | counterexample (section 6) |
| locks | MCDistributedLock | four calls of withLock for one key, three of them renewing: mutual exclusion; every caller is answered, locks come back |

Properties of SyncOutbox.

* `NoLostOperation`: until it settles, an operation has a PENDING row or a job
  the queue still holds.
* `DoneUnlessGone`: DONE implies that the NAS operation was carried out, or that the
  target folder or a row it needs had been deleted.
* `OneHandlerPerFile`: two runs are never inside handlers of one file.
* `FailedOnlyAfterBudget`: FAILED implies a refusal or more than `maxRetries`
  errors, though duplicates, crashes and stale saves touch the counter.
* `CrashesAreNotAttempts`: attempts are exactly the failed runs.
* `EveryOperationSettles` (liveness).
* `ImplementsJobQueue`: the jobs keep the promise of `addJob`; none is forgotten,
  given up early or run again after its end.

Properties of LocalFileQueue: `NoJobLost`, `FailedAfterAttempts`,
`ConcurrencyRespected`, `CountFollowsRuns`, `OnceUnlessCrashed`,
`ImplementsJobQueue`, `EveryJobSettles` (liveness); their comments say what each
is about.  `EveryJobSettles` names the two ways in which a job waits for a restart:
the queue is `Jammed` (a torn file in `delayed/` or `waiting/`, or slots that failed
moves to `active/` leaked), or the job is `Stranded`: whole, alone in `active/`, after
a write that failed (the move out in the catch block, or the recovery).  A crash
alone strands nothing.  `CountFollowsRuns` bounds the active count from both sides:
never fewer than the processor calls under way, and no more than the runs that have
read their job plus one per failed write.  `NoJobLost` is promised on a disk that is not slow, to a queue with
one slot or before the first crash: elsewhere jobs do get lost (section 6).

Properties of CacheLifecycle.

* `ContentNeverLost`: the content is on the NAS or whole in the cache.
* `StreamsUndisturbed`: in one process, nobody truncates, replaces or unlinks a file
  under an open stream.
* `NoPartialRead`: in one process, nobody streams a partial file unless a copy or a
  delete failed or the process died.
* `EvictingIsTransient`: no stale save brings EVICTING back.
* `WholeFileKept`: a whole file is copied over again only after a lock expired.

A lease neither protects a stream nor is needed to: the lock of the adapter
does, in one process.  With API and worker apart nothing does; the other three
properties hold there, too.  A lease does not keep the eviction away, and leases are
not always returned (section 6).  A cached file with a crash in the middle of its restore stays partial
and is served; `NoPartialRead` excludes exactly that.

Properties of NasFileSync.

* `AvailableMeansThere`: an AVAILABLE row names the key under which the content
  is, whatever jobs run late, again or twice.  Not when a lease was saved from an
  old copy, a handler was interrupted between the NAS and its row, or a folder
  was deleted (a move turned back takes the key it had read).
* `NobodyLeftSyncing`, `ActiveFileInPlace`: when all jobs are over, the file is
  not left SYNCING, and an ACTIVE file is in the folder and under the name the
  user sees.  Both take for granted that the jobs started in the order of
  their requests and that nothing failed (`Quiet`).
* `ImplementsJobQueue`: as in SyncOutbox, for the jobs of one file.

What `Quiet` excludes are the ways in which the protocol breaks, each of them a
behaviour of the model: a rename that runs after a newer rename throws, or undoes
it if it runs again; a trash job that runs after its restore moves an ACTIVE file
to the trash; a stale lease puts an old key or SYNCING back; a job of a deleted
folder that runs twice reverts what was asked later.  The queue gives no order:
a retry waits while a later job of the same file runs.  Nor does a restore change
the status, so a second restore or a purge is accepted while it is pending; a
purge then leaves the file DELETED or brings it back, in either case without a
SYNCING row.  The job of a purge always throws at `permanentDelete`, after it has
deleted content and row.

Properties of MultipartUpload.

* `AvailableMeansWhole`: a file that is AVAILABLE was copied from every part,
  unless a stored part was overwritten or removed before: a second job of the
  session never passes off as whole what the first has left.
* `ClosedSessionHasFile`: COMPLETING and COMPLETED name a committed file, and
  COMPLETED means that it is on the NAS and in the cache, though stale copies of
  the row are saved over one another.
* `SessionSettles` (liveness): the session ends COMPLETED or deleted, also when
  its job gave up or a crash made it skip the closing.

Properties of UploadQueue.

* `WaitingOrderMatchesMap`: list and map agree whatever polls, promotions,
  cancellations and expiries overlap.
* `LimitExceededOnlyByOverlap`: sessions exceed the limit by no more than the
  admissions that were between check and creation together.
* `WaitingServed` (liveness): with a user limit that waiting tickets do not
  reach, no ticket waits for ever.

Properties of Sharing.

* `ApprovedHasItsShares`: an APPROVED request lists one existing share for each
  of its pairs, though no transaction holds them together.
* `OneActiveShare`: a pair has at most one active share and an approval behind
  it, unless it was disturbed.
* `FreshRowIsRight`: a share whose row was never saved over a newer one counts
  what it served, keeps its limit and stays revoked.

Properties of FileActionRequests.

* `ExecutedOnce`: the operation of a request is carried out once at most unless
  somebody has taken it back, though two approvals both find it decidable.
* `StatusIsTrue`: EXECUTED is claimed of nothing that was not carried out; what
  was carried out shows another status only while its command is under way or
  when commands crossed.

Properties of FolderSync.

* `TreeMatchesPaths`: an active folder has the path of its parent and its
  name, an active parent, and a path of its own, whatever is rolled back or fails
  (unless `torn` or `mangled`).
* `FolderIsWherePathSays`: when the jobs that lead to a folder's path are over,
  its storage row is AVAILABLE with that path and the directory is there
  (unless `torn`, `mangled` or `crossed`).
* `OnlyPathsBelowChange`, the first without the exclusion of `mangled`, does not hold
  (section 6).

Properties of DistributedLock.

* `MutualExclusion`: two calls work together only if one of them is late.
* `EveryCallAnswered` (liveness): also behind a function that never returns.
* `LockComesBack` (liveness): the lock of a dead process frees itself.

The exclusions in these properties (`disturbed`, `stale`, `crossed`, `torn`) are
history variables that the actions set where the code loses the promise;
section 6 lists the most telling cases.

Bounds and why they are enough.  An event needs two jobs for every duplication
the code can produce at a time (request and cron); a third adds another copy of
the second.  `MaxRetries` and `MaxAttempts` of 0 and 1 put both counters below,
at and above their limits; the code's 3 only makes the same cycle longer, and
the theorems hold for every value.  One crash can hit each pair of writes; the
queue is given two, so that one hits the recovery of the other.  Two polls are
what a timer can overlap with; two jobs are what a slot can be given out twice
for.  One failing write reaches every error path, in the queue of two jobs as well.  In CacheLifecycle two
restores are one that outlived its lock and the next; one trouble reaches every
error path, and the proofs cover any number of troubles, downloads and restores.
`MaxLease` stops new downloads that read a count at the bound.  `RowIds` has an
id for each party that can hold a copy.  In NasFileSync three requests are a
change, a second one whose job overtakes or repeats the first, and a
third that undoes either; five were tried without duplicates and troubles, with
the same result.  One duplicate and one trouble can meet every step of every
handler; `MaxAttempts` is 0, so that an error leaves its mess behind at once.
In MultipartUpload two parts of which one is stored are enough for one that is
forgotten and one that is sent again; two complete requests pass the checks
together; two breaks are a failed registration and a crash.  Three of the
requests are used (`MaxRequests`), in any mixture.  In UploadQueue one slot and
three requests make one session, one ticket that is promoted and one behind it;
two promoters race for one ticket; one request fills the byte limit alone.  In Sharing and FileActionRequests four commands are two that cross,
what they decide about and one that uses the result; one trouble is one half
done.  In FolderSync three commands are two that cross and one that meets their
jobs; one folder is there and one is created, so that either can be moved into
the other, be carried along by it or lose its target; one of the two new names
begins with the name of the first folder; the one trouble is a rollback, a failed step or
a crash, and a job that is delivered again after it fails twice by itself when its
directory has moved already, so that retries and their end are reached.
In DistributedLock four calls are a holder, a late one and two that wait; TTL, interval and lag are the smallest that differ and leave time for
a renewal.

Fairness and why the code justifies it.  Weak fairness of a request, a cron
pass or a run: each is a promise whose awaited calls return or throw.  Weak
fairness of starting and promoting: the interval timer.  Strong fairness of the
recovery's `addJob` only: a pass that fails is repeated every five minutes and
the write does not fail for ever.  In LocalFileQueue strong fairness of
promoting a job: its `scheduledAt` is in the past from some time on, so polls
cannot skip it for ever.  Nothing is assumed about the NAS getting healthy: an
outage that lasts uses up the attempts, which is one of the ways to settle.
MultipartUpload needs only the clock and the cleanup cron.  UploadQueue assumes
that calls under way return, that `promoteNext` is called (a cron, every 30
seconds), that sessions end (each has an expiry), and that tickets that are
READY expire (the cron again).  DistributedLock assumes time, timers and polls; of the functions
it runs only that those without renewal return.

Deadlock is checked in outbox, queue_one, queue_two and cache: NAS health can
always change, a poll can always start, an eviction may find nothing to do.  In
the others everything rests once the requests are used up and the jobs are over,
and their cfgs switch the check off.

## 4. Proofs

All theorems hold for every value of the constants under the named assumption of
the module, and for any number of requests, jobs, troubles and crashes.  None of
the properties is inductive alone; each module has an `IndInv` of named parts,
one lemma per part or per group of actions,
and a last step that combines them.  The queue calls it `QueueInv`, the lock
`LockInv`, the upload queue `CountInv` and `TicketInv`, the folders `TypeInv`,
`Known`, `Working`, `TreeInv` and `SyncInv`.

`SyncOutboxProofs` (from `OutboxAssumption`): `TypeCorrect`,
`OperationsAreNotLost`, `HandlersExclude`, `DoneIsEarned`,
`FailuresAreEarned`, `CrashesAreFree`, `AttemptsWithinBudget`,
`OutboxQueueRefines`.  `IndInv` adds: a run that is under
way belongs to an active job (`RunIsActive`); a run between acquiring and
releasing holds the lock (`HolderHasLock`), which gives mutual exclusion; a run
past the NAS operation has its event in `effect` or turned it back
(`ProgressHasEffect`), the latter only for something that is `gone`
(`TurnedBackIsGone`), which is what a save of DONE relies on; an event that was registered, or whose row
has left PENDING, has a job that is not `none` (`RegisteredHasJob`), which is
what makes every stale save of QUEUED harmless; and the retries in a row or in
a copy of it never exceed the errors thrown (`CountsAreThrows`).  The proof splits Next into steps of
the outside (requests, cron, clock, environment), which leave runs alone
(`OutsideStep`), steps of a single run, one lemma per conjunct, and the crash.
`OutboxQueueRefines` (property `ImplementsJobQueue`) sorts the steps by what they
do to the jobs (`QueueWriters`); a step that leaves every job in its state, as the
queue sees it, is a stutter (`QueueStutters`).  What takes an argument is the end
of a run: the rule of the adapter looks at the attempts, `JobQueue` at the errors.
They are the same number (`CrashesAreNotAttempts`), and it never exceeds
`maxAttempts` before the last run (`AttemptLeft`).

`CacheLifecycleProofs` (from `CacheAssumption`): every property of the run
cache: `TypeCorrect`, `ContentIsKept`,
`StreamsAreWhole`, `EvictingEnds`, `OpenFilesAreKept`, `WholeFileIsKept`, the two
about streams for one process and the others for both deployments.  Its
`IndInv` says how the mechanisms carry them.  `WriterExcludes`: the restore that
copies is the writer, and in one process it excludes open streams, which keep the
file in place.  `QuietUntilSynced`: until the NAS has the content nobody else works on
the file, which is why the eviction's NAS condition suffices although it is read
long before the unlink.  `RestoreExclusive`: while no lock expired one restore
runs, and the file it found absent is still absent when it copies.
`PartialIsBeingWritten`: a partial file has a writer unless something failed.
`NoEvictingCopy`: a row in EVICTING holds no lease, and a copy that is saved was
repaired first or read with a lease, so none says EVICTING.  For the types the
counts are what takes an argument: a copy with which a lease is still to be taken
was read below the bound (`LeasesBounded`), whoever has saved the row since, and
every way to break something is counted once (`TroublesBounded`).

`NasFileSyncProofs` (from `NasAssumption`): `TypeCorrect`,
`ContentIsWhereRowSays` (`AvailableMeansThere`), `NobodyIsLeftSyncing`,
`FilesEndInPlace` (`ActiveFileInPlace`) and `FileQueueRefines`
(`ImplementsJobQueue`).  Its `IndInv` has `Books` (the
running job is active and
a job that can run has attempts left), `Asked` (a lease or a metadata row
was asked for, and a lease is returned only by a copy that has one) and `Data` for
the types; and `SavedNext` (between the move and the save the content is at the
target, which the job and the copy of the row fix) with `TurnedBack` (a move is
turned back only when a folder was deleted) for the place of the content.  Each
way in which a step can treat the jobs has a lemma (`AppendBooks`, `GoToBooks`,
`FinishBooks`, `ThrowBooks`, `StartBooks`, `CrashBooks`); keys and rows have
theirs (`PathTypes`, `RowUpdates`).

`NobodyIsLeftSyncing` and `FilesEndInPlace` say something of the end only, and
need `SettleInv` for the way there.  TLC checked it, as an invariant of `nas_sync` with other bounds
(four requests and two jobs added, five requests and one), before it was proved.

* `Order`: one job is active, no job was asked for in the future, a restore comes
  after its trash, jobs of one event (`Twins`) are alike, and while nothing is
  `late` the jobs of requests after the running one wait.  `Places`: which steps
  a handler of each kind takes, and where it has found a row.
* `Calm` is `Quiet` of a file whose row exists, without a job that was overtaken
  for good.  Calm at the end means calm all the time (`CalmBefore`), so the rest,
  `InStep`, is only claimed of calm states.
* `SyncingIsCarried`: a SYNCING row has a job that `Carries` it: that of the last
  request of a change of place, still to be run, with the content at its source
  and row and file as its request has left them.  Else the row is `Doomed`: the
  move was into a folder deleted since, the file is DELETED, and a purge is on
  its way.
* `MovesAreUseful`: any other move that is left is `Spent`: the twin has done the
  work, and this one will find it done.
* `AvailableIsRight`, `MetaOfTrashed`: what an AVAILABLE row and the metadata say
  when nobody carries the row.
* `RestoreIsRight`, `MoveIsRight`: what a handler holds in its copies is still so
  when it uses them.  A restore that moves the content finds no move left: it
  would have been overtaken.

Steps that leave row, content and moves alone are done once (`BystanderStep`, `GoOn`,
`EndSettles`); a request of a change of place makes the next carrier
(`NewMoveSettles`).  When every job is over nobody carries the row and no purge is
on its way, so it is not SYNCING (`SettledFacts`).

`FileQueueRefines` needs that there are enough job numbers: every job was asked
for or is a duplicate, and a purge under way is asked for and has no job yet
(`JobsCounted`).  Then a step registers a job (`RegisterAdds`), ends an attempt
(`FinishCompletes`, `ThrowThrows`), or leaves the jobs as the queue sees them.

`WorkerInfraProofs`, first part (from `LocalQueueAssumption`):
`QueueTypeCorrect`, `FailsAfterAttempts`, `CountIsEnough`, `ConcurrencyHolds`,
`JobsAreKept`, `JobsRunOnce`, and `QueueRefines`, all from `QueueInductive`.
`QueueInv` is built in layers, each of which the next needs.

* `Bounds`: a file that will be picked has an attempt left, a move has a
  subject, a run that leaves has somewhere to go.
* `Earned`: the attempts a file, a move or a run remembers were errors thrown,
  unless a write failed; this is `FailsAfterAttempts`.
* `Quiet` and `OneScan`: nothing is polled during the recovery, and scans do not
  overlap on a disk that is not slow.
* `Counted` and `SlotsLeft`: the count covers the runs that have read their job and
  exceeds them by no more than the writes that failed, and a scan gives out only what was free when it counted; together the limit.
* `New`: nothing holds a job that `addJob` has not finished.
* `OnePlace`, before the first crash: outside a move under way a job has one file
  it would be run from.  After a crash it may have two.
* `Alone`: a job is in one run at a time, since it has one place or there is one
  slot.
* `Guarded`: before each unlink and each truncation there is another readable
  file of the job, one guard for each kind of move.  `NothingLost` follows.
* `Over`, before the first crash and failed write: a job that has returned is
  nowhere but on its way to `completed/`.

`QueueRefines` maps each step to one of `JobQueue` or to none.  It and
`JobsAreKept` need `~SlowDisk` and one slot or no crash, because without them
the code does lose jobs (section 6); both hold for any number of jobs, polls,
crashes (with one slot) and failed writes.

`WorkerInfraProofs`, second part (from `LockAssumption`, whose conjunct
`RenewEvery + Lag < TTL` is what the protocol needs of its options):
`LockTypesCorrect`, `TimelyHolds`, `LocksExclude`.  `Timely`: the value stored is that of a call
at work that is not late, and what is left of its lease covers what is left
until its deadline; of two calls at work the other is therefore late.

`UploadProofs`, first part (from `UploadAssumption`): `TypeCorrect`,
`AvailableIsWhole`, `ClosedSessionIsRight`.  Whatever a copy of the session
says, the row may say later, so the facts are stated of the row and of every
copy of it: a file that is named was committed, COMPLETED names a file that is
available and cached.  Files only advance, so a copy never becomes untrue.  While
nothing was disturbed every row of a part has its whole file, which is what
the first run of the job copies; the removal of the parts comes after it, when
the second job finds the files missing and throws.

`UploadProofs`, second part (from `QueueAssumption`): `QueueTypeCorrect`, `LimitHolds`,
`ListFollowsMap`.  An admission counts
itself when it passes the check and hands its place to the session it creates:
sessions and admissions together never exceed the limit plus `overlap`.  The list and the map agree because the list has no ticket twice
(`DistinctLength` gives it its bound), a ticket is pushed as it becomes WAITING,
and whoever takes its status away takes its first and only occurrence out of the
list (`SpliceFacts`, `AppendFacts`), whichever promotions hold the ticket.

`SharingProofs` (from `SharingAssumption`): `TypeCorrect`, `ApprovalIsComplete`,
`FreshRowsAreRight`, `PairsHaveOneShare`.  A command knows which pairs it has made shares for
(`Knows`): those it has left and those it has made are the pairs of its request.
A share that does not exist has served nobody (`Unborn`), and shares
are never deleted (`Grown`), so that what a request lists stays there.  For the
last theorem `Undisturbed` adds, for each pair that nothing has disturbed
(`PairInv`): one command at most handles it; a command that has looked for
its active shares and pending requests and found none has made what is
there now (`Careful`); while a request for the pair waits, whoever has an active share of
it still holds that share unsaved.

`FileActionRequestsProofs` (from `RequestAssumption`): `TypeCorrect`,
`OperationsHappenOnce`, `StatusesAreTrue`.  While nobody has taken it back the file is
where the operation has put it, so that a second execution is refused
(`Effective`); rows and copies keep the target they were made with (`Copies`,
`Fresh`); unless commands crossed one command alone decides a request (`Alone`),
and EXECUTED, in a row or in a copy, was earned (`ClaimsTrue`).

`FolderSyncProofs` (from `FolderAssumption` and `TreeAssumption`: names have no
slash, and the tree at the beginning is one): `TypeCorrect`, `TreeHolds`
(`TreeMatchesPaths`) and `FoldersAreInPlace` (`FolderIsWherePathSays`).  The
module begins with lemmas about paths, element by element: a path has one last name (`BelowSplits`), `Dirname` finds the parent
(`DirnameOfBelow`), what is under a directory is in it or under it
(`UnderBelow`), and moving a directory keeps paths apart and commutes with going
down in it (`RebasedInjective`, `RebasedBelow`).  What SQL's `REPLACE` computes
is not needed: while it has hit only the prefix the paths are `Rebased`.  `CommitDoes`
says it from there, and `CommitMoves` that a commit which is not torn has rebased all
rows below.  `Known` is what commands and jobs may rely on: the row of a
transaction is its own, neither the row nor among the rows hit of another
(`LockHeld`, `LockedRow`), a folder to be created has no row, the target of a move is
not brought back.  The tree is then kept by the three ways to change
it, each a lemma about any rows: `TreeGrows`, `TreeShrinks` and `TreeMoves`.  The
last needs that nothing is at the new path or below it already: a path that leads to
a folder is the path of a folder (`Descent`, by the least length), and that
folder would have the name that was found free.

`FoldersAreInPlace` speaks of settled folders, and needs `Sync` for the way there:
where the directory and the storage row of every folder are while commands and jobs
are under way.  TLC checked it first, as an invariant of the run
`folders`.  It is claimed while nothing is torn, mangled or crossed (`SyncInv`).

* `Working`: one call creates a folder, a job is registered as its call ends, and a
  transaction that is not crossed has the storage row of its folder (`AllKeyed`).
* `JobsApart` and `JobShapes`: of the paths of two unfinished jobs none is in the
  other, and neither are the old and the new path of one.  Two directories that a
  path is in are not apart (`ApartFacts`), so a step of one job is out of reach of
  the folders of another.
* `JobRows`: the folder of a job is where the job leads, and SYNCING until the job
  has saved it; the directory is there when the job says so.
* `Vacated` and `NothingInNew`: no folder is left where a job moves a directory
  from, and a new folder has nothing below it.
* `Carried`: the storage rows of the folders below one that moves say where they
  were before (`Before`), and so do their directories until the move on the NAS.
  Moving them back gives what they say (`RebasedBack`): that is why the one UPDATE
  of `SaveKeysBelow` puts all of them right.
* `Makings`: the storage row of a new folder says its path, unless the folder above
  it is new, too: then its event will be crossed, for that folder's is unfinished.
* `FreeInPlace`: a folder that no unfinished job is about is in its place.

A rename or a move finds its folder free, since it is not crossed, and hence with all
that is below it in place: so `Carried` holds of the job it registers
(`CommitSync`).  The job's move on the NAS (`MovedSync`), its save (`SaveKeySync`) and
the save of the storage rows below (`SaveKeysBelowSync`) bring them along; what is
made after that is free again.  A failed step and a crash leave `Sync` alone
(`StepSync`, `CrashSync`), because every step of a job that ran before them can run
again.  No job turns back (`NoRevert`): the target of a folder that is active is active.

Only model-checked: every liveness property, which is
out of the prover's reach here, as is `ENABLED`.  Only proved: the type invariants,
but for the queue's, which `queue_one` checks too; and `AttemptLeft`, without which
the refinement of the outbox is not inductive.

## 5. Not modelled

* Search, admin reports, lists and statistics: queries that change nothing.
* Users, departments, favourites: single rows created, changed and deleted
  without a protocol between actors.
* Roles and permissions: decisions on one request.  Refresh tokens: handling
  of credentials.
* Audit: entries are buffered and stored, nothing else reads them.
* The HTTP interface, single sign-on and the import of the organisation:
  translation between formats and services outside the repository.
* The upload of a file that is not multipart: its job is the plain one of
  `MultipartUpload`, whose content is a file written before any row.
* Restore and purge of folders, whose handlers have no producer but the
  recovery cron; lists and emptying of the trash, a loop over the purge that
  `NasFileSync` has.
* How the NAS health is found out: in `SyncOutbox` it is any change at any time.
* Locks of two keys of the file lock manager (the error of a move onto its own
  key is in `NasFileSync`), an id added to the local queue that is in it
  already, pausing and cleaning the queue, which nothing calls.
* The Bull adapter, which passes calls to an external queue.
* The parsing of ranges: a function of one header without state.

Within the modelled components the paragraphs "Left out" of section 2 say what
is missing.

## 6. Findings

`OnlyPathsBelowChange` (folder_replace): a rename or a move updates the paths of the
folders below with `REPLACE(path, old, new)` on every row `LIKE 'old%'`
(`folder.repository.ts:186`), and is called without a slash behind the paths
(`folder-command.service.ts:234`, `:359`), while `folder-domain.service.ts:411` says
that the paths of the folders below are updated.  With folders `/a` and `/ab`,
renaming `/a` to `/x` gives the row of `/ab` the path `/xb`; its name, its parent, its
storage row and its directory stay as they are, and no job is registered for it.

Seen while modelling, and without a run of their own.  Queue and workers:

* The request saves QUEUED from the copy it made before the worker ran, over
  DONE or FAILED (`file-manage.service.ts:177`, `sync-event.entity.ts:40`).
* The event is saved outside the transaction of its request
  (`file-manage.service.ts:148`): the recovery carries out what was rolled back
  (`RollbackRequest`).
* An outage at every attempt ends with the job in `failed/` and the event QUEUED
  (`nas-file-sync.worker.ts:234`).
* A job whose move out of `active/` fails in the catch block, or whose recovery fails,
  stays in `active/` until the next restart (`local-file-queue.adapter.ts:219`,
  `Stranded`); a failed move into `active/` costs the queue a slot (`:457`, `Jammed`).
* A truncated file in `delayed/` stops the local queue
  (`local-file-queue.adapter.ts:261`); if a scan outlasts the interval, two
  polls pick one job (`:395`, `SlowDisk`).
* With two slots or more the local queue can lose a job to two crashes: the first
  between the write to `delayed/` and the unlink in `active/`
  (`local-file-queue.adapter.ts:316`) leaves two files, both are run,
  each run unlinks and truncates the other's, and the second crash finds none
  that is whole.  One slot runs them one after the other.
* The test by which a handler finds its move already made looks for an error
  code the adapter never sets (`file-trash.handler.ts:57`, the same in rename,
  move, restore and in the folder handlers).
* A job is not told that its lock was lost (`in-memory-lock.adapter.ts:147`).

Cache: a lease is saved over the mark EVICTING (`file-download.service.ts:249`),
and a 416 answer drops the stream it has opened and its lease (`:513`).  With API and
worker apart (`main-worker.ts:4`) the file locks, which live in a process
(`file-lock.manager.ts:21`), keep nobody away from the other side: the eviction and a
failed restore unlink a file that is being streamed, a restore truncates one, and a
download opens a copy that is half made; the lease does not stop any of them.

Uploads:

* A part that is saved late puts an aborted or expired session back to
  UPLOADING (`multipart-upload.service.ts:329`).
* Two complete requests may both pass the checks; the second file stays SYNCING
  or its job fails.
* A multipart upload whose registration failed never succeeds: the recovery
  forgets the session and looks for a cached file.
* Waiting tickets count towards the user limit (`upload-queue.service.ts:517`),
  sessions without a ticket do not; a ticket cancelled while it is promoted leaves
  a session nobody uses.

Shares and requests:

* Blocking or revoking is undone by an access that read the row before
  (`external-share-access.service.ts:263`); counts are lost in the same way.
* Transactions enclose none of the saves (`share-request-command.service.ts:222`), and
  `bulkApprove` finds its own PENDING request among the duplicates, so it never succeeds.
* A file operation whose job cannot be registered is reported FAILED though it
  is committed; a late approval overwrites EXECUTED with FAILED
  (`file-action-request-command.service.ts:137`).

Folders:

* The same UPDATE changes the folder's own row, saved before it: renaming `/a` to `/ab`
  leaves the path `/abb`.  It replaces every occurrence of the old path: renaming `/a`
  to `/x` turns the folder `/a/ab` into `/x/xb`, and its storage row as well
  (`folder-storage-object.repository.ts:122`), while the directory is `/x/ab`.
* The event is saved outside the transaction (`folder-command.service.ts:260`, `:383`,
  `:510`): when the commit fails the recovery moves the directory and saves the storage
  row of a folder whose row has stayed where it was.
* Two moves at once can put two folders below each other
  (`folder-command.service.ts:334`).
* A move that is turned back leaves the paths below the folder, and its key, as the move
  made them; a crash between the two saves of the worker is not repaired
  (`folder-rename.handler.ts:61`).
* The job of a move whose target has been deleted puts the folder back under its old
  parent without asking whether that parent is active and whether the folder has been
  moved again since.  Move `/c/d` to `/a`, let the worker die after the storage row
  is saved, move it on to `/b`, delete `/a` and `/c`: the job that is delivered again
  hangs the folder under the deleted `/c` (`folder-move.handler.ts:54`).
* The 409 for a folder that is SYNCING looks at the folder only, not at those above
  or below it; a folder is open to commands before its own creation has saved the storage row.
