----------------------------- MODULE SyncOutbox -----------------------------
(***************************************************************************)
(* The path of a NAS synchronisation event through the server.             *)
(*                                                                         *)
(* A file request (rename, move, delete, restore) saves a sync_events row  *)
(* in state PENDING, commits its own rows, then registers a job in the job *)
(* queue, then saves the event again as QUEUED.  A worker runs the job     *)
(* under a per-file lock: it reads the row, saves PROCESSING, performs the *)
(* NAS operation and saves DONE, or counts a retry.  A cron job            *)
(* re-registers events that are still PENDING after five minutes.          *)
(* Every save writes the whole row from an in-memory copy, so a save made  *)
(* from an old copy overwrites what others wrote since.                    *)
(*                                                                         *)
(* Abstracted: what the NAS operation does (module NasFileSync refines     *)
(* it); here it either happened (effect) or the handler ended without it,  *)
(* because a row or the target folder it needs is gone (turnedBack).       *)
(***************************************************************************)
EXTENDS Naturals

CONSTANTS
  Events,       \* sync events, one per request
  Restores,     \* those of restore requests
  Files,        \* files the events are about
  FileOf,       \* the file of each event
  Jobs,         \* job identities the queue may ever use (bound)
  EventOf,      \* the event a job was created for (its syncEventId)
  MaxRetries,   \* SyncEventEntity.maxRetries (3)
  MaxAttempts,  \* defaultMaxAttempts of the local queue (3)
  MaxCrashes,   \* bound on worker process crashes
  NoJob,        \* "nobody holds the lock"
  Orphan        \* "held by a process that died; its TTL is running"

ASSUME OutboxAssumption ==
  /\ Restores \subseteq Events
  /\ FileOf \in [Events -> Files]
  /\ EventOf \in [Jobs -> Events]
  /\ MaxRetries \in Nat
  /\ MaxAttempts \in Nat
  /\ MaxCrashes \in Nat
  /\ NoJob \notin Jobs
  /\ Orphan \notin Jobs
  /\ NoJob # Orphan

VARIABLES
  status,      \* sync_events.status of each event, "ABSENT" before it is saved
  retryCount,  \* sync_events.retryCount
  aged,        \* events whose createdAt is past the five-minute cutoff
  api,         \* progress of the request that created the event
  batch,       \* events the recovery cron read and has not handled yet
  readded,     \* events of batch re-registered but not yet saved (at most one)
  jobState,    \* directory (state) of each job in the queue
  attempts,    \* attemptsMade of each job
  pc,          \* where the worker is in a job's processor
  copyRetry,   \* retryCount in the worker's copy of the row, 0 after its last save
  lock,        \* holder of the file-sync:<fileId> lock
  nasUp,       \* NasStatusCacheService.isAvailable()
  effect,      \* events whose NAS operation has been carried out
  gone,        \* events whose target folder, NAS row, files row or trash
               \* metadata has been deleted since the request
  turnedBack,  \* events a handler ended normally without the NAS operation
  crashes,     \* worker crashes so far
  failedRuns,  \* history: runs of each job that ended with an error
  throws       \* history: errors thrown inside a handler, up to MaxRetries + 1

apiVars   == <<aged, api>>
cronVars  == <<batch, readded>>
rowVars   == <<status, retryCount>>
queueVars == <<jobState, attempts, failedRuns>>
runVars   == <<pc, copyRetry>>
worldVars == <<nasUp, effect, gone, turnedBack, crashes, throws>>
vars == <<status, retryCount, aged, api, batch, readded, jobState, attempts,
          pc, copyRetry, lock, nasUp, effect, gone, turnedBack, crashes,
          failedRuns, throws>>

Statuses == {"ABSENT", "PENDING", "QUEUED", "RETRYING", "PROCESSING", "DONE",
             "FAILED"}
ApiSteps == {"idle", "saved", "committed", "registered", "over", "rolledback"}
JobStates == {"none", "waiting", "active", "delayed", "completed", "failed"}
RunSteps == {"idle", "starting", "locking", "locked", "read", "processing",
             "applied", "catching", "returning", "throwing", "ok", "error"}

(* The steps of a run between acquiring and releasing the file lock. *)
Locked == {"locked", "read", "processing", "applied", "catching", "returning",
           "throwing"}

FileOfJob(j) == FileOf[EventOf[j]]
Exists(e) == status[e] # "ABSENT"
Settled(e) == e \in effect \/ e \in turnedBack
Live(j) == jobState[j] \in {"waiting", "active", "delayed"}

TypeOK ==
  /\ status \in [Events -> Statuses]
  /\ retryCount \in [Events -> 0..MaxRetries]
  /\ aged \subseteq Events
  /\ api \in [Events -> ApiSteps]
  /\ batch \subseteq Events
  /\ readded \subseteq Events
  /\ jobState \in [Jobs -> JobStates]
  /\ attempts \in [Jobs -> Nat]
  /\ pc \in [Jobs -> RunSteps]
  /\ copyRetry \in [Jobs -> 0..MaxRetries]
  /\ lock \in [Files -> Jobs \cup {NoJob, Orphan}]
  /\ nasUp \in BOOLEAN
  /\ effect \subseteq Events
  /\ gone \subseteq Events
  /\ turnedBack \subseteq Events
  /\ crashes \in Nat
  /\ failedRuns \in [Jobs -> Nat]
  /\ throws \in [Events -> Nat]

Init ==
  /\ status = [e \in Events |-> "ABSENT"]
  /\ retryCount = [e \in Events |-> 0]
  /\ aged = {}
  /\ api = [e \in Events |-> "idle"]
  /\ batch = {}
  /\ readded = {}
  /\ jobState = [j \in Jobs |-> "none"]
  /\ attempts = [j \in Jobs |-> 0]
  /\ pc = [j \in Jobs |-> "idle"]
  /\ copyRetry = [j \in Jobs |-> 0]
  /\ lock = [f \in Files |-> NoJob]
  /\ nasUp = TRUE
  /\ effect = {}
  /\ gone = {}
  /\ turnedBack = {}
  /\ crashes = 0
  /\ failedRuns = [j \in Jobs |-> 0]
  /\ throws = [e \in Events |-> 0]

(* A full-row save of event e from an in-memory entity. *)
SaveRow(e, s, r) ==
  /\ status' = [status EXCEPT ![e] = s]
  /\ retryCount' = [retryCount EXCEPT ![e] = r]

(* IJobQueuePort.addJob: a new waiting job for event e. *)
AddJob(e, j) ==
  /\ EventOf[j] = e
  /\ jobState[j] = "none"
  /\ jobState' = [jobState EXCEPT ![j] = "waiting"]
  /\ UNCHANGED <<attempts, failedRuns>>

-----------------------------------------------------------------------------
(* The request: FileManageService.rename / move / delete, executeRestore.   *)

(* The file's NAS row, as another request finds it: locked by a request     *)
(* that has not committed, or SYNCING until the operation is in place or    *)
(* has been turned back.                                                    *)
FileSyncing(f) ==
  \E e \in Events :
    /\ FileOf[e] = f
    /\ \/ api[e] = "saved"
       \/ api[e] \in {"committed", "registered", "over"} /\ ~Settled(e)

(* The event is saved in a transaction of its own; a rename, move or delete *)
(* of a SYNCING file has been refused with 409 by now.                      *)
SaveEvent(e) ==
  /\ api[e] = "idle"
  /\ e \in Restores \/ ~FileSyncing(FileOf[e])
  /\ api' = [api EXCEPT ![e] = "saved"]
  /\ SaveRow(e, "PENDING", 0)
  /\ UNCHANGED <<aged, cronVars, queueVars, runVars, lock, worldVars>>

(* commitTransaction: the request's own rows become visible. *)
CommitRequest(e) ==
  /\ api[e] = "saved"
  /\ api' = [api EXCEPT ![e] = "committed"]
  /\ UNCHANGED <<rowVars, aged, cronVars, queueVars, runVars, lock, worldVars>>

(* The commit fails or the process dies before it; the event row stays. *)
RollbackRequest(e) ==
  /\ api[e] = "saved"
  /\ api' = [api EXCEPT ![e] = "rolledback"]
  /\ UNCHANGED <<rowVars, aged, cronVars, queueVars, runVars, lock, worldVars>>

RegisterJob(e, j) ==
  /\ api[e] = "committed"
  /\ AddJob(e, j)
  /\ api' = [api EXCEPT ![e] = "registered"]
  /\ UNCHANGED <<rowVars, aged, cronVars, runVars, lock, worldVars>>

(* Mutant: markQueued saved before addJob. *)
SaveQueuedEarly(e) ==
  /\ api[e] \in {"committed", "registered"}
  /\ api' = [api EXCEPT ![e] = "over"]
  /\ SaveRow(e, "QUEUED", 0)
  /\ UNCHANGED <<aged, cronVars, queueVars, runVars, lock, worldVars>>

(* markQueued on the entity the request still holds (PENDING, no retries),  *)
(* saved over whatever the row says by now.                                 *)
SaveQueued(e) ==
  /\ api[e] = "registered"
  /\ api' = [api EXCEPT ![e] = "over"]
  /\ SaveRow(e, "QUEUED", 0)
  /\ UNCHANGED <<aged, cronVars, queueVars, runVars, lock, worldVars>>

(* The request ends early: addJob or the save throws, or the process dies.  *)
AbandonRequest(e) ==
  /\ api[e] \in {"committed", "registered"}
  /\ api' = [api EXCEPT ![e] = "over"]
  /\ UNCHANGED <<rowVars, aged, cronVars, queueVars, runVars, lock, worldVars>>

(* Five minutes pass after the save; no row returns to PENDING, so only   *)
(* those that still are matter.                                             *)
Age(e) ==
  /\ status[e] = "PENDING" /\ e \notin aged
  /\ aged' = aged \cup {e}
  /\ UNCHANGED <<rowVars, api, cronVars, queueVars, runVars, lock, worldVars>>

-----------------------------------------------------------------------------
(* SyncEventRecoveryScheduler, one sequential pass at a time.               *)

StalePending == {e \in aged : status[e] = "PENDING"}

RecoverScan ==
  /\ batch = {}
  /\ StalePending # {}
  /\ batch' = StalePending
  /\ UNCHANGED <<rowVars, apiVars, readded, queueVars, runVars, lock, worldVars>>

RecoverAddJob(e, j) ==
  /\ e \in batch /\ readded = {}
  /\ AddJob(e, j)
  /\ readded' = {e}
  /\ UNCHANGED <<rowVars, apiVars, batch, runVars, lock, worldVars>>

(* markQueued on the copy read with the batch, a PENDING row. *)
RecoverSave(e) ==
  /\ e \in readded
  /\ SaveRow(e, "QUEUED", 0)
  /\ batch' = batch \ {e}
  /\ readded' = {}
  /\ UNCHANGED <<apiVars, queueVars, runVars, lock, worldVars>>

(* addJob or the save throws: the error is logged, the loop goes on. *)
RecoverFails(e) ==
  /\ e \in batch /\ (readded = {} \/ e \in readded)
  /\ batch' = batch \ {e}
  /\ readded' = {}
  /\ UNCHANGED <<rowVars, apiVars, queueVars, runVars, lock, worldVars>>

-----------------------------------------------------------------------------
(* The worker: NasFileSyncWorker.processFileSyncJob and a file handler.     *)

Goto(j, from, to) ==
  /\ pc[j] = from
  /\ pc' = [pc EXCEPT ![j] = to]

(* The queue hands the job to the processor and counts the attempt.  The    *)
(* slot count only delays a start and overlapping polls overrun it, so any  *)
(* waiting job may start.                                                   *)
StartJob(j) ==
  /\ jobState[j] = "waiting"
  /\ jobState' = [jobState EXCEPT ![j] = "active"]
  /\ attempts' = [attempts EXCEPT ![j] = @ + 1]
  /\ Goto(j, "idle", "starting")
  /\ UNCHANGED <<rowVars, apiVars, cronVars, failedRuns, copyRetry, lock,
                 worldVars>>

(* isAvailable() before anything else: NAS_UNAVAILABLE costs an attempt     *)
(* and leaves the event row alone.                                          *)
CheckNas(j) ==
  /\ Goto(j, "starting", IF nasUp THEN "locking" ELSE "error")
  /\ UNCHANGED <<rowVars, apiVars, cronVars, queueVars, copyRetry, lock,
                 worldVars>>

AcquireLock(j) ==
  /\ lock[FileOfJob(j)] = NoJob
  /\ lock' = [lock EXCEPT ![FileOfJob(j)] = j]
  /\ Goto(j, "locking", "locked")
  /\ UNCHANGED <<rowVars, apiVars, cronVars, queueVars, copyRetry, worldVars>>

(* Mutant: withLock ignores acquired = false. *)
LockTimeoutIgnored(j) ==
  /\ lock[FileOfJob(j)] # NoJob
  /\ Goto(j, "locking", "locked")
  /\ UNCHANGED <<rowVars, apiVars, cronVars, queueVars, copyRetry, lock,
                 worldVars>>

(* waitTimeout passed while another run held the lock. *)
LockTimeout(j) ==
  /\ lock[FileOfJob(j)] # NoJob
  /\ Goto(j, "locking", "error")
  /\ UNCHANGED <<rowVars, apiVars, cronVars, queueVars, copyRetry, lock,
                 worldVars>>

(* getSyncEvent: the worker's own copy of the row. *)
ReadEvent(j) ==
  /\ Goto(j, "locked", "read")
  /\ copyRetry' = [copyRetry EXCEPT ![j] = retryCount[EventOf[j]]]
  /\ UNCHANGED <<rowVars, apiVars, cronVars, queueVars, lock, worldVars>>

MarkProcessing(j) ==
  /\ Goto(j, "read", "processing")
  /\ SaveRow(EventOf[j], "PROCESSING", copyRetry[j])
  /\ UNCHANGED <<apiVars, cronVars, queueVars, copyRetry, lock, worldVars>>

(* The NAS operation and the rows that record it.  A redelivered job whose  *)
(* rows say that it is in place returns; if only the NAS was changed, the   *)
(* NAS adapter refuses it and the handler throws (HandlerThrows), which is  *)
(* the subject of NasFileSync.                                              *)
ApplyToNas(j) ==
  /\ Goto(j, "processing", "applied")
  /\ effect' = effect \cup {EventOf[j]}
  /\ UNCHANGED <<rowVars, apiVars, cronVars, queueVars, copyRetry, lock, nasUp,
                 gone, turnedBack, crashes, throws>>

(* The NAS row or the files row is missing, or a move finds its target      *)
(* folder deleted and puts the file back into its old folder: the NAS is    *)
(* left alone and the event is DONE next.  A restore without a NAS row      *)
(* restores the files row only.                                             *)
TurnBack(j) ==
  /\ EventOf[j] \in gone
  /\ Goto(j, "processing", "applied")
  /\ turnedBack' = turnedBack \cup {EventOf[j]}
  /\ UNCHANGED <<rowVars, apiVars, cronVars, queueVars, copyRetry, lock, nasUp,
                 effect, gone, crashes, throws>>

(* restore: metadata, file or folder are gone; markFailed and return. *)
Reject(j) ==
  /\ EventOf[j] \in Restores \cap gone
  /\ Goto(j, "processing", "returning")
  /\ SaveRow(EventOf[j], "FAILED", copyRetry[j])
  /\ turnedBack' = turnedBack \cup {EventOf[j]}
  /\ copyRetry' = [copyRetry EXCEPT ![j] = 0]
  /\ UNCHANGED <<apiVars, cronVars, queueVars, lock, nasUp, effect, gone,
                 crashes, throws>>

(* Mutant: DONE is saved without waiting for the NAS operation. *)
MarkDoneUnawaited(j) ==
  /\ pc[j] \in {"processing", "applied"}
  /\ pc' = [pc EXCEPT ![j] = "returning"]
  /\ SaveRow(EventOf[j], "DONE", copyRetry[j])
  /\ copyRetry' = [copyRetry EXCEPT ![j] = 0]
  /\ UNCHANGED <<apiVars, cronVars, queueVars, lock, worldVars>>

MarkDone(j) ==
  /\ Goto(j, "applied", "returning")
  /\ SaveRow(EventOf[j], "DONE", copyRetry[j])
  /\ copyRetry' = [copyRetry EXCEPT ![j] = 0]
  /\ UNCHANGED <<apiVars, cronVars, queueVars, lock, worldVars>>

(* The NAS or a repository throws inside the handler's try block. *)
HandlerThrows(j) ==
  /\ pc[j] \in {"processing", "applied"}
  /\ pc' = [pc EXCEPT ![j] = "catching"]
  /\ throws' = [throws EXCEPT ![EventOf[j]] =
                              IF @ <= MaxRetries THEN @ + 1 ELSE @]
  /\ UNCHANGED <<rowVars, apiVars, cronVars, queueVars, copyRetry, lock, nasUp,
                 effect, gone, turnedBack, crashes>>

(* Mutant: retry() gives up one failure early. *)
HandleRetryOffByOne(j) ==
  /\ Goto(j, "catching", "throwing")
  /\ IF copyRetry[j] + 1 >= MaxRetries
       THEN SaveRow(EventOf[j], "FAILED", copyRetry[j])
       ELSE SaveRow(EventOf[j], "RETRYING", copyRetry[j] + 1)
  /\ copyRetry' = [copyRetry EXCEPT ![j] = 0]
  /\ UNCHANGED <<apiVars, cronVars, queueVars, lock, worldVars>>

(* SyncEventEntity.retry on the worker's copy, saved; then rethrow. *)
HandleRetry(j) ==
  /\ Goto(j, "catching", "throwing")
  /\ IF copyRetry[j] >= MaxRetries
       THEN SaveRow(EventOf[j], "FAILED", copyRetry[j])
       ELSE SaveRow(EventOf[j], "RETRYING", copyRetry[j] + 1)
  /\ copyRetry' = [copyRetry EXCEPT ![j] = 0]
  /\ UNCHANGED <<apiVars, cronVars, queueVars, lock, worldVars>>

Release(j) ==
  lock' = [lock EXCEPT ![FileOfJob(j)] = IF @ = j THEN NoJob ELSE @]

(* finally { release() } after the handler returned. *)
ReleaseAfterReturn(j) ==
  /\ Goto(j, "returning", "ok")
  /\ Release(j)
  /\ UNCHANGED <<rowVars, apiVars, cronVars, queueVars, copyRetry, worldVars>>

(* The same after it threw; a connection error marks the NAS unhealthy. *)
ReleaseAfterThrow(j) ==
  /\ Goto(j, "throwing", "error")
  /\ Release(j)
  /\ nasUp' \in {nasUp, FALSE}
  /\ UNCHANGED <<rowVars, apiVars, cronVars, queueVars, copyRetry, effect,
                 gone, turnedBack, crashes, throws>>

CompleteJob(j) ==
  /\ Goto(j, "ok", "idle")
  /\ jobState' = [jobState EXCEPT ![j] = "completed"]
  /\ UNCHANGED <<rowVars, apiVars, cronVars, attempts, failedRuns, copyRetry,
                 lock, worldVars>>

(* Mutant: the attempts are compared as Bull does, one run fewer. *)
FailJobEarly(j) ==
  /\ Goto(j, "error", "idle")
  /\ jobState' = [jobState EXCEPT
                    ![j] = IF attempts[j] < MaxAttempts THEN "delayed"
                                                        ELSE "failed"]
  /\ failedRuns' = [failedRuns EXCEPT ![j] = @ + 1]
  /\ UNCHANGED <<rowVars, apiVars, cronVars, attempts, copyRetry, lock,
                 worldVars>>

(* LocalFileQueueAdapter: back to delayed while attemptsMade <= maxAttempts. *)
FailJob(j) ==
  /\ Goto(j, "error", "idle")
  /\ jobState' = [jobState EXCEPT
                    ![j] = IF attempts[j] <= MaxAttempts THEN "delayed"
                                                         ELSE "failed"]
  /\ failedRuns' = [failedRuns EXCEPT ![j] = @ + 1]
  /\ UNCHANGED <<rowVars, apiVars, cronVars, attempts, copyRetry, lock,
                 worldVars>>

(* The backoff is over. *)
PromoteDelayed(j) ==
  /\ jobState[j] = "delayed"
  /\ jobState' = [jobState EXCEPT ![j] = "waiting"]
  /\ UNCHANGED <<rowVars, apiVars, cronVars, attempts, failedRuns, runVars,
                 lock, worldVars>>

-----------------------------------------------------------------------------
(* The environment.                                                         *)

(* Mutant: the restart does not give the attempt back. *)
WorkerCrashCharged ==
  /\ crashes < MaxCrashes
  /\ crashes' = crashes + 1
  /\ jobState' = [j \in Jobs |->
       IF jobState[j] = "active" THEN "waiting" ELSE jobState[j]]
  /\ pc' = [j \in Jobs |-> "idle"]
  /\ lock' = [f \in Files |-> IF lock[f] = NoJob THEN NoJob ELSE Orphan]
  /\ batch' = {} /\ readded' = {}
  /\ UNCHANGED <<rowVars, apiVars, attempts, failedRuns, copyRetry, nasUp,
                 effect, gone, turnedBack, throws>>

(* Mutant: the restart does not look into the active directory. *)
WorkerCrashUnrecovered ==
  /\ crashes < MaxCrashes
  /\ crashes' = crashes + 1
  /\ pc' = [j \in Jobs |-> "idle"]
  /\ lock' = [f \in Files |-> IF lock[f] = NoJob THEN NoJob ELSE Orphan]
  /\ batch' = {} /\ readded' = {}
  /\ UNCHANGED <<rowVars, apiVars, queueVars, copyRetry, nasUp, effect, gone,
                 turnedBack, throws>>

(* The worker process dies and restarts: active jobs go back to waiting     *)
(* with the attempt given back, runs and the recovery pass are forgotten,   *)
(* a lock kept outside the process stays until its TTL.                     *)
WorkerCrash ==
  /\ crashes < MaxCrashes
  /\ crashes' = crashes + 1
  /\ jobState' = [j \in Jobs |->
       IF jobState[j] = "active" THEN "waiting" ELSE jobState[j]]
  /\ attempts' = [j \in Jobs |->
       IF jobState[j] = "active" /\ attempts[j] > 0 THEN attempts[j] - 1
                                                    ELSE attempts[j]]
  /\ pc' = [j \in Jobs |-> "idle"]
  /\ lock' = [f \in Files |-> IF lock[f] = NoJob THEN NoJob ELSE Orphan]
  /\ batch' = {} /\ readded' = {}
  /\ copyRetry' = [j \in Jobs |-> 0]
  /\ UNCHANGED <<rowVars, apiVars, failedRuns, nasUp, effect, gone,
                 turnedBack, throws>>

LockExpires(f) ==
  /\ lock[f] = Orphan
  /\ lock' = [lock EXCEPT ![f] = NoJob]
  /\ UNCHANGED <<rowVars, apiVars, cronVars, queueVars, runVars, worldVars>>

(* updateFromHealthCheck, once a minute. *)
HealthCheck ==
  /\ nasUp' = ~nasUp
  /\ UNCHANGED <<rowVars, apiVars, cronVars, queueVars, runVars, lock, effect,
                 gone, turnedBack, crashes, throws>>

(* Another request deletes the target folder, or the file with its rows;    *)
(* once the event has been settled it no longer matters.                    *)
LoseTarget(e) ==
  /\ Exists(e) /\ ~Settled(e) /\ e \notin gone
  /\ gone' = gone \cup {e}
  /\ UNCHANGED <<rowVars, apiVars, cronVars, queueVars, runVars, lock, nasUp,
                 effect, turnedBack, crashes, throws>>

-----------------------------------------------------------------------------
RequestStep(e) ==
  \/ CommitRequest(e) \/ RollbackRequest(e)
  \/ \E j \in Jobs : RegisterJob(e, j)
  \/ SaveQueued(e)
  \/ AbandonRequest(e)

RecoverStep(e) ==
  \/ \E j \in Jobs : RecoverAddJob(e, j)
  \/ RecoverSave(e)
  \/ RecoverFails(e)

RunStep(j) ==
  \/ CheckNas(j) \/ AcquireLock(j) \/ LockTimeout(j) \/ ReadEvent(j)
  \/ MarkProcessing(j) \/ ApplyToNas(j) \/ TurnBack(j) \/ Reject(j)
  \/ MarkDone(j) \/ HandlerThrows(j) \/ HandleRetry(j) \/ ReleaseAfterReturn(j)
  \/ ReleaseAfterThrow(j) \/ CompleteJob(j) \/ FailJob(j)

Next ==
  \/ \E e \in Events : \/ SaveEvent(e) \/ RequestStep(e) \/ Age(e)
                       \/ RecoverStep(e) \/ LoseTarget(e)
  \/ RecoverScan
  \/ \E j \in Jobs : StartJob(j) \/ RunStep(j) \/ PromoteDelayed(j)
  \/ \E f \in Files : LockExpires(f)
  \/ WorkerCrash
  \/ HealthCheck

Spec == Init /\ [][Next]_vars

(* Requests run to their end or die, the cron fires, the queue polls, NAS   *)
(* calls return and lock TTLs pass.  A recovery pass that runs again and     *)
(* again succeeds in adding its job some time.  Nothing is promised about   *)
(* how often the NAS is healthy or about new requests.                      *)
Fairness ==
  /\ \A e \in Events : WF_vars(RequestStep(e)) /\ WF_vars(Age(e))
                       /\ WF_vars(RecoverStep(e))
                       /\ SF_vars(\E j \in Jobs : RecoverAddJob(e, j))
  /\ WF_vars(RecoverScan)
  /\ \A j \in Jobs : WF_vars(StartJob(j)) /\ WF_vars(RunStep(j))
                     /\ WF_vars(PromoteDelayed(j))
  /\ \A f \in Files : WF_vars(LockExpires(f))

FairSpec == Spec /\ Fairness

-----------------------------------------------------------------------------
(* Properties.                                                              *)

(* A recorded operation is never lost: until it is carried out or turned    *)
(* back, its event is PENDING (the recovery cron finds it) or the queue     *)
(* still holds a job for it, be it in the failed directory.  This is what   *)
(* the order save - addJob - save QUEUED is for.                            *)
NoLostOperation ==
  \A e \in Events : Exists(e) =>
    \/ Settled(e)
    \/ status[e] = "PENDING"
    \/ \E j \in Jobs : EventOf[j] = e /\ (Live(j) \/ jobState[j] = "failed")

(* An event that says DONE has had its NAS operation carried out, whatever  *)
(* stale copies were saved around it; the only other reason is that a row   *)
(* or the folder it needs has been deleted in the meantime.                 *)
DoneUnlessGone ==
  \A e \in Events : status[e] = "DONE" => e \in effect \/ e \in gone

(* At most one run is inside a handler for any file, across timeouts,       *)
(* crashes and duplicate jobs (the worker's per-file lock).                 *)
OneHandlerPerFile ==
  \A i, j \in Jobs :
    (pc[i] \in Locked /\ pc[j] \in Locked /\ FileOfJob(i) = FileOfJob(j))
      => i = j

(* FAILED is reported only after a refusal or after the handler threw more  *)
(* than maxRetries times, although duplicate jobs, crashes and stale saves  *)
(* all touch the counter (SyncEventEntity.retry).                           *)
FailedOnlyAfterBudget ==
  \A e \in Events :
    status[e] = "FAILED" => e \in turnedBack \/ throws[e] > MaxRetries

(* The attempts a job is charged are exactly its runs that ended with an    *)
(* error, plus the one under way: crashes are not charged, so a job is only *)
(* abandoned after maxAttempts + 1 failed runs.                             *)
CrashesAreNotAttempts ==
  \A j \in Jobs :
    jobState[j] # "completed" =>
      attempts[j] = failedRuns[j] + (IF jobState[j] = "active" THEN 1 ELSE 0)

QueueState(j) ==
  IF jobState[j] = "none" THEN "new"
  ELSE IF Live(j) THEN "pending"
  ELSE IF jobState[j] = "completed" THEN "done" ELSE "dead"

Queue == INSTANCE JobQueue WITH
  state <- [j \in Jobs |-> QueueState(j)],
  ok <- {j \in Jobs : jobState[j] = "completed"},
  errs <- failedRuns

(* The jobs of the outbox live and end as the queue promises to whoever     *)
(* calls addJob, crashes included: none is forgotten, one that is over stays *)
(* over, and one is given up only after maxAttempts + 1 runs that ended     *)
(* with an error.  LocalFileQueue keeps the same promise.                   *)
ImplementsJobQueue == Queue!Spec

(* Every accepted operation is eventually carried out, turned back, or has a*)
(* job in the failed directory that an administrator can see.               *)
EveryOperationSettles ==
  \A e \in Events : (api[e] = "committed") ~>
    (Settled(e) \/ \E j \in Jobs : EventOf[j] = e /\ jobState[j] = "failed")

=============================================================================
