--------------------------- MODULE LocalFileQueue ---------------------------
(***************************************************************************)
(* LocalFileQueueAdapter: a job queue kept in files.  A job is a JSON file *)
(* in one directory per state; moving it writes the new file and then      *)
(* unlinks the old one.  A timer starts a poll every few seconds whether   *)
(* or not the last one has finished: a poll promotes due delayed jobs,     *)
(* lists the waiting ones and runs as many as it found slots for, each in  *)
(* a promise of its own.  A restart moves what is in active/ back to       *)
(* waiting/ before polling starts.                                         *)
(*                                                                         *)
(* writeFile truncates before it writes: between the two steps the file is *)
(* Torn, and stays so if the process dies or the write fails there.  A     *)
(* write may also fail before the file is opened, with nothing written.    *)
(* An unlink does not fail: a job it would leave in two directories is what *)
(* a crash between the two steps of a move leaves.                         *)
(***************************************************************************)
EXTENDS Integers, FiniteSets

CONSTANTS
  Jobs,          \* job ids; their order is the order of the file names
  Transient,     \* jobs with options.removeOnComplete and removeOnFail
  Polls,         \* polls that may be under way at a time (bound)
  MaxAttempts,   \* options.attempts or QUEUE_DEFAULT_MAX_ATTEMPTS
  Concurrency,   \* ProcessorOptions.concurrency
  SlowDisk,      \* TRUE: a scan may outlast the polling interval, and a move
                 \* the backoff of its job
  MaxCrashes,    \* bound on process crashes
  MaxIOErrors    \* bound on failing writes

ASSUME LocalQueueAssumption ==
  /\ Jobs \subseteq Nat
  /\ Transient \subseteq Jobs
  /\ MaxAttempts \in Nat
  /\ Concurrency \in Nat \ {0}
  /\ SlowDisk \in BOOLEAN
  /\ MaxCrashes \in Nat
  /\ MaxIOErrors \in Nat

VARIABLES
  file,      \* file[d][j]: Absent, Torn, or the attemptsMade it holds
  adding,    \* jobs whose addJob is between truncating and writing
  accepted,  \* jobs whose addJob has returned
  scan,      \* what each poll is doing
  list,      \* job ids a poll has listed in delayed/ and not handled yet
  moving,    \* the delayed job a poll is moving: its id and attemptsMade
  slots,     \* availableSlots as the poll computed it
  run,       \* run[p][j]: where poll p is in processing job j
  mem,       \* mem[p][j]: attemptsMade in that run's copy of the job
  dest,      \* dest[p][j]: the directory that run moves the job to
  active,    \* activeJobsCount
  boot,      \* "up", or how far onModuleInit's recovery of active/ is
  todo,      \* active jobs the recovery has not handled yet
  saved,     \* the active job being recovered: its id and attemptsMade
  ok,        \* history: jobs the processor has returned for
  errs,      \* history: errors it has thrown, counted up to MaxAttempts + 1
  crashes,
  ioErrors

fileVars == <<file, adding, accepted>>
pollVars == <<scan, list, moving, slots>>
runVars  == <<run, mem, dest, active>>
bootVars == <<boot, todo, saved>>
histVars == <<ok, errs>>
vars == <<file, adding, accepted, scan, list, moving, slots, run, mem, dest,
          active, boot, todo, saved, ok, errs, crashes, ioErrors>>

Dirs == {"waiting", "active", "delayed", "completed", "failed"}
Absent == -2
Torn == -1
NoMove == <<>>

Whole(d, j) == file[d][j] >= 0
Listed(d) == {j \in Jobs : file[d][j] # Absent}
Put(d, j, c) == file' = [file EXCEPT ![d][j] = c]

(* Steps of a run before, during and after the processor call. *)
Picking == {"listed", "read", "writeActive", "unlinkWaiting"}
Leaving == {"decided", "writeOut", "unlinkActive"}

TypeOK ==
  /\ file \in [Dirs -> [Jobs -> {Absent, Torn} \cup (0..(MaxAttempts + 1))]]
  /\ adding \subseteq Jobs /\ accepted \subseteq Jobs
  /\ scan \in [Polls -> {"idle", "delayed", "moving", "unlinkDelayed",
                         "counted", "running"}]
  /\ list \in [Polls -> SUBSET Jobs]
  /\ moving \in [Polls -> {NoMove} \cup (Jobs \X (0..(MaxAttempts + 1)))]
  /\ slots \in [Polls -> 0..Concurrency]
  /\ run \in [Polls -> [Jobs -> {"none", "running"} \cup Picking \cup Leaving]]
  /\ mem \in [Polls -> [Jobs -> 0..(MaxAttempts + 1)]]
  /\ dest \in [Polls -> [Jobs -> Dirs]]
  /\ active \in Nat
  /\ boot \in {"up", "recovering", "writeWaiting", "unlinkActive"}
  /\ todo \subseteq Jobs
  /\ saved = NoMove \/ saved \in Jobs \X (0..(MaxAttempts + 1))
  /\ ok \subseteq Jobs /\ errs \in [Jobs -> 0..(MaxAttempts + 1)]
  /\ crashes \in 0..MaxCrashes /\ ioErrors \in 0..MaxIOErrors

Init ==
  /\ file = [d \in Dirs |-> [j \in Jobs |-> Absent]]
  /\ adding = {} /\ accepted = {}
  /\ scan = [p \in Polls |-> "idle"]
  /\ list = [p \in Polls |-> {}]
  /\ moving = [p \in Polls |-> NoMove]
  /\ slots = [p \in Polls |-> 0]
  /\ run = [p \in Polls |-> [j \in Jobs |-> "none"]]
  /\ mem = [p \in Polls |-> [j \in Jobs |-> 0]]
  /\ dest = [p \in Polls |-> [j \in Jobs |-> "waiting"]]
  /\ active = 0
  /\ boot = "up" /\ todo = {} /\ saved = NoMove
  /\ ok = {} /\ errs = [j \in Jobs |-> 0]
  /\ crashes = 0 /\ ioErrors = 0

-----------------------------------------------------------------------------
(* addJob of a job with a fresh id.                                         *)

BeginAdd(j) ==
  /\ boot = "up" /\ j \notin adding /\ j \notin accepted
  /\ file["waiting"][j] = Absent
  /\ adding' = adding \cup {j}
  /\ Put("waiting", j, Torn)
  /\ UNCHANGED <<accepted, pollVars, runVars, bootVars, histVars, crashes,
                 ioErrors>>

EndAdd(j) ==
  /\ j \in adding
  /\ adding' = adding \ {j}
  /\ accepted' = accepted \cup {j}
  /\ Put("waiting", j, 0)
  /\ UNCHANGED <<pollVars, runVars, bootVars, histVars, crashes, ioErrors>>

(* writeFile fails and addJob throws: nothing was accepted. *)
AddFails(j) ==
  /\ j \in adding
  /\ ioErrors < MaxIOErrors
  /\ ioErrors' = ioErrors + 1
  /\ adding' = adding \ {j}
  /\ UNCHANGED <<file, accepted, pollVars, runVars, bootVars, histVars, crashes>>

-----------------------------------------------------------------------------
(* One poll: checkDelayedJobs, then processWaitingJobs.                     *)

Scanning(p) ==
  \/ scan[p] \notin {"idle", "running"}
  \/ \E j \in Jobs : run[p][j] \in Picking

Tick(p) ==
  /\ boot = "up"
  /\ scan[p] = "idle"
  /\ SlowDisk \/ \A q \in Polls : ~Scanning(q)
  /\ scan' = [scan EXCEPT ![p] = "delayed"]
  /\ list' = [list EXCEPT ![p] = Listed("delayed")]
  /\ UNCHANGED <<fileVars, moving, slots, runVars, bootVars, histVars, crashes,
                 ioErrors>>

(* The file is gone, or its scheduledAt is still to come. *)
SkipDelayed(p, j) ==
  /\ scan[p] = "delayed" /\ j \in list[p]
  /\ file["delayed"][j] # Torn
  /\ list' = [list EXCEPT ![p] = @ \ {j}]
  /\ UNCHANGED <<fileVars, scan, moving, slots, runVars, bootVars, histVars,
                 crashes, ioErrors>>

(* JSON.parse throws and takes the whole poll with it. *)
AbortPoll(p, j) ==
  /\ scan[p] = "delayed" /\ j \in list[p]
  /\ file["delayed"][j] = Torn
  /\ scan' = [scan EXCEPT ![p] = "idle"]
  /\ list' = [list EXCEPT ![p] = {}]
  /\ UNCHANGED <<fileVars, moving, slots, runVars, bootVars, histVars, crashes,
                 ioErrors>>

(* Due: the job is read and the truncated waiting file created.  Its         *)
(* scheduledAt is the end of the failed run plus the backoff, so on a disk   *)
(* that is not slow that run has moved the file.                            *)
BeginPromote(p, j) ==
  /\ scan[p] = "delayed" /\ j \in list[p]
  /\ Whole("delayed", j)
  /\ SlowDisk \/ \A q \in Polls : run[q][j] \notin Leaving
  /\ list' = [list EXCEPT ![p] = @ \ {j}]
  /\ moving' = [moving EXCEPT ![p] = <<j, file["delayed"][j]>>]
  /\ scan' = [scan EXCEPT ![p] = "moving"]
  /\ Put("waiting", j, Torn)
  /\ UNCHANGED <<adding, accepted, slots, runVars, bootVars, histVars, crashes,
                 ioErrors>>

EndPromote(p) ==
  /\ scan[p] = "moving"
  /\ scan' = [scan EXCEPT ![p] = "unlinkDelayed"]
  /\ Put("waiting", moving[p][1], moving[p][2])
  /\ UNCHANGED <<adding, accepted, list, moving, slots, runVars, bootVars,
                 histVars, crashes, ioErrors>>

(* A read or the write fails and takes the whole poll with it. *)
PromoteFails(p) ==
  /\ scan[p] = "moving" \/ (scan[p] = "delayed" /\ list[p] # {})
  /\ ioErrors < MaxIOErrors
  /\ ioErrors' = ioErrors + 1
  /\ scan' = [scan EXCEPT ![p] = "idle"]
  /\ list' = [list EXCEPT ![p] = {}]
  /\ moving' = [moving EXCEPT ![p] = NoMove]
  /\ UNCHANGED <<fileVars, slots, runVars, bootVars, histVars, crashes>>

UnlinkDelayed(p) ==
  /\ scan[p] = "unlinkDelayed"
  /\ scan' = [scan EXCEPT ![p] = "delayed"]
  /\ moving' = [moving EXCEPT ![p] = NoMove]
  /\ Put("delayed", moving[p][1], Absent)
  /\ UNCHANGED <<adding, accepted, list, slots, runVars, bootVars, histVars,
                 crashes, ioErrors>>

(* Mutant: the slots are not reduced by the jobs under way. *)
CountAllSlots(p) ==
  /\ scan[p] = "delayed" /\ list[p] = {}
  /\ slots' = [slots EXCEPT ![p] = Concurrency]
  /\ scan' = [scan EXCEPT ![p] = "counted"]
  /\ UNCHANGED <<fileVars, list, moving, runVars, bootVars, histVars, crashes,
                 ioErrors>>

(* availableSlots, computed before the directory is read. *)
CountSlots(p) ==
  /\ scan[p] = "delayed" /\ list[p] = {}
  /\ IF active < Concurrency
       THEN /\ slots' = [slots EXCEPT ![p] = Concurrency - active]
            /\ scan' = [scan EXCEPT ![p] = "counted"]
       ELSE /\ scan' = [scan EXCEPT ![p] = "idle"]
            /\ UNCHANGED slots
  /\ UNCHANGED <<fileVars, list, moving, runVars, bootVars, histVars, crashes,
                 ioErrors>>

(* readdir, sort, slice: a promise is started for each job picked. *)
PickJobs(p) ==
  /\ scan[p] = "counted"
  /\ LET waiting == Listed("waiting")
         picked == {j \in waiting :
                      Cardinality({i \in waiting : i < j}) < slots[p]}
     IN run' = [run EXCEPT ![p] = [j \in Jobs |->
                 IF j \in picked THEN "listed" ELSE "none"]]
  /\ scan' = [scan EXCEPT ![p] = "running"]
  /\ slots' = [slots EXCEPT ![p] = 0]
  /\ UNCHANGED <<fileVars, list, moving, mem, dest, active, bootVars, histVars,
                 crashes, ioErrors>>

(* Promise.allSettled: all promises of the poll are over. *)
EndPoll(p) ==
  /\ scan[p] = "running"
  /\ \A j \in Jobs : run[p][j] = "none"
  /\ scan' = [scan EXCEPT ![p] = "idle"]
  /\ UNCHANGED <<fileVars, list, moving, slots, runVars, bootVars, histVars,
                 crashes, ioErrors>>

-----------------------------------------------------------------------------
(* One promise: the processing of job j by poll p.                          *)

GoRun(p, j, from, to) ==
  /\ run[p][j] = from
  /\ run' = [run EXCEPT ![p][j] = to]

(* The file is gone or unreadable: the promise ends. *)
ReadNothing(p, j) ==
  /\ GoRun(p, j, "listed", "none")
  /\ ~Whole("waiting", j)
  /\ UNCHANGED <<fileVars, pollVars, mem, dest, active, bootVars, histVars,
                 crashes, ioErrors>>

(* The job is read, counted as active, its attempt counted. *)
ReadWaiting(p, j) ==
  /\ GoRun(p, j, "listed", "read")
  /\ Whole("waiting", j)
  /\ mem' = [mem EXCEPT ![p][j] = file["waiting"][j] + 1]
  /\ active' = active + 1
  /\ UNCHANGED <<fileVars, pollVars, dest, bootVars, histVars, crashes, ioErrors>>

(* Mutant: the old file is unlinked before the new one is written. *)
UnlinkWaitingFirst(p, j) ==
  /\ GoRun(p, j, "read", "writeActive")
  /\ file' = [file EXCEPT !["active"][j] = Torn, !["waiting"][j] = Absent]
  /\ UNCHANGED <<adding, accepted, pollVars, mem, dest, active, bootVars,
                 histVars, crashes, ioErrors>>

(* moveJobFile(waiting, active), outside the try block. *)
BeginActive(p, j) ==
  /\ GoRun(p, j, "read", "writeActive")
  /\ Put("active", j, Torn)
  /\ UNCHANGED <<adding, accepted, pollVars, mem, dest, active, bootVars,
                 histVars, crashes, ioErrors>>

EndActive(p, j) ==
  /\ GoRun(p, j, "writeActive", "unlinkWaiting")
  /\ Put("active", j, mem[p][j])
  /\ UNCHANGED <<adding, accepted, pollVars, mem, dest, active, bootVars,
                 histVars, crashes, ioErrors>>

(* The file is not opened, or its write fails: the promise is rejected and   *)
(* activeJobsCount stays raised.                                            *)
ActiveFails(p, j) ==
  /\ run[p][j] \in {"read", "writeActive"}
  /\ run' = [run EXCEPT ![p][j] = "none"]
  /\ ioErrors < MaxIOErrors
  /\ ioErrors' = ioErrors + 1
  /\ UNCHANGED <<fileVars, pollVars, mem, dest, active, bootVars, histVars,
                 crashes>>

(* Mutant: the job is copied to active/ and stays in waiting/. *)
KeepWaiting(p, j) ==
  /\ GoRun(p, j, "unlinkWaiting", "running")
  /\ UNCHANGED <<fileVars, pollVars, mem, dest, active, bootVars, histVars,
                 crashes, ioErrors>>

UnlinkWaiting(p, j) ==
  /\ GoRun(p, j, "unlinkWaiting", "running")
  /\ Put("waiting", j, Absent)
  /\ UNCHANGED <<adding, accepted, pollVars, mem, dest, active, bootVars,
                 histVars, crashes, ioErrors>>

Decide(p, j, d) == dest' = [dest EXCEPT ![p][j] = d]

ProcessorReturns(p, j) ==
  /\ GoRun(p, j, "running", "decided")
  /\ ok' = ok \cup {j}
  /\ Decide(p, j, "completed")
  /\ UNCHANGED <<fileVars, pollVars, mem, active, bootVars, errs, crashes,
                 ioErrors>>

(* Mutant: a job out of attempts one failure early. *)
RetryDirEarly(attempt) == IF attempt < MaxAttempts THEN "delayed" ELSE "failed"

(* Mutant: one failure late. *)
RetryDirLate(attempt) ==
  IF attempt <= MaxAttempts + 1 THEN "delayed" ELSE "failed"

(* Retried while attemptsMade <= maxAttempts. *)
RetryDir(attempt) == IF attempt <= MaxAttempts THEN "delayed" ELSE "failed"

ProcessorThrows(p, j) ==
  /\ GoRun(p, j, "running", "decided")
  /\ errs' = [errs EXCEPT ![j] = IF @ <= MaxAttempts THEN @ + 1 ELSE @]
  /\ Decide(p, j, RetryDir(mem[p][j]))
  /\ UNCHANGED <<fileVars, pollVars, mem, active, bootVars, ok, crashes, ioErrors>>

Dropped(p, j) == j \in Transient /\ dest[p][j] \in {"completed", "failed"}

(* A finished job that is not kept: only deleteJobFile(active). *)
DropJob(p, j) ==
  /\ GoRun(p, j, "decided", "unlinkActive")
  /\ Dropped(p, j)
  /\ UNCHANGED <<fileVars, pollVars, mem, dest, active, bootVars, histVars,
                 crashes, ioErrors>>

(* moveJobFile(active, completed / delayed / failed). *)
BeginOut(p, j) ==
  /\ GoRun(p, j, "decided", "writeOut")
  /\ ~Dropped(p, j)
  /\ Put(dest[p][j], j, Torn)
  /\ UNCHANGED <<adding, accepted, pollVars, mem, dest, active, bootVars,
                 histVars, crashes, ioErrors>>

EndOut(p, j) ==
  /\ GoRun(p, j, "writeOut", "unlinkActive")
  /\ Put(dest[p][j], j, mem[p][j])
  /\ UNCHANGED <<adding, accepted, pollVars, mem, dest, active, bootVars,
                 histVars, crashes, ioErrors>>

(* Mutant: no finally block, the slot is kept. *)
KeepSlot == UNCHANGED active

(* The finally block: Math.max(0, count - 1). *)
Uncount == active' = IF active = 0 THEN 0 ELSE active - 1

(* The file is not opened, or its write fails.  For completed/ that lands in *)
(* the catch block and counts as a failed run; in the catch block it ends    *)
(* the promise, and the job stays in active/, which no poll looks at.        *)
OutFails(p, j) ==
  /\ run[p][j] = "writeOut" \/ (run[p][j] = "decided" /\ ~Dropped(p, j))
  /\ ioErrors < MaxIOErrors
  /\ ioErrors' = ioErrors + 1
  /\ IF dest[p][j] = "completed"
       THEN /\ run' = [run EXCEPT ![p][j] = "decided"]
            /\ Decide(p, j, RetryDir(mem[p][j]))
            /\ UNCHANGED active
       ELSE /\ run' = [run EXCEPT ![p][j] = "none"]
            /\ Uncount
            /\ UNCHANGED dest
  /\ UNCHANGED <<fileVars, pollVars, mem, bootVars, histVars, crashes>>

UnlinkActive(p, j) ==
  /\ GoRun(p, j, "unlinkActive", "none")
  /\ Put("active", j, Absent)
  /\ Uncount
  /\ UNCHANGED <<adding, accepted, pollVars, mem, dest, bootVars, histVars,
                 crashes, ioErrors>>

RunStep(p, j) ==
  \/ ReadNothing(p, j) \/ ReadWaiting(p, j) \/ BeginActive(p, j)
  \/ EndActive(p, j) \/ ActiveFails(p, j) \/ UnlinkWaiting(p, j)
  \/ ProcessorReturns(p, j) \/ ProcessorThrows(p, j)
  \/ DropJob(p, j) \/ BeginOut(p, j) \/ EndOut(p, j) \/ OutFails(p, j)
  \/ UnlinkActive(p, j)

(* cleanupOldJobs: a week later; an unreadable file is skipped. *)
CleanUp(d, j) ==
  /\ boot = "up"
  /\ d \in {"completed", "failed"} /\ Whole(d, j)
  /\ Put(d, j, Absent)
  /\ UNCHANGED <<adding, accepted, pollVars, runVars, bootVars, histVars,
                 crashes, ioErrors>>

-----------------------------------------------------------------------------
(* Crash and recovery (onModuleInit, before any poll).                      *)

(* Mutant: active/ is not looked at after a restart. *)
CrashUnrecovered ==
  /\ crashes < MaxCrashes
  /\ crashes' = crashes + 1
  /\ boot' = "recovering" /\ saved' = NoMove
  /\ todo' = {} /\ adding' = {}
  /\ scan' = [p \in Polls |-> "idle"]
  /\ list' = [p \in Polls |-> {}]
  /\ moving' = [p \in Polls |-> NoMove]
  /\ slots' = [p \in Polls |-> 0]
  /\ run' = [p \in Polls |-> [j \in Jobs |-> "none"]]
  /\ active' = 0
  /\ UNCHANGED <<file, accepted, mem, dest, histVars, ioErrors>>

Crash ==
  /\ crashes < MaxCrashes
  /\ crashes' = crashes + 1
  /\ boot' = "recovering"
  /\ saved' = NoMove
  /\ todo' = Listed("active")
  /\ adding' = {}
  /\ scan' = [p \in Polls |-> "idle"]
  /\ list' = [p \in Polls |-> {}]
  /\ moving' = [p \in Polls |-> NoMove]
  /\ slots' = [p \in Polls |-> 0]
  /\ run' = [p \in Polls |-> [j \in Jobs |-> "none"]]
  /\ active' = 0
  /\ UNCHANGED <<file, accepted, mem, dest, histVars, ioErrors>>

(* An unreadable active file is logged and left. *)
SkipActive(j) ==
  /\ boot = "recovering" /\ j \in todo
  /\ ~Whole("active", j)
  /\ todo' = todo \ {j}
  /\ UNCHANGED <<fileVars, pollVars, runVars, boot, saved, histVars, crashes,
                 ioErrors>>

(* The crash is not a failed attempt. *)
GiveBack(attempt) == IF attempt > 0 THEN attempt - 1 ELSE 0

BeginRecover(j) ==
  /\ boot = "recovering" /\ j \in todo
  /\ Whole("active", j)
  /\ todo' = todo \ {j}
  /\ saved' = <<j, GiveBack(file["active"][j])>>
  /\ boot' = "writeWaiting"
  /\ Put("waiting", j, Torn)
  /\ UNCHANGED <<adding, accepted, pollVars, runVars, histVars, crashes,
                 ioErrors>>

EndRecover ==
  /\ boot = "writeWaiting"
  /\ boot' = "unlinkActive"
  /\ Put("waiting", saved[1], saved[2])
  /\ UNCHANGED <<adding, accepted, pollVars, runVars, todo, saved, histVars,
                 crashes, ioErrors>>

UnlinkRecovered ==
  /\ boot = "unlinkActive"
  /\ boot' = "recovering"
  /\ saved' = NoMove
  /\ Put("active", saved[1], Absent)
  /\ UNCHANGED <<adding, accepted, pollVars, runVars, todo, histVars, crashes,
                 ioErrors>>

(* A job that cannot be read, or whose waiting file cannot be opened or      *)
(* written, is logged, and stays in active/ until the next restart.          *)
RecoverFails ==
  /\ ioErrors < MaxIOErrors
  /\ ioErrors' = ioErrors + 1
  /\ \/ boot = "recovering" /\ \E j \in todo : todo' = todo \ {j}
     \/ boot = "writeWaiting" /\ UNCHANGED todo
  /\ boot' = "recovering"
  /\ saved' = NoMove
  /\ UNCHANGED <<fileVars, pollVars, runVars, histVars, crashes>>

(* The module is initialised; processJobs starts polling. *)
StartPolling ==
  /\ boot = "recovering" /\ todo = {}
  /\ boot' = "up"
  /\ UNCHANGED <<fileVars, pollVars, runVars, todo, saved, histVars, crashes,
                 ioErrors>>

-----------------------------------------------------------------------------
PollStep(p) ==
  \/ \E j \in Jobs : SkipDelayed(p, j) \/ AbortPoll(p, j) \/ BeginPromote(p, j)
  \/ EndPromote(p) \/ UnlinkDelayed(p) \/ CountSlots(p) \/ PickJobs(p)
  \/ EndPoll(p)

RecoveryStep ==
  \/ \E j \in Jobs : SkipActive(j) \/ BeginRecover(j)
  \/ EndRecover \/ UnlinkRecovered \/ StartPolling

Next ==
  \/ \E j \in Jobs : BeginAdd(j) \/ EndAdd(j) \/ AddFails(j)
  \/ \E p \in Polls : \/ Tick(p) \/ PollStep(p) \/ PromoteFails(p)
                      \/ \E j \in Jobs : RunStep(p, j)
  \/ \E d \in Dirs, j \in Jobs : CleanUp(d, j)
  \/ Crash
  \/ RecoveryStep \/ RecoverFails

Spec == Init /\ [][Next]_vars

(* Writes, timers and processor calls come to an end, the interval timer    *)
(* fires and a scheduledAt that is still to come is some day in the past.   *)
Fairness ==
  /\ \A j \in Jobs : WF_vars(EndAdd(j))
                     /\ SF_vars(\E p \in Polls : BeginPromote(p, j))
  /\ WF_vars(\E p \in Polls : Tick(p))
  /\ \A p \in Polls : WF_vars(PollStep(p))
                      /\ \A j \in Jobs : WF_vars(RunStep(p, j))
  /\ WF_vars(RecoveryStep)

FairSpec == Spec /\ Fairness

-----------------------------------------------------------------------------
(* Properties.                                                              *)

Live(j) == Whole("waiting", j) \/ Whole("active", j) \/ Whole("delayed", j)
InMemory(j) == \E p \in Polls : run[p][j] \notin {"none", "listed"}
InProcessor == {r \in Polls \X Jobs : run[r[1]][r[2]] = "running"}
Counting == {r \in Polls \X Jobs : run[r[1]][r[2]] \notin {"none", "listed"}}
Settled(j) == j \in ok \/ errs[j] > MaxAttempts

(* moveJobFile writes before it unlinks "so that nothing is lost": whatever *)
(* moves are under way or cut short, an accepted job that is not over has a *)
(* readable file the queue will come back to.  It takes a disk that is not  *)
(* slow, and no two runs of a job at a time: after a crash a job may have   *)
(* two files, and two runs of it unlink and truncate each other's.          *)
NoJobLost ==
  ~SlowDisk /\ (Concurrency = 1 \/ crashes = 0) =>
    \A j \in accepted : Live(j) \/ Settled(j)

(* With scans shorter than the polling interval, the processor is never     *)
(* called for more jobs at a time than concurrency allows, although slots   *)
(* are counted before the directory is read.                                *)
ConcurrencyRespected ==
  ~SlowDisk => Cardinality(InProcessor) <= Concurrency

(* activeJobsCount follows the runs: it never falls below the number of      *)
(* calls under way, so that no slot is given out twice, and it exceeds the   *)
(* runs that have read their job by no more than the slots that failed moves *)
(* to active/ have leaked.                                                  *)
CountFollowsRuns ==
  /\ Cardinality(InProcessor) <= active
  /\ active <= Cardinality(Counting) + ioErrors

(* Without a crash, and with scans that do not overlap, no job is in the    *)
(* processor twice and no finished job has a file that would run it again.  *)
OnceUnlessCrashed ==
  (crashes = 0 /\ ioErrors = 0 /\ ~SlowDisk) =>
    \A j \in Jobs :
      /\ Cardinality({r \in InProcessor : r[2] = j}) <= 1
      /\ j \in ok => ~(Whole("waiting", j) \/ Whole("delayed", j))

(* A job reaches failed/ only after more than maxAttempts errors or a write *)
(* that failed.                                                             *)
FailedAfterAttempts ==
  \A j \in Jobs :
    file["failed"][j] # Absent => errs[j] > MaxAttempts \/ ioErrors > 0

(* The queue is at-least-once, and a job that is over stays over: the files *)
(* and promises together implement JobQueue.                                *)
QueueState(j) ==
  IF j \notin accepted THEN "new"
  ELSE IF Live(j) \/ InMemory(j) THEN "pending"
  ELSE IF j \in ok THEN "done" ELSE "dead"

Queue == INSTANCE JobQueue WITH state <- [j \in Jobs |-> QueueState(j)]
ImplementsJobQueue == Queue!Spec

(* What stops the queue: an unreadable file in delayed/, which aborts every *)
(* poll, or one in waiting/ that nothing will write again, which takes a     *)
(* slot of every poll (a crash or an error in the middle of a write leaves   *)
(* both), or slots a failed move to active/ leaked.                         *)
Jammed ==
  \/ \E j \in Jobs : file["delayed"][j] = Torn
  \/ \E j \in Jobs \ adding :
       file["waiting"][j] = Torn /\ ~Whole("delayed", j)
  \/ /\ active >= Concurrency
     /\ \A p \in Polls, j \in Jobs : run[p][j] = "none"

(* The job is in active/ alone, no run has it, and a write has failed: that   *)
(* of the move out, or that of its recovery.  Only a restart looks there.    *)
Stranded(j) ==
  /\ ioErrors > 0
  /\ Whole("active", j) /\ ~Whole("waiting", j) /\ ~Whole("delayed", j)
  /\ ~InMemory(j)

(* Every accepted job is some day returned for, or given up after its       *)
(* attempts, unless the queue is jammed or a failed write has left the job   *)
(* in active/.  Without a failed write a crash never strands a job there.    *)
EveryJobSettles ==
  \A j \in Jobs :
    (j \in accepted) ~> (Settled(j) \/ []<>Jammed \/ []<>Stranded(j))

=============================================================================
