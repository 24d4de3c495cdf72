-------------------------- MODULE SyncOutboxProofs --------------------------
(***************************************************************************)
(* Machine-checked proofs about SyncOutbox, for every number of events,    *)
(* files and jobs and every value of the limits; then that its queue       *)
(* implements JobQueue.                                                    *)
(***************************************************************************)
EXTENDS SyncOutbox, TLAPS

-----------------------------------------------------------------------------
(* Type correctness.                                                        *)

(* The request, the clock and the recovery cron keep every variable in its  *)
(* type.                                                                    *)
LEMMA TypeRequestStep ==
  ASSUME TypeOK, NEW e \in Events,
         SaveEvent(e) \/ RequestStep(e) \/ Age(e) \/ RecoverStep(e)
  PROVE  TypeOK'
<1> USE OutboxAssumption
<1>1. CASE SaveEvent(e)
  BY <1>1 DEF SaveEvent, SaveRow, TypeOK, Statuses, ApiSteps, cronVars,
              queueVars, runVars, worldVars
<1>2. CASE \E j \in Jobs : RegisterJob(e, j)
  BY <1>2 DEF RegisterJob, AddJob, TypeOK, ApiSteps, JobStates, rowVars,
              cronVars, runVars, worldVars
<1>3. CASE SaveQueued(e)
  BY <1>3 DEF SaveQueued, SaveRow, TypeOK, Statuses, ApiSteps, cronVars,
              queueVars, runVars, worldVars
<1>4. CASE CommitRequest(e) \/ RollbackRequest(e) \/ AbandonRequest(e)
  BY <1>4 DEF CommitRequest, RollbackRequest, AbandonRequest, TypeOK,
              ApiSteps, rowVars, cronVars, queueVars, runVars, worldVars
<1>5. CASE Age(e)
  BY <1>5 DEF Age, TypeOK, rowVars, cronVars, queueVars, runVars, worldVars
<1>6. CASE \E j \in Jobs : RecoverAddJob(e, j)
  BY <1>6 DEF RecoverAddJob, AddJob, TypeOK, JobStates, rowVars, apiVars,
              runVars, worldVars
<1>7. CASE RecoverSave(e)
  BY <1>7 DEF RecoverSave, SaveRow, TypeOK, Statuses, apiVars, queueVars,
              runVars, worldVars
<1>8. CASE RecoverFails(e)
  BY <1>8 DEF RecoverFails, TypeOK, rowVars, apiVars, queueVars, runVars,
              worldVars
<1>9. QED
  BY <1>1, <1>2, <1>3, <1>4, <1>5, <1>6, <1>7, <1>8 DEF RequestStep, RecoverStep

(* So do the steps of a run of the worker.                                  *)
LEMMA TypeRunStep ==
  ASSUME TypeOK, NEW j \in Jobs, StartJob(j) \/ RunStep(j) \/ PromoteDelayed(j)
  PROVE  TypeOK'
<1> USE OutboxAssumption
<1> EventOf[j] \in Events /\ FileOfJob(j) \in Files
  BY DEF FileOfJob
<1>1. CASE StartJob(j)
  BY <1>1 DEF StartJob, Goto, TypeOK, JobStates, RunSteps, rowVars, apiVars,
              cronVars, worldVars
<1>2. CASE CheckNas(j)
  BY <1>2 DEF CheckNas, Goto, TypeOK, RunSteps, rowVars, apiVars, cronVars,
              queueVars, worldVars
<1>3. CASE AcquireLock(j) \/ LockTimeout(j)
  BY <1>3 DEF AcquireLock, LockTimeout, Goto, TypeOK, RunSteps, rowVars,
              apiVars, cronVars, queueVars, worldVars
<1>4. CASE ReadEvent(j)
  BY <1>4 DEF ReadEvent, Goto, TypeOK, RunSteps, rowVars, apiVars, cronVars,
              queueVars, worldVars
<1>5. CASE MarkProcessing(j)
  BY <1>5 DEF MarkProcessing, Goto, SaveRow, TypeOK, Statuses, RunSteps,
              apiVars, cronVars, queueVars, worldVars
<1>6. CASE ApplyToNas(j)
  BY <1>6 DEF ApplyToNas, Goto, TypeOK, RunSteps, rowVars, apiVars, cronVars,
              queueVars
<1>7. CASE TurnBack(j) \/ Reject(j)
  <2>1. CASE TurnBack(j)
    BY <2>1 DEF TurnBack, Goto, TypeOK, RunSteps, rowVars, apiVars, cronVars,
                queueVars
  <2>2. CASE Reject(j)
    BY <2>2 DEF Reject, Goto, SaveRow, TypeOK, Statuses, RunSteps, apiVars,
                cronVars, queueVars
  <2>3. QED
    BY <1>7, <2>1, <2>2
<1>8. CASE MarkDone(j)
  BY <1>8 DEF MarkDone, Goto, SaveRow, TypeOK, Statuses, RunSteps, apiVars,
              cronVars, queueVars, worldVars
<1>9. CASE HandlerThrows(j)
  BY <1>9 DEF HandlerThrows, TypeOK, RunSteps, rowVars, apiVars, cronVars,
              queueVars
<1>10. CASE HandleRetry(j)
  <2>1. copyRetry[j] \in 0..MaxRetries
    BY DEF TypeOK
  <2>2. copyRetry[j] < MaxRetries => copyRetry[j] + 1 \in 0..MaxRetries
    BY <2>1
  <2>3. /\ status' \in [Events -> Statuses]
        /\ retryCount' \in [Events -> 0..MaxRetries]
        /\ copyRetry' \in [Jobs -> 0..MaxRetries]
    <3>1. PICK s \in Statuses, n \in 0..MaxRetries : SaveRow(EventOf[j], s, n)
      BY <1>10, <2>1, <2>2 DEF HandleRetry, Statuses
    <3>2. status' \in [Events -> Statuses] /\ retryCount' \in [Events -> 0..MaxRetries]
      BY <3>1 DEF SaveRow, TypeOK
    <3>3. copyRetry' \in [Jobs -> 0..MaxRetries]
      BY <1>10 DEF HandleRetry, TypeOK
    <3> QED BY <3>2, <3>3
  <2>4. pc' \in [Jobs -> RunSteps]
    BY <1>10 DEF HandleRetry, Goto, TypeOK, RunSteps
  <2>5. QED
    BY <1>10, <2>3, <2>4 DEF HandleRetry, TypeOK, apiVars, cronVars, queueVars,
                             worldVars
<1>11. CASE ReleaseAfterReturn(j) \/ ReleaseAfterThrow(j)
  BY <1>11 DEF ReleaseAfterReturn, ReleaseAfterThrow, Release, Goto, TypeOK,
               RunSteps, rowVars, apiVars, cronVars, queueVars, worldVars
<1>12. CASE CompleteJob(j) \/ FailJob(j)
  BY <1>12 DEF CompleteJob, FailJob, Goto, TypeOK, JobStates, RunSteps,
               rowVars, apiVars, cronVars, worldVars
<1>13. CASE PromoteDelayed(j)
  BY <1>13 DEF PromoteDelayed, TypeOK, JobStates, rowVars, apiVars, cronVars,
               runVars, worldVars
<1>14. QED
  BY <1>1, <1>2, <1>3, <1>4, <1>5, <1>6, <1>7, <1>8, <1>9, <1>10, <1>11,
     <1>12, <1>13 DEF RunStep

(* The initial state is well typed and every step keeps it so.              *)
LEMMA TypeInductive ==
  /\ Init => TypeOK
  /\ TypeOK /\ [Next]_vars => TypeOK'
<1> USE OutboxAssumption
<1>1. Init => TypeOK
  BY DEF Init, TypeOK, Statuses, ApiSteps, JobStates, RunSteps
<1>2. TypeOK /\ [Next]_vars => TypeOK'
  <2> SUFFICES ASSUME TypeOK, [Next]_vars PROVE TypeOK'
    OBVIOUS
  <2>1. CASE \E e \in Events : SaveEvent(e) \/ RequestStep(e) \/ Age(e)
                               \/ RecoverStep(e)
    BY <2>1, TypeRequestStep
  <2>2. CASE RecoverScan
    BY <2>2 DEF RecoverScan, StalePending, TypeOK, rowVars, apiVars, queueVars,
                runVars, worldVars
  <2>3. CASE \E j \in Jobs : StartJob(j) \/ RunStep(j) \/ PromoteDelayed(j)
    BY <2>3, TypeRunStep
  <2>4. CASE \/ \E f \in Files : LockExpires(f)
             \/ \E e \in Events : LoseTarget(e)
    BY <2>4 DEF LockExpires, LoseTarget, TypeOK, rowVars, apiVars, cronVars,
                queueVars, runVars, worldVars
  <2>5. CASE WorkerCrash
    BY <2>5 DEF WorkerCrash, TypeOK, JobStates, RunSteps, rowVars, apiVars
  <2>6. CASE HealthCheck
    BY <2>6 DEF HealthCheck, TypeOK, rowVars, apiVars, cronVars, queueVars,
                runVars
  <2>7. CASE UNCHANGED vars
    BY <2>7 DEF vars, TypeOK
  <2>8. QED
    BY <2>1, <2>2, <2>3, <2>4, <2>5, <2>6, <2>7 DEF Next
<1>3. QED
  BY <1>1, <1>2

(* Every variable keeps its type; in particular no retry counter exceeds    *)
(* maxRetries, whatever stale copies the worker saves.                      *)
THEOREM TypeCorrect == Spec => []TypeOK
  BY TypeInductive, PTL DEF Spec

-----------------------------------------------------------------------------
(* The inductive invariant.                                                 *)

(* A job in the hands of the worker is in the active directory.             *)
RunIsActive == \A j \in Jobs : pc[j] # "idle" => jobState[j] = "active"

(* A run inside withLock holds the lock of its file.                        *)
HolderHasLock == \A j \in Jobs : pc[j] \in Locked => lock[FileOfJob(j)] = j

(* How far a run has come says what has happened to its event.              *)
ProgressHasEffect ==
  \A j \in Jobs :
    (pc[j] \in {"applied", "returning", "ok"} \/ jobState[j] = "completed")
      => Settled(EventOf[j])

(* A handler turns an event back only for something that is gone.           *)
TurnedBackIsGone == turnedBack \subseteq gone

(* addJob came before every save that takes a row out of PENDING.           *)
RegisteredHasJob ==
  \A e \in Events :
    (\/ api[e] = "registered"
     \/ e \in readded
     \/ status[e] \notin {"ABSENT", "PENDING"})
    => \E j \in Jobs : EventOf[j] = e /\ jobState[j] # "none"

(* Every count, in a row or in a worker's copy, stands for an error thrown  *)
(* by a handler; a run about to count one has not counted it yet.           *)
CountsAreThrows ==
  /\ \A e \in Events : retryCount[e] <= throws[e]
  /\ \A j \in Jobs : /\ copyRetry[j] <= throws[EventOf[j]]
                     /\ pc[j] = "catching" => copyRetry[j] < throws[EventOf[j]]

IndInv ==
  /\ TypeOK
  /\ RunIsActive
  /\ HolderHasLock
  /\ ProgressHasEffect
  /\ TurnedBackIsGone
  /\ RegisteredHasJob
  /\ CountsAreThrows
  /\ DoneUnlessGone
  /\ FailedOnlyAfterBudget
  /\ CrashesAreNotAttempts

-----------------------------------------------------------------------------
(* The steps of the request, the clock, the recovery cron, the TTL and the  *)
(* health check touch neither the runs nor the lock of a run, only add jobs *)
(* and save only PENDING and QUEUED.                                        *)

(* What those steps leave alone, and the two things they may do.            *)
OutsideStep ==
  /\ UNCHANGED <<pc, copyRetry, attempts, failedRuns, effect, turnedBack, throws>>
  /\ gone \subseteq gone'
  /\ \A j \in Jobs : \/ jobState'[j] = jobState[j]
                     \/ jobState[j] = "none" /\ jobState'[j] = "waiting"
  /\ \A f \in Files : \/ lock'[f] = lock[f]
                      \/ lock[f] = Orphan /\ lock'[f] = NoJob
  /\ \A e \in Events :
       \/ status'[e] = status[e] /\ retryCount'[e] = retryCount[e]
       \/ status'[e] = "PENDING" /\ retryCount'[e] = 0
       \/ status'[e] = "QUEUED" /\ retryCount'[e] = 0

Outside ==
  \/ \E e \in Events : \/ SaveEvent(e) \/ RequestStep(e) \/ Age(e)
                       \/ RecoverStep(e) \/ LoseTarget(e)
  \/ RecoverScan
  \/ \E f \in Files : LockExpires(f)
  \/ HealthCheck

LEMMA OutsideFrame ==
  ASSUME TypeOK, Outside
  PROVE  OutsideStep
<1>1. CASE \E e \in Events : SaveEvent(e) \/ RequestStep(e) \/ Age(e)
                             \/ RecoverStep(e)
  <2> PICK e \in Events : SaveEvent(e) \/ RequestStep(e) \/ Age(e)
                          \/ RecoverStep(e)
    BY <1>1
  <2>1. CASE SaveEvent(e) \/ SaveQueued(e) \/ RecoverSave(e)
    BY <2>1 DEF SaveEvent, SaveQueued, RecoverSave, SaveRow, OutsideStep,
                TypeOK, queueVars, runVars, worldVars
  <2>2. CASE \E j \in Jobs : RegisterJob(e, j) \/ RecoverAddJob(e, j)
    BY <2>2 DEF RegisterJob, RecoverAddJob, AddJob, OutsideStep, TypeOK,
                rowVars, runVars, worldVars
  <2>3. CASE \/ CommitRequest(e) \/ RollbackRequest(e) \/ AbandonRequest(e)
             \/ Age(e) \/ RecoverFails(e)
    BY <2>3 DEF CommitRequest, RollbackRequest, AbandonRequest, Age,
                RecoverFails, OutsideStep, rowVars, queueVars, runVars,
                worldVars
  <2>4. QED
    BY <2>1, <2>2, <2>3 DEF RequestStep, RecoverStep
<1>2. CASE RecoverScan \/ HealthCheck
  BY <1>2 DEF RecoverScan, HealthCheck, OutsideStep, rowVars, queueVars,
              runVars, worldVars
<1>3. CASE \/ \E f \in Files : LockExpires(f)
           \/ \E e \in Events : LoseTarget(e)
  BY <1>3 DEF LockExpires, LoseTarget, OutsideStep, TypeOK, rowVars, queueVars,
              runVars, worldVars
<1>4. QED
  BY <1>1, <1>2, <1>3 DEF Outside

(* Next is an outside step, a step of one job or a crash.                   *)
LEMMA NextCases ==
  ASSUME [Next]_vars
  PROVE  \/ Outside
         \/ \E j \in Jobs : StartJob(j) \/ RunStep(j) \/ PromoteDelayed(j)
         \/ WorkerCrash
         \/ UNCHANGED vars
  BY DEF Next, Outside

-----------------------------------------------------------------------------
(* Every conjunct of IndInv survives a step of the outside.                 *)

LEMMA OutsideKeepsRuns ==
  ASSUME IndInv, Outside
  PROVE  /\ RunIsActive' /\ HolderHasLock' /\ ProgressHasEffect'
         /\ TurnedBackIsGone'
         /\ CountsAreThrows' /\ DoneUnlessGone' /\ FailedOnlyAfterBudget'
         /\ CrashesAreNotAttempts'
<1> USE OutboxAssumption
<1>1. TypeOK /\ OutsideStep
  BY OutsideFrame DEF IndInv
<1>2. RunIsActive'
  BY <1>1 DEF IndInv, OutsideStep, RunIsActive
<1>3. HolderHasLock'
  <2>1. \A j \in Jobs : FileOfJob(j) \in Files /\ j # Orphan
    BY DEF FileOfJob
  <2>2. QED
    BY <1>1, <2>1 DEF IndInv, OutsideStep, HolderHasLock, Locked
<1>4. ProgressHasEffect' /\ TurnedBackIsGone'
  BY <1>1 DEF IndInv, OutsideStep, ProgressHasEffect, TurnedBackIsGone, Settled
<1>5. CountsAreThrows'
  BY <1>1 DEF IndInv, OutsideStep, CountsAreThrows, TypeOK
<1>6. DoneUnlessGone' /\ FailedOnlyAfterBudget'
  BY <1>1 DEF IndInv, OutsideStep, DoneUnlessGone, FailedOnlyAfterBudget
<1>7. CrashesAreNotAttempts'
  BY <1>1 DEF IndInv, OutsideStep, CrashesAreNotAttempts, TypeOK
<1>8. QED
  BY <1>2, <1>3, <1>4, <1>5, <1>6, <1>7

(* A row leaves PENDING only after its job is in the queue.                 *)
LEMMA OutsideKeepsRegistered ==
  ASSUME IndInv, Outside
  PROVE  RegisteredHasJob'
<1> USE OutboxAssumption
<1> DEFINE HasJob(e) == \E j \in Jobs : EventOf[j] = e /\ jobState[j] # "none"
<1>1. TypeOK /\ RegisteredHasJob /\ OutsideStep
  BY OutsideFrame DEF IndInv
<1>2. \A e \in Events : HasJob(e) => HasJob(e)'
  BY <1>1 DEF OutsideStep
<1> SUFFICES ASSUME NEW e \in Events,
                    \/ api'[e] = "registered"
                    \/ e \in readded'
                    \/ status'[e] \notin {"ABSENT", "PENDING"}
             PROVE  HasJob(e)'
  BY DEF RegisteredHasJob
<1>3. HasJob(e) \/ HasJob(e)'
  <2>1. CASE \E d \in Events :
                SaveEvent(d) \/ SaveQueued(d) \/ RecoverSave(d)
    BY <2>1, <1>1 DEF SaveEvent, SaveQueued, RecoverSave, SaveRow, TypeOK,
                      RegisteredHasJob, apiVars, cronVars
  <2>2. CASE \E d \in Events, j \in Jobs :
                RegisterJob(d, j) \/ RecoverAddJob(d, j)
    BY <2>2, <1>1 DEF RegisterJob, RecoverAddJob, AddJob, TypeOK,
                      RegisteredHasJob, apiVars, cronVars, rowVars
  <2>3. CASE \E d \in Events :
                \/ CommitRequest(d) \/ RollbackRequest(d) \/ AbandonRequest(d)
                \/ Age(d) \/ RecoverFails(d)
    BY <2>3, <1>1 DEF CommitRequest, RollbackRequest, AbandonRequest, Age,
                      RecoverFails, TypeOK, RegisteredHasJob, apiVars,
                      cronVars, rowVars
  <2>4. CASE \/ RecoverScan \/ HealthCheck
             \/ \E f \in Files : LockExpires(f)
             \/ \E d \in Events : LoseTarget(d)
    BY <2>4, <1>1 DEF RecoverScan, HealthCheck, LockExpires, LoseTarget,
                      RegisteredHasJob, apiVars, cronVars, rowVars
  <2>5. QED
    BY <2>1, <2>2, <2>3, <2>4 DEF Outside, RequestStep, RecoverStep
<1>4. QED
  BY <1>2, <1>3

-----------------------------------------------------------------------------
(* Every conjunct of IndInv survives a step of a run.                       *)

(* A run is in the active directory from StartJob to CompleteJob / FailJob. *)
LEMMA RunKeepsActive ==
  ASSUME IndInv, NEW j \in Jobs,
         StartJob(j) \/ RunStep(j) \/ PromoteDelayed(j)
  PROVE  RunIsActive'
<1> USE OutboxAssumption DEF IndInv
<1> EventOf[j] \in Events /\ FileOfJob(j) \in Files
  BY DEF FileOfJob
<1>1. CASE StartJob(j) \/ PromoteDelayed(j) \/ CompleteJob(j)
           \/ FailJob(j)
  BY <1>1 DEF
     StartJob, PromoteDelayed, CompleteJob, FailJob, Goto, RunIsActive,
     TypeOK, queueVars, runVars
<1>2. CASE CheckNas(j) \/ LockTimeout(j) \/ ReadEvent(j)
  BY <1>2 DEF
     CheckNas, LockTimeout, ReadEvent, Goto, RunIsActive, TypeOK, queueVars,
     runVars
<1>3. CASE AcquireLock(j)
  BY <1>3 DEF AcquireLock, Goto, RunIsActive, TypeOK, queueVars, runVars
<1>4. CASE MarkProcessing(j) \/ ApplyToNas(j) \/ TurnBack(j)
           \/ Reject(j) \/ MarkDone(j)
  BY <1>4 DEF
     MarkProcessing, ApplyToNas, TurnBack, Reject, MarkDone, Goto, SaveRow, RunIsActive,
     TypeOK, queueVars, runVars
<1>5. CASE HandlerThrows(j) \/ HandleRetry(j)
  BY <1>5 DEF
     HandlerThrows, HandleRetry, Goto, SaveRow, RunIsActive, TypeOK,
     queueVars, runVars
<1>6. CASE ReleaseAfterReturn(j)
  BY <1>6 DEF
     ReleaseAfterReturn, Goto, Release, RunIsActive, TypeOK, queueVars,
     runVars
<1>7. CASE ReleaseAfterThrow(j)
  BY <1>7 DEF
     ReleaseAfterThrow, Goto, Release, RunIsActive, TypeOK, queueVars, runVars
<1>8. QED
  BY <1>1, <1>2, <1>3, <1>4, <1>5, <1>6, <1>7 DEF RunStep

(* A run takes a free lock only and releases no lock but its own.            *)
LEMMA RunKeepsLock ==
  ASSUME IndInv, NEW j \in Jobs,
         StartJob(j) \/ RunStep(j) \/ PromoteDelayed(j)
  PROVE  HolderHasLock'
<1> USE OutboxAssumption DEF IndInv
<1> EventOf[j] \in Events /\ FileOfJob(j) \in Files
  BY DEF FileOfJob
<1>1. CASE StartJob(j) \/ PromoteDelayed(j) \/ CompleteJob(j)
           \/ FailJob(j)
  BY <1>1 DEF
     StartJob, PromoteDelayed, CompleteJob, FailJob, Goto, HolderHasLock,
     Locked, TypeOK, runVars
<1>2. CASE CheckNas(j) \/ LockTimeout(j) \/ ReadEvent(j)
  BY <1>2 DEF
     CheckNas, LockTimeout, ReadEvent, Goto, HolderHasLock, Locked, TypeOK,
     runVars
<1>3. CASE AcquireLock(j)
  BY <1>3 DEF AcquireLock, Goto, HolderHasLock, Locked, TypeOK, runVars
<1>4. CASE MarkProcessing(j) \/ ApplyToNas(j) \/ TurnBack(j)
           \/ Reject(j) \/ MarkDone(j)
  BY <1>4 DEF
     MarkProcessing, ApplyToNas, TurnBack, Reject, MarkDone, Goto, SaveRow,
     HolderHasLock, Locked, TypeOK, runVars
<1>5. CASE HandlerThrows(j) \/ HandleRetry(j)
  BY <1>5 DEF
     HandlerThrows, HandleRetry, Goto, SaveRow, HolderHasLock, Locked, TypeOK,
     runVars
<1>6. CASE ReleaseAfterReturn(j)
  BY <1>6 DEF
     ReleaseAfterReturn, Goto, Release, HolderHasLock, Locked, TypeOK, runVars
<1>7. CASE ReleaseAfterThrow(j)
  BY <1>7 DEF
     ReleaseAfterThrow, Goto, Release, HolderHasLock, Locked, TypeOK, runVars
<1>8. QED
  BY <1>1, <1>2, <1>3, <1>4, <1>5, <1>6, <1>7 DEF RunStep

(* effect and turnedBack only grow, and turnedBack only by what is gone.     *)
LEMMA RunKeepsProgress ==
  ASSUME IndInv, NEW j \in Jobs,
         StartJob(j) \/ RunStep(j) \/ PromoteDelayed(j)
  PROVE  ProgressHasEffect' /\ TurnedBackIsGone'
<1> USE OutboxAssumption DEF IndInv
<1> EventOf[j] \in Events /\ FileOfJob(j) \in Files
  BY DEF FileOfJob
<1>1. CASE StartJob(j) \/ PromoteDelayed(j) \/ CompleteJob(j)
           \/ FailJob(j)
  BY <1>1 DEF
     StartJob, PromoteDelayed, CompleteJob, FailJob, Goto, ProgressHasEffect, TurnedBackIsGone,
     RunIsActive, Settled, TypeOK, worldVars, queueVars, runVars
<1>2. CASE CheckNas(j) \/ LockTimeout(j) \/ ReadEvent(j)
  BY <1>2 DEF
     CheckNas, LockTimeout, ReadEvent, Goto, ProgressHasEffect, TurnedBackIsGone, RunIsActive,
     Settled, TypeOK, worldVars, queueVars, runVars
<1>3. CASE AcquireLock(j)
  BY <1>3 DEF
     AcquireLock, Goto, ProgressHasEffect, TurnedBackIsGone, RunIsActive, Settled, TypeOK,
     worldVars, queueVars, runVars
<1>4. CASE MarkProcessing(j) \/ ApplyToNas(j) \/ TurnBack(j)
           \/ Reject(j) \/ MarkDone(j)
  BY <1>4 DEF
     MarkProcessing, ApplyToNas, TurnBack, Reject, MarkDone, Goto, SaveRow,
     ProgressHasEffect, TurnedBackIsGone, RunIsActive, Settled, TypeOK, worldVars, queueVars,
     runVars
<1>5. CASE HandlerThrows(j) \/ HandleRetry(j)
  BY <1>5 DEF
     HandlerThrows, HandleRetry, Goto, SaveRow, ProgressHasEffect, TurnedBackIsGone,
     RunIsActive, Settled, TypeOK, worldVars, queueVars, runVars
<1>6. CASE ReleaseAfterReturn(j)
  BY <1>6 DEF
     ReleaseAfterReturn, Goto, Release, ProgressHasEffect, TurnedBackIsGone, RunIsActive,
     Settled, TypeOK, worldVars, queueVars, runVars
<1>7. CASE ReleaseAfterThrow(j)
  BY <1>7 DEF
     ReleaseAfterThrow, Goto, Release, ProgressHasEffect, TurnedBackIsGone, RunIsActive,
     Settled, TypeOK, worldVars, queueVars, runVars
<1>8. QED
  BY <1>1, <1>2, <1>3, <1>4, <1>5, <1>6, <1>7 DEF RunStep

(* The saves of a run are about an event whose job is active.               *)
LEMMA RunKeepsRegistered ==
  ASSUME IndInv, NEW j \in Jobs,
         StartJob(j) \/ RunStep(j) \/ PromoteDelayed(j)
  PROVE  RegisteredHasJob'
<1> USE OutboxAssumption DEF IndInv
<1> EventOf[j] \in Events /\ FileOfJob(j) \in Files
  BY DEF FileOfJob
<1>1. CASE StartJob(j) \/ PromoteDelayed(j) \/ CompleteJob(j)
           \/ FailJob(j)
  BY <1>1 DEF
     StartJob, PromoteDelayed, CompleteJob, FailJob, Goto, RegisteredHasJob,
     RunIsActive, TypeOK, rowVars, apiVars, cronVars, queueVars, worldVars,
     runVars
<1>2. CASE CheckNas(j) \/ LockTimeout(j) \/ ReadEvent(j)
  BY <1>2 DEF
     CheckNas, LockTimeout, ReadEvent, Goto, RegisteredHasJob, RunIsActive,
     TypeOK, rowVars, apiVars, cronVars, queueVars, worldVars, runVars
<1>3. CASE AcquireLock(j)
  BY <1>3 DEF
     AcquireLock, Goto, RegisteredHasJob, RunIsActive, TypeOK, rowVars,
     apiVars, cronVars, queueVars, worldVars, runVars
<1>4. CASE MarkProcessing(j) \/ ApplyToNas(j) \/ TurnBack(j)
           \/ Reject(j) \/ MarkDone(j)
  BY <1>4 DEF
     MarkProcessing, ApplyToNas, TurnBack, Reject, MarkDone, Goto, SaveRow,
     RegisteredHasJob, RunIsActive, TypeOK, rowVars, apiVars, cronVars,
     queueVars, worldVars, runVars
<1>5. CASE HandlerThrows(j) \/ HandleRetry(j)
  BY <1>5 DEF
     HandlerThrows, HandleRetry, Goto, SaveRow, RegisteredHasJob, RunIsActive,
     TypeOK, rowVars, apiVars, cronVars, queueVars, worldVars, runVars
<1>6. CASE ReleaseAfterReturn(j)
  BY <1>6 DEF
     ReleaseAfterReturn, Goto, Release, RegisteredHasJob, RunIsActive, TypeOK,
     rowVars, apiVars, cronVars, queueVars, worldVars, runVars
<1>7. CASE ReleaseAfterThrow(j)
  BY <1>7 DEF
     ReleaseAfterThrow, Goto, Release, RegisteredHasJob, RunIsActive, TypeOK,
     rowVars, apiVars, cronVars, queueVars, worldVars, runVars
<1>8. QED
  BY <1>1, <1>2, <1>3, <1>4, <1>5, <1>6, <1>7 DEF RunStep

(* A count is written only from catching, after its error.                  *)
LEMMA RunKeepsCounts ==
  ASSUME IndInv, NEW j \in Jobs,
         StartJob(j) \/ RunStep(j) \/ PromoteDelayed(j)
  PROVE  CountsAreThrows'
<1> USE OutboxAssumption DEF IndInv
<1> EventOf[j] \in Events /\ FileOfJob(j) \in Files
  BY DEF FileOfJob
<1>1. CASE StartJob(j) \/ PromoteDelayed(j) \/ CompleteJob(j)
           \/ FailJob(j)
  BY <1>1 DEF
     StartJob, PromoteDelayed, CompleteJob, FailJob, Goto, CountsAreThrows,
     TypeOK, rowVars, apiVars, cronVars, queueVars, worldVars, runVars
<1>2. CASE CheckNas(j) \/ LockTimeout(j) \/ ReadEvent(j)
  BY <1>2 DEF
     CheckNas, LockTimeout, ReadEvent, Goto, CountsAreThrows, TypeOK, rowVars,
     apiVars, cronVars, queueVars, worldVars, runVars
<1>3. CASE AcquireLock(j)
  BY <1>3 DEF
     AcquireLock, Goto, CountsAreThrows, TypeOK, rowVars, apiVars, cronVars,
     queueVars, worldVars, runVars
<1>4. CASE MarkProcessing(j) \/ ApplyToNas(j) \/ TurnBack(j)
           \/ Reject(j) \/ MarkDone(j)
  BY <1>4 DEF
     MarkProcessing, ApplyToNas, TurnBack, Reject, MarkDone, Goto, SaveRow,
     CountsAreThrows, TypeOK, rowVars, apiVars, cronVars, queueVars,
     worldVars, runVars
<1>5. CASE HandlerThrows(j) \/ HandleRetry(j)
  BY <1>5 DEF
     HandlerThrows, HandleRetry, Goto, SaveRow, CountsAreThrows, TypeOK,
     rowVars, apiVars, cronVars, queueVars, worldVars, runVars
<1>6. CASE ReleaseAfterReturn(j)
  BY <1>6 DEF
     ReleaseAfterReturn, Goto, Release, CountsAreThrows, TypeOK, rowVars,
     apiVars, cronVars, queueVars, worldVars, runVars
<1>7. CASE ReleaseAfterThrow(j)
  BY <1>7 DEF
     ReleaseAfterThrow, Goto, Release, CountsAreThrows, TypeOK, rowVars,
     apiVars, cronVars, queueVars, worldVars, runVars
<1>8. QED
  BY <1>1, <1>2, <1>3, <1>4, <1>5, <1>6, <1>7 DEF RunStep

(* DONE is saved after the effect, FAILED after a refusal or the budget.    *)
LEMMA RunKeepsVerdicts ==
  ASSUME IndInv, NEW j \in Jobs,
         StartJob(j) \/ RunStep(j) \/ PromoteDelayed(j)
  PROVE  DoneUnlessGone' /\ FailedOnlyAfterBudget'
<1> USE OutboxAssumption DEF IndInv
<1> EventOf[j] \in Events /\ FileOfJob(j) \in Files
  BY DEF FileOfJob
<1>1. CASE StartJob(j) \/ PromoteDelayed(j) \/ CompleteJob(j)
           \/ FailJob(j)
  BY <1>1 DEF
     StartJob, PromoteDelayed, CompleteJob, FailJob, Goto, DoneUnlessGone,
     FailedOnlyAfterBudget, ProgressHasEffect, TurnedBackIsGone, Settled, CountsAreThrows, TypeOK,
     rowVars, apiVars, cronVars, queueVars, worldVars, runVars
<1>2. CASE CheckNas(j) \/ LockTimeout(j) \/ ReadEvent(j)
  BY <1>2 DEF
     CheckNas, LockTimeout, ReadEvent, Goto, DoneUnlessGone,
     FailedOnlyAfterBudget, ProgressHasEffect, TurnedBackIsGone, Settled, CountsAreThrows, TypeOK,
     rowVars, apiVars, cronVars, queueVars, worldVars, runVars
<1>3. CASE AcquireLock(j)
  BY <1>3 DEF
     AcquireLock, Goto, DoneUnlessGone, FailedOnlyAfterBudget,
     ProgressHasEffect, TurnedBackIsGone, Settled, CountsAreThrows, TypeOK, rowVars, apiVars, cronVars,
     queueVars, worldVars, runVars
<1>4. CASE MarkProcessing(j) \/ ApplyToNas(j) \/ TurnBack(j)
           \/ Reject(j) \/ MarkDone(j)
  BY <1>4 DEF
     MarkProcessing, ApplyToNas, TurnBack, Reject, MarkDone, Goto, SaveRow,
     DoneUnlessGone, FailedOnlyAfterBudget, ProgressHasEffect, TurnedBackIsGone, Settled,
     CountsAreThrows, TypeOK, rowVars, apiVars, cronVars, queueVars,
     worldVars, runVars
<1>5. CASE HandlerThrows(j) \/ HandleRetry(j)
  BY <1>5 DEF
     HandlerThrows, HandleRetry, Goto, SaveRow, DoneUnlessGone,
     FailedOnlyAfterBudget, ProgressHasEffect, TurnedBackIsGone, Settled, CountsAreThrows, TypeOK,
     rowVars, apiVars, cronVars, queueVars, worldVars, runVars
<1>6. CASE ReleaseAfterReturn(j)
  BY <1>6 DEF
     ReleaseAfterReturn, Goto, Release, DoneUnlessGone,
     FailedOnlyAfterBudget, ProgressHasEffect, TurnedBackIsGone, Settled, CountsAreThrows, TypeOK,
     rowVars, apiVars, cronVars, queueVars, worldVars, runVars
<1>7. CASE ReleaseAfterThrow(j)
  BY <1>7 DEF
     ReleaseAfterThrow, Goto, Release, DoneUnlessGone,
     FailedOnlyAfterBudget, ProgressHasEffect, TurnedBackIsGone, Settled, CountsAreThrows, TypeOK,
     rowVars, apiVars, cronVars, queueVars, worldVars, runVars
<1>8. QED
  BY <1>1, <1>2, <1>3, <1>4, <1>5, <1>6, <1>7 DEF RunStep

(* An attempt is counted at the start of a run and a failed run at its end. *)
LEMMA RunKeepsAttempts ==
  ASSUME IndInv, NEW j \in Jobs,
         StartJob(j) \/ RunStep(j) \/ PromoteDelayed(j)
  PROVE  CrashesAreNotAttempts'
<1> USE OutboxAssumption DEF IndInv
<1> EventOf[j] \in Events /\ FileOfJob(j) \in Files
  BY DEF FileOfJob
<1>1. CASE StartJob(j) \/ PromoteDelayed(j) \/ CompleteJob(j)
           \/ FailJob(j)
  BY <1>1 DEF
     StartJob, PromoteDelayed, CompleteJob, FailJob, Goto,
     CrashesAreNotAttempts, RunIsActive, TypeOK, rowVars, apiVars, cronVars,
     queueVars, worldVars, runVars
<1>2. CASE CheckNas(j) \/ LockTimeout(j) \/ ReadEvent(j)
  BY <1>2 DEF
     CheckNas, LockTimeout, ReadEvent, Goto, CrashesAreNotAttempts,
     RunIsActive, TypeOK, rowVars, apiVars, cronVars, queueVars, worldVars,
     runVars
<1>3. CASE AcquireLock(j)
  BY <1>3 DEF
     AcquireLock, Goto, CrashesAreNotAttempts, RunIsActive, TypeOK, rowVars,
     apiVars, cronVars, queueVars, worldVars, runVars
<1>4. CASE MarkProcessing(j) \/ ApplyToNas(j) \/ TurnBack(j)
           \/ Reject(j) \/ MarkDone(j)
  BY <1>4 DEF
     MarkProcessing, ApplyToNas, TurnBack, Reject, MarkDone, Goto, SaveRow,
     CrashesAreNotAttempts, RunIsActive, TypeOK, rowVars, apiVars, cronVars,
     queueVars, worldVars, runVars
<1>5. CASE HandlerThrows(j) \/ HandleRetry(j)
  BY <1>5 DEF
     HandlerThrows, HandleRetry, Goto, SaveRow, CrashesAreNotAttempts,
     RunIsActive, TypeOK, rowVars, apiVars, cronVars, queueVars, worldVars,
     runVars
<1>6. CASE ReleaseAfterReturn(j)
  BY <1>6 DEF
     ReleaseAfterReturn, Goto, Release, CrashesAreNotAttempts, RunIsActive,
     TypeOK, rowVars, apiVars, cronVars, queueVars, worldVars, runVars
<1>7. CASE ReleaseAfterThrow(j)
  BY <1>7 DEF
     ReleaseAfterThrow, Goto, Release, CrashesAreNotAttempts, RunIsActive,
     TypeOK, rowVars, apiVars, cronVars, queueVars, worldVars, runVars
<1>8. QED
  BY <1>1, <1>2, <1>3, <1>4, <1>5, <1>6, <1>7 DEF RunStep

-----------------------------------------------------------------------------
(* Every conjunct of IndInv survives a crash, and holds at the start.       *)

LEMMA CrashKeeps ==
  ASSUME IndInv, WorkerCrash
  PROVE  IndInv'
<1> USE OutboxAssumption DEF IndInv
<1>1. TypeOK'
  BY TypeInductive DEF Next
<1>2. RunIsActive' /\ HolderHasLock'
  BY DEF WorkerCrash, RunIsActive, HolderHasLock, Locked
<1>3. ProgressHasEffect' /\ TurnedBackIsGone'
  BY DEF WorkerCrash, ProgressHasEffect, TurnedBackIsGone, Settled, rowVars
<1>4. CountsAreThrows'
  BY DEF WorkerCrash, CountsAreThrows, TypeOK, rowVars
<1>5. RegisteredHasJob'
  BY DEF WorkerCrash, RegisteredHasJob, rowVars, apiVars
<1>6. DoneUnlessGone' /\ FailedOnlyAfterBudget'
  BY DEF WorkerCrash, DoneUnlessGone, FailedOnlyAfterBudget, rowVars
<1>7. CrashesAreNotAttempts'
  BY DEF WorkerCrash, CrashesAreNotAttempts, TypeOK
<1>8. QED
  BY <1>1, <1>2, <1>3, <1>4, <1>5, <1>6, <1>7

LEMMA InitIndInv == Init => IndInv
<1> SUFFICES ASSUME Init PROVE IndInv
  OBVIOUS
<1>1. TypeOK
  BY TypeInductive
<1>2. /\ RunIsActive /\ HolderHasLock /\ ProgressHasEffect
      /\ TurnedBackIsGone /\ RegisteredHasJob
  BY DEF Init, RunIsActive, HolderHasLock, Locked, ProgressHasEffect,
         TurnedBackIsGone, RegisteredHasJob
<1>3. CountsAreThrows
  BY OutboxAssumption DEF Init, CountsAreThrows
<1>4. DoneUnlessGone /\ FailedOnlyAfterBudget /\ CrashesAreNotAttempts
  BY DEF Init, DoneUnlessGone, FailedOnlyAfterBudget, CrashesAreNotAttempts
<1>5. QED
  BY <1>1, <1>2, <1>3, <1>4 DEF IndInv

LEMMA StepIndInv == IndInv /\ [Next]_vars => IndInv'
<1> SUFFICES ASSUME IndInv, [Next]_vars PROVE IndInv'
  OBVIOUS
<1>0. TypeOK'
  BY TypeInductive DEF IndInv
<1>1. CASE Outside
  BY <1>0, <1>1, OutsideKeepsRuns, OutsideKeepsRegistered DEF IndInv
<1>2. CASE \E j \in Jobs : StartJob(j) \/ RunStep(j) \/ PromoteDelayed(j)
  BY <1>0, <1>2, RunKeepsActive, RunKeepsLock, RunKeepsProgress,
     RunKeepsRegistered, RunKeepsCounts, RunKeepsVerdicts, RunKeepsAttempts
     DEF IndInv
<1>3. CASE WorkerCrash
  BY <1>3, CrashKeeps
<1>4. CASE UNCHANGED vars
  BY <1>4 DEF vars, IndInv, TypeOK, RunIsActive, HolderHasLock,
     ProgressHasEffect, TurnedBackIsGone, RegisteredHasJob, CountsAreThrows,
     DoneUnlessGone, FailedOnlyAfterBudget, CrashesAreNotAttempts, Settled
<1>5. QED
  BY <1>1, <1>2, <1>3, <1>4, NextCases

(* The inductive invariant holds in every reachable state.                  *)
THEOREM InductiveInvariant == Spec => []IndInv
  BY InitIndInv, StepIndInv, PTL DEF Spec

-----------------------------------------------------------------------------
(* The properties the runs check, for every instance.                       *)

(* No accepted operation is lost: a row that left PENDING has a job, and a  *)
(* completed job has carried the operation out or turned it back.           *)
THEOREM OperationsAreNotLost == Spec => []NoLostOperation
<1>1. IndInv => NoLostOperation
  <2> SUFFICES ASSUME IndInv, NEW e \in Events, Exists(e), ~Settled(e),
                      status[e] # "PENDING"
               PROVE  \E j \in Jobs : /\ EventOf[j] = e
                                      /\ Live(j) \/ jobState[j] = "failed"
    BY DEF NoLostOperation
  <2>1. PICK j \in Jobs : EventOf[j] = e /\ jobState[j] # "none"
    BY DEF IndInv, RegisteredHasJob, Exists
  <2>2. jobState[j] # "completed"
    BY <2>1 DEF IndInv, ProgressHasEffect
  <2>3. QED
    BY <2>1, <2>2 DEF IndInv, TypeOK, JobStates, Live
<1>2. QED
  BY <1>1, InductiveInvariant, PTL

(* Two runs inside handlers of one file are the same run: each holds the    *)
(* one lock of the file.                                                    *)
THEOREM HandlersExclude == Spec => []OneHandlerPerFile
<1>1. IndInv => OneHandlerPerFile
  BY DEF IndInv, HolderHasLock, OneHandlerPerFile
<1>2. QED
  BY <1>1, InductiveInvariant, PTL

(* A row says DONE only after its NAS operation, or when the folder or row  *)
(* it needs was found deleted: whatever stale copies of the row were saved, *)
(* by the request, the recovery cron, or a run of a duplicate job.          *)
THEOREM DoneIsEarned == Spec => []DoneUnlessGone
  BY InductiveInvariant, PTL DEF IndInv

(* FAILED is never reported before the retry budget is spent.               *)
THEOREM FailuresAreEarned == Spec => []FailedOnlyAfterBudget
  BY InductiveInvariant, PTL DEF IndInv

(* Crashes are not charged to the attempts of a job.                        *)
THEOREM CrashesAreFree == Spec => []CrashesAreNotAttempts
  BY InductiveInvariant, PTL DEF IndInv
-----------------------------------------------------------------------------
(* The outbox and the queue it uses.                                        *)

(* A job that will run again has an attempt left, and the last attempt is   *)
(* number maxAttempts + 1.                                                  *)
AttemptLeft ==
  \A j \in Jobs :
    /\ attempts[j] <= MaxAttempts + 1
    /\ jobState[j] \in {"none", "waiting", "delayed"} => attempts[j] <= MaxAttempts

(* The steps that touch the queue.                                          *)
LEMMA QueueWriters ==
  ASSUME [Next]_vars
  PROVE  \/ \E e \in Events, j \in Jobs : AddJob(e, j)
         \/ \E j \in Jobs : StartJob(j) \/ PromoteDelayed(j)
         \/ \E j \in Jobs : CompleteJob(j) \/ FailJob(j)
         \/ WorkerCrash
         \/ UNCHANGED queueVars
<1>1. ASSUME NEW e \in Events, SaveEvent(e) \/ RequestStep(e) \/ Age(e) \/ RecoverStep(e)
      PROVE  (\E j \in Jobs : AddJob(e, j)) \/ UNCHANGED queueVars
  BY <1>1 DEF SaveEvent, RequestStep, CommitRequest, RollbackRequest, RegisterJob,
              SaveQueued, AbandonRequest, Age, RecoverStep, RecoverAddJob,
              RecoverSave, RecoverFails
<1>2. ASSUME NEW j \in Jobs, RunStep(j)
      PROVE  CompleteJob(j) \/ FailJob(j) \/ UNCHANGED queueVars
  <2>1. CASE CheckNas(j) \/ AcquireLock(j) \/ LockTimeout(j) \/ ReadEvent(j)
             \/ MarkProcessing(j) \/ ApplyToNas(j) \/ TurnBack(j) \/ Reject(j)
    BY <2>1 DEF CheckNas, AcquireLock, LockTimeout, ReadEvent, MarkProcessing,
                ApplyToNas, TurnBack, Reject
  <2>2. CASE MarkDone(j) \/ HandlerThrows(j) \/ HandleRetry(j)
             \/ ReleaseAfterReturn(j) \/ ReleaseAfterThrow(j)
    BY <2>2 DEF MarkDone, HandlerThrows, HandleRetry, ReleaseAfterReturn,
                ReleaseAfterThrow
  <2>3. QED
    BY <1>2, <2>1, <2>2 DEF RunStep
<1>3. (\/ RecoverScan \/ HealthCheck
       \/ \E f \in Files : LockExpires(f)
       \/ \E e \in Events : LoseTarget(e)) => UNCHANGED queueVars
  BY DEF RecoverScan, HealthCheck, LockExpires, LoseTarget
<1>4. UNCHANGED vars => UNCHANGED queueVars
  BY DEF vars, queueVars
<1>5. QED
  BY <1>1, <1>2, <1>3, <1>4 DEF Next

(* What those steps do to the job they are about, and to no other.          *)
LEMMA JobMoves ==
  ASSUME TypeOK, NEW j \in Jobs,
         \/ \E e \in Events : AddJob(e, j)
         \/ StartJob(j) \/ PromoteDelayed(j) \/ CompleteJob(j) \/ FailJob(j)
  PROVE  /\ \A i \in Jobs \ {j} : /\ jobState'[i] = jobState[i]
                                  /\ attempts'[i] = attempts[i]
         /\ \/ jobState[j] = "none" /\ jobState'[j] = "waiting" /\ attempts'[j] = attempts[j]
            \/ jobState[j] = "waiting" /\ jobState'[j] = "active" /\ attempts'[j] = attempts[j] + 1
            \/ jobState[j] = "delayed" /\ jobState'[j] = "waiting" /\ attempts'[j] = attempts[j]
            \/ CompleteJob(j) /\ jobState'[j] = "completed" /\ attempts'[j] = attempts[j]
            \/ FailJob(j) /\ attempts'[j] = attempts[j]
               /\ jobState'[j] = IF attempts[j] <= MaxAttempts THEN "delayed" ELSE "failed"
<1>1. CASE \E e \in Events : AddJob(e, j)
  BY <1>1 DEF AddJob, TypeOK
<1>2. CASE StartJob(j)
  BY <1>2 DEF StartJob, TypeOK
<1>3. CASE PromoteDelayed(j)
  BY <1>3 DEF PromoteDelayed, TypeOK
<1>4. CASE CompleteJob(j)
  BY <1>4 DEF CompleteJob, TypeOK
<1>5. CASE FailJob(j)
  BY <1>5 DEF FailJob, TypeOK
<1>6. QED
  BY <1>1, <1>2, <1>3, <1>4, <1>5

LEMMA AttemptLeftStep ==
  ASSUME IndInv, AttemptLeft, [Next]_vars
  PROVE  AttemptLeft'
<1> USE OutboxAssumption
<1>1. TypeOK
  BY DEF IndInv
<1>2. CASE \E j \in Jobs : \/ \E e \in Events : AddJob(e, j)
                           \/ StartJob(j) \/ PromoteDelayed(j)
                           \/ CompleteJob(j) \/ FailJob(j)
  <2>1. PICK j \in Jobs : \/ \E e \in Events : AddJob(e, j)
                          \/ StartJob(j) \/ PromoteDelayed(j)
                          \/ CompleteJob(j) \/ FailJob(j)
    BY <1>2
  <2>2. \A i \in Jobs \ {j} : jobState'[i] = jobState[i] /\ attempts'[i] = attempts[i]
    BY <1>1, <2>1, JobMoves
  <2>3. attempts[j] \in Nat /\ MaxAttempts \in Nat
    BY <1>1 DEF TypeOK
  <2>4. /\ attempts'[j] <= MaxAttempts + 1
        /\ jobState'[j] \in {"none", "waiting", "delayed"} => attempts'[j] <= MaxAttempts
    <3>1. /\ attempts[j] <= MaxAttempts + 1
          /\ jobState[j] \in {"none", "waiting", "delayed"} => attempts[j] <= MaxAttempts
      BY DEF AttemptLeft
    <3>2. QED
      BY <1>1, <2>1, <2>3, <3>1, JobMoves
  <2>5. QED
    BY <2>2, <2>4 DEF AttemptLeft
<1>3. CASE WorkerCrash
  <2> SUFFICES ASSUME NEW j \in Jobs
               PROVE  /\ attempts'[j] <= MaxAttempts + 1
                      /\ jobState'[j] \in {"none", "waiting", "delayed"}
                           => attempts'[j] <= MaxAttempts
    BY DEF AttemptLeft
  <2>1. attempts[j] \in Nat /\ MaxAttempts \in Nat
    BY <1>1 DEF TypeOK
  <2>2. /\ attempts[j] <= MaxAttempts + 1
        /\ jobState[j] \in {"none", "waiting", "delayed"} => attempts[j] <= MaxAttempts
    BY DEF AttemptLeft
  <2>3. /\ jobState'[j] = IF jobState[j] = "active" THEN "waiting" ELSE jobState[j]
        /\ attempts'[j] = IF jobState[j] = "active" /\ attempts[j] > 0
                            THEN attempts[j] - 1 ELSE attempts[j]
    BY <1>3 DEF WorkerCrash
  <2>4. QED
    BY <2>1, <2>2, <2>3
<1>4. CASE UNCHANGED queueVars
  BY <1>4 DEF queueVars, AttemptLeft
<1>5. QED
  BY <1>2, <1>3, <1>4, QueueWriters

(* A job is charged at most maxAttempts + 1 attempts, and one that waits    *)
(* has one left.                                                            *)
THEOREM AttemptsWithinBudget == Spec => []AttemptLeft
<1>1. Init => AttemptLeft
  BY OutboxAssumption DEF Init, AttemptLeft
<1>2. QED
  BY <1>1, AttemptLeftStep, InductiveInvariant, PTL DEF Spec

(* A step that leaves every job in its state, as the queue sees it.         *)
LEMMA QueueStutters ==
  ASSUME TypeOK, UNCHANGED failedRuns, \A j \in Jobs : QueueState(j)' = QueueState(j)
  PROVE  UNCHANGED Queue!vars
<1>1. \A j \in Jobs : jobState[j] = "completed" <=> QueueState(j) = "done"
  BY DEF QueueState, Live
<1>2. \A j \in Jobs : jobState'[j] = "completed" <=> QueueState(j)' = "done"
  BY DEF QueueState, Live
<1>3. QED
  BY <1>1, <1>2 DEF Queue!vars

(* What a step does to one job is what the queue's step does.               *)
LEMMA QueueSteps ==
  ASSUME IndInv, AttemptLeft, [Next]_vars
  PROVE  [Queue!Next]_(Queue!vars)
<1> USE OutboxAssumption
<1>1. TypeOK /\ CrashesAreNotAttempts
  BY DEF IndInv
<1> DEFINE st == [j \in Jobs |-> QueueState(j)]
           ended == {j \in Jobs : jobState[j] = "completed"}
<1>2. ASSUME NEW e \in Events, NEW j \in Jobs, AddJob(e, j) PROVE Queue!Add(j)
  <2>1. /\ \A i \in Jobs \ {j} : jobState'[i] = jobState[i]
        /\ jobState[j] = "none" /\ jobState'[j] = "waiting" /\ UNCHANGED failedRuns
    BY <1>1, <1>2 DEF AddJob, TypeOK
  <2>2. st' = [st EXCEPT ![j] = "pending"] /\ st[j] = "new"
    BY <2>1 DEF QueueState, Live
  <2>3. ended' = ended
    BY <2>1
  <2>4. QED
    BY <2>1, <2>2, <2>3 DEF Queue!Add
<1>3. ASSUME NEW j \in Jobs, StartJob(j) \/ PromoteDelayed(j) PROVE UNCHANGED Queue!vars
  <2>1. /\ \A i \in Jobs \ {j} : jobState'[i] = jobState[i]
        /\ jobState[j] \in {"waiting", "delayed"} /\ jobState'[j] \in {"waiting", "active"}
        /\ UNCHANGED failedRuns
    BY <1>1, <1>3 DEF StartJob, PromoteDelayed, TypeOK
  <2>2. \A i \in Jobs : QueueState(i)' = QueueState(i)
    BY <2>1 DEF QueueState, Live
  <2>3. QED
    BY <1>1, <2>1, <2>2, QueueStutters
<1>4. ASSUME NEW j \in Jobs, CompleteJob(j) PROVE Queue!Complete(j)
  <2>1. /\ \A i \in Jobs \ {j} : jobState'[i] = jobState[i]
        /\ jobState[j] = "active" /\ jobState'[j] = "completed" /\ UNCHANGED failedRuns
    BY <1>1, <1>4 DEF CompleteJob, Goto, TypeOK, IndInv, RunIsActive
  <2>2. st' = [st EXCEPT ![j] = "done"] /\ st[j] = "pending"
    BY <2>1 DEF QueueState, Live
  <2>3. ended' = ended \cup {j}
    BY <2>1
  <2>4. QED
    BY <2>1, <2>2, <2>3 DEF Queue!Complete
<1>5. ASSUME NEW j \in Jobs, FailJob(j) PROVE Queue!Throw(j) \/ Queue!GiveUp(j)
  <2>1. /\ \A i \in Jobs \ {j} : jobState'[i] = jobState[i]
        /\ jobState[j] = "active" /\ attempts[j] \in Nat /\ failedRuns[j] \in Nat
        /\ jobState'[j] = IF attempts[j] <= MaxAttempts THEN "delayed" ELSE "failed"
        /\ failedRuns' = [failedRuns EXCEPT ![j] = failedRuns[j] + 1]
    BY <1>1, <1>5 DEF FailJob, Goto, TypeOK, IndInv, RunIsActive
  <2>2. attempts[j] = failedRuns[j] + 1 /\ attempts[j] <= MaxAttempts + 1
    BY <1>1, <2>1 DEF CrashesAreNotAttempts, AttemptLeft
  <2>3. ended' = ended /\ j \notin ended
    BY <2>1
  <2>4. CASE attempts[j] <= MaxAttempts
    <3>1. st' = st /\ st[j] = "pending"
      BY <2>1, <2>4 DEF QueueState, Live
    <3>2. failedRuns[j] <= MaxAttempts
      BY <2>1, <2>2, <2>4
    <3>3. failedRuns' = [failedRuns EXCEPT ![j] = IF @ <= MaxAttempts THEN @ + 1 ELSE @]
      BY <2>1, <3>2
    <3>4. QED
      BY <2>3, <3>1, <3>3 DEF Queue!Throw
  <2>5. CASE attempts[j] > MaxAttempts
    <3>0. jobState'[j] = "failed"
      BY <2>1, <2>5
    <3>1. st' = [st EXCEPT ![j] = "dead"] /\ st[j] = "pending"
      BY <2>1, <3>0 DEF QueueState, Live
    <3>2. failedRuns[j] = MaxAttempts
      BY <2>1, <2>2, <2>5
    <3>3. failedRuns' = [failedRuns EXCEPT ![j] = MaxAttempts + 1]
      BY <2>1, <3>2
    <3>4. QED
      BY <2>3, <3>1, <3>2, <3>3 DEF Queue!GiveUp
  <2>6. QED
    BY <2>1, <2>4, <2>5
<1>6. CASE WorkerCrash
  <2>1. \A j \in Jobs : jobState'[j] = IF jobState[j] = "active" THEN "waiting" ELSE jobState[j]
    BY <1>6 DEF WorkerCrash
  <2>2. UNCHANGED failedRuns
    BY <1>6 DEF WorkerCrash
  <2>3. \A j \in Jobs : QueueState(j)' = QueueState(j)
    BY <2>1 DEF QueueState, Live
  <2>4. QED
    BY <1>1, <2>2, <2>3, QueueStutters
<1>7. CASE UNCHANGED queueVars
  <2>1. UNCHANGED failedRuns /\ \A j \in Jobs : QueueState(j)' = QueueState(j)
    BY <1>7 DEF queueVars, QueueState, Live
  <2>2. QED
    BY <1>1, <2>1, QueueStutters
<1>8. QED
  BY <1>2, <1>3, <1>4, <1>5, <1>6, <1>7, QueueWriters DEF Queue!Next

(* The jobs of the outbox live and end as JobQueue promises: crashes forget *)
(* none and charge none, and a job that is over stays over.                 *)
THEOREM OutboxQueueRefines == Spec => ImplementsJobQueue
<1>1. Init => Queue!Init
  BY DEF Init, Queue!Init, QueueState
<1>2. IndInv /\ AttemptLeft /\ [Next]_vars => [Queue!Next]_(Queue!vars)
  BY QueueSteps
<1>3. QED
  BY <1>1, <1>2, InductiveInvariant, AttemptsWithinBudget, PTL
     DEF Spec, ImplementsJobQueue, Queue!Spec
=============================================================================
